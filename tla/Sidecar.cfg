SPECIFICATION SidecarSpec
CONSTANTS
    Backends = {b1, b2}
    Pids = {p1, p2, p3}
    None = None
    MaxFaults = 2
INVARIANTS
    LeavesNothing
    NoStorm
PROPERTIES
    ComesBack
