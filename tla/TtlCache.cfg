SPECIFICATION Spec

CONSTANTS
    Callers = {c1, c2, c3}
    Keys = {k1, k2}
    NumLocks = 5
    None = None
    MaxEntries = 1
    TTL = 2
    Short = 1
    MaxVersion = 1
    MaxWait = 1

SYMMETRY Symmetry

INVARIANT
    NeverExpired

PROPERTY
    LoadsInTurn
