SPECIFICATION Spec

CONSTANTS
    k1 = k1
    k2 = k2
    Keys = {k1, k2}
    Pictures <- MCPictures
    MaxBriefs = 1
    CoolDown = 2
    MaxAlerts = 3
    Clients = {tab}
    Backfill = 1
    MaxQueue = 1

INVARIANTS
    InboxIsCurrent
    StreamExplained

PROPERTIES
    HighIsAnnounced
