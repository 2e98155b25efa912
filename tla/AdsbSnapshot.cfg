SPECIFICATION Spec

CONSTANTS
    fast = fast
    slow = slow
    feed = feed
    Aircraft = {fast, slow}
    Slow = {slow}
    Feeds = {feed}
    Reports <- MCReports
    Floor = 2
    Thin = 2
    RetainPct = 100
    HoldMax = 1
    StaleMax = 1
    CarryMax = 2
    SliceMax = 2
    PosCap = 3
    MaxAge = 5

INVARIANTS
    PullBudget

PROPERTIES
    NotLockedOut
    NeverBackwards
    NoBlink
    FreshestServed
