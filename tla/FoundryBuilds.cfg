SPECIFICATION FairSpec
CONSTANTS
    Builds = {b1, b2}
    MaxInput = 2
    MaxTime = 1
    Faults = {"overlap", "crash", "store"}
CHECK_DEADLOCK FALSE
INVARIANTS SucceededWroteOnce NotStaleIsTrusted ReplacedTablesFollow
PROPERTY BuildEnds
