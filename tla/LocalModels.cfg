SPECIFICATION FairSpec
CONSTANTS
    None = None
    MaxJobs = 1
    Roles = {main}
    Deleters = {d1, d2}
    Keys = {k1}
    MaxJob = 2
    Faults = {"preflight", "mkdir", "fetch", "late", "unlink", "save", "crash"}
INVARIANTS DirectoryIsExclusive RolesAreSound DoneIsServed
PROPERTY ModelIsFreed
CHECK_DEADLOCK FALSE
