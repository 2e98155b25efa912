SPECIFICATION RunsFairSpec
CONSTANTS
    Runs = {1, 2}
    Items = {i1, i2}
    Keep = 1
    Budget = 1
    MaxTime = 1
    Faults = {"overlap", "crash", "replace", "delete"}
CHECK_DEADLOCK FALSE
INVARIANTS SerialAlertsOnce LossIsExplained RunsOnRecord
PROPERTY SchedulerSurvives
