SPECIFICATION Spec
CONSTANTS
    Requests = {q1, q2, q3}
    Checks = {many}
    Blocking = {many}
    Fails <- MCFails
    KeepVersions = 2
    MaxRows = 2
    MaxVersions = 3
SYMMETRY Symmetry
CHECK_DEADLOCK FALSE
INVARIANTS RetentionWindow RequestsStandAlone
PROPERTIES GateUnlessEdited ImplementsHistory
