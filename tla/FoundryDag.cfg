SPECIFICATION DagSpec
CONSTANTS
    Datasets = {"raw", "a", "b"}
    Absent = Absent
    Bodies <- MCBodies
    Editors = {e1, e2}
    Pipelines = {p1}
    MaxTransforms = 3
    MaxRequests = 2
SYMMETRY Symmetry
CHECK_DEADLOCK FALSE
INVARIANTS CheckIsExact OrderedAndFresh StuckOnlyIfBroken
PROPERTY CycleOnlyIfEdited
