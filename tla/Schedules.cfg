SPECIFICATION FairSpec
CONSTANTS
    Slots = {s1, s2}
    Intervals = {1, 2}
    Cap = 2
    MaxFaults = 1
INVARIANTS AtMostOneLate ErrorVisible
PROPERTIES DueOnce LoopServesAll
