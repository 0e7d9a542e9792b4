CONSTANTS
    Trees = {t1, t2}
    NoPending = NoPending
    FloorCount = 2
    MaxCount = 3
    MaxObs = 5
    Jobs = {j1, j2}
    MaxAttempts = 2
    MaxRuns = 2
SPECIFICATION MCSpec
CHECK_DEADLOCK FALSE
INVARIANTS
    IntermittentExactly
PROPERTIES
    PromiseKept
    LogKept
    EveryRacerSucceeds
