SPECIFICATION Spec
CONSTANTS
    Docs = 3
    MaxEdits = 2
    MaxRuns = 3
    MaxCrashes = 1
CHECK_DEADLOCK FALSE
INVARIANTS TypeOK OkIsEarned KillLosesTheTail
