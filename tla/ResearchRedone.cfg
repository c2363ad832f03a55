SPECIFICATION Spec
CONSTANTS
    Docs = 3
    MaxEdits = 1
    MaxRuns = 3
    MaxCrashes = 0
CHECK_DEADLOCK FALSE
INVARIANTS NothingRedone
