SPECIFICATION Spec
CONSTANTS
    Publisher = {p1, p2}
    Rollbacker = {}
    Version = {v1, v2}
    NoVersion = NoVersion
    c1 = c1
    n1 = n1
    Chunk <- MCChunk
    Online <- MCOnline
    NewKb <- MCNewKb
    Builds <- MCBuilds
SYMMETRY Symmetry
CHECK_DEADLOCK FALSE
INVARIANTS SupersededAreFound
