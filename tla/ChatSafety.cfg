SPECIFICATION Spec
CONSTANTS
    Request = {r1, r2, r3, r4}
    Kinds = {"chat", "get", "delete"}
    Owner = {o1, o2}
    Thread = {t1}
    NoThread = NoThread
    Nobody = Nobody
    PoolSize = 3
    MaxRestarts = 1
SYMMETRY Symmetry
CHECK_DEADLOCK FALSE
INVARIANTS TypeOK TurnsOnOwnThread ContentOwned DeletedForGood ReadsAreSettled StreamsHoldLease
PROPERTIES ClosedIsFinal
