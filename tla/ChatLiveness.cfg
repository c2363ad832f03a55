SPECIFICATION FairSpec
CONSTANTS
    Request = {r1, r2, r3}
    Kinds = {"chat", "get", "delete"}
    Owner = {o1}
    Thread = {t1}
    NoThread = NoThread
    Nobody = Nobody
    PoolSize = 3
    MaxRestarts = 0
CHECK_DEADLOCK FALSE
PROPERTIES Answered DrainCloses
