SPECIFICATION FairSpec
CONSTANTS
    Request = {r1, r2, r3}
    Kinds = {"chat"}
    Owner = {o1}
    Thread = {t1}
    NoThread = NoThread
    Nobody = Nobody
    PoolSize = 2
    MaxRestarts = 0
CHECK_DEADLOCK FALSE
PROPERTIES StreamsEnd
