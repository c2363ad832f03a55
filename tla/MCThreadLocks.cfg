SPECIFICATION FairSpec
CONSTANTS
    Caller = {c1, c2, c3, c4}
    Thread = {t1, t2}
    Entry = {e1, e2, e3, e4}
    None = None
INVARIANTS TypeOK Accounting Serialized NoIdleEntries
PROPERTIES ImplementsMutex LockPassedOn
