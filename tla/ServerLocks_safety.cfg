SPECIFICATION FairSpec
CHECK_DEADLOCK FALSE
CONSTANTS
    w1 = w1
    w2 = w2
    w3 = w3
    sync = sync
    t1 = t1
    t2 = t2
    Workers = {w1, w2}
    SyncWorker = sync
    Tables = {t1}
    Routes = {"search", "insert", "delete", "train"}
INVARIANTS
    SwapExclusive
    IndexExclusive
    NoOtherDeadlock
PROPERTY
    RequestsAnswered
