SPECIFICATION LogSpec
CONSTANTS
    Threads = {t1}
    Users = {l1, l2}
    Inst = inst
    Worker = worker
    Sinks = {s1}
    QueueSize = 2
    MaxMsgs = 3
    MaxTuning = 1
INVARIANTS
    MessagesAccounted
    GoneIsFlushed
PROPERTY
    PoolWritesAll
CHECK_DEADLOCK FALSE
