SPECIFICATION Spec
CONSTANTS
    Threads = {t1, t2, t3}
    Capa = 1
    MaxItems = 2
CHECK_DEADLOCK FALSE
INVARIANTS
    NeverDequeuesEmpty
