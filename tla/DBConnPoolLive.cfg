SPECIFICATION FairSpec
CONSTANTS
    Threads = {t1, t2}
    Conns = {c1}
    Nums = {0, 1}
    Factories = {"opens"}
    MaxDrops = 1
    NoDb = NoDb
    NoThread = NoThread
PROPERTIES
    CallsReturn
    TasksGiveBack
