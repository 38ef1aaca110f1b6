SPECIFICATION Spec
CONSTANTS
    Threads = {t1, t2, t3}
    Conns = {c1, c2}
    Nums = {0, 2}
    Factories = {"opens", "invalid"}
    MaxDrops = 1
    NoDb = NoDb
    NoThread = NoThread
SYMMETRY Symmetry
INVARIANTS
    TypeInv
    Ownership
    NoLostWakeup
PROPERTIES
    PopulationKept
    ImplementsLedger
