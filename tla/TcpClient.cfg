SPECIFICATION FairSpec
CONSTANTS
    MaxDials = 2
    PoolSize = 2
    Kinds = {"bytes"}
INVARIANTS
    QuitsAreOrdered
    ConnectedIsReal
PROPERTIES
    SignalsTellTheTruth
    CallsReturn
    ToldTasksEnd
