SPECIFICATION Spec
CONSTANTS
    MaxDials = 1
    PoolSize = 1
    Kinds = {"bytes"}
PROPERTIES
    DialSuccessIsUsable
