SPECIFICATION Spec
CONSTANTS
    Payloads = {0, 1, 5, 6}
    MaxChunk = 8
    LenLimit = 8
    Cap = 9
    MaxSent = 2
    MaxChunks = 4
CHECK_DEADLOCK FALSE
INVARIANTS
    WholeMessages
    FirstFrameDelivered
