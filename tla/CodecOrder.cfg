SPECIFICATION Spec
CONSTANTS
    Payloads = {1, 2}
    MaxChunk = 8
    LenLimit = 32768
    Cap = 1536000
    MaxSent = 2
    MaxChunks = 3
CHECK_DEADLOCK FALSE
INVARIANTS
    FramesInOrder
