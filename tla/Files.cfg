SPECIFICATION MCSpec
CONSTANTS
    Procs = {p1, p2}
    Plain = {"b", "d/.h", "d/s/b"}
    Hidden = {"d/.h"}
    Dirs = {"d", "d/s"}
    In <- MCIn
    Base <- MCBase
    Docs = {"object", "array"}
    Blocks <- MCBlocks
    IsObject <- MCIsObject
    Sources <- MCSources
    MaxDepth = 3
    MaxFaults = 1
    MaxFileCalls = 4
    Jobs <- MCJobs
    ChunkSizes = {0, 1, 2, 3, 5}
    Positions <- MCPositions
    MaxChunks = 3
    SecondBytes <- MCBytes
    OtherBytes = {0, 85, 255}
    MaxMessage = 4
SYMMETRY MCSymmetry
INVARIANTS
    DocumentKept
    ZipRoundTrip
    CountsWhatItGave
    ChecksumIsRemainder
PROPERTIES
    CutIsLastBoundary
    ForwardToTheEnd
CHECK_DEADLOCK FALSE
