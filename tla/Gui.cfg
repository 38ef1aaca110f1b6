SPECIFICATION GuiSpec
CONSTANTS
    MaxQueueSize = 2
    MaxTasks = 7
    MaxNesting = 1
    GridSizes = {100, 521, 2500}
    GridMargins = {20, 300}
    GridMins = {0, 37}
    GridNums = {3}
    MaxSetters = 2
    SliderMax = 5
    SliderStep = 2
    MaxSteps = 3
    MaxTold = 12
    CapturePos <- MCCapturePos
    CaptureRatios = {115, 125}
    MaxStarts = 2
    Futures = {f1, f2}
    WaitTimes = {0, 2, 4}
    WaitLimit = 3
    MaxWaits = 3
INVARIANTS
    QueueBounded
    EachOnceInOrder
    LinesFit
    OffsetsAddUp
    CaptureIsTheSelection
PROPERTIES
    ParentComesBack
    WaitsReturn
CHECK_DEADLOCK FALSE
