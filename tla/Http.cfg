SPECIFICATION HttpSpec
CONSTANTS
    MaxUploads = 4
    MaxDownloads = 4
    Total = 2
INVARIANTS
    BusyWithCurrentReply
    SendingHasFile
    EachReportedOnce
    NoForeignBytes
    SuccessIsComplete
PROPERTIES
    ReportIsFinal
    FailureIsCleanedUp
CHECK_DEADLOCK FALSE
