SPECIFICATION Spec
CONSTANTS
    OutSize = 4
    MailboxCount = 2
    MaxFrames = 4
    MaxNoise = 2
    SharedIrq = TRUE
    ErrorLevels = {"active", "warning", "passive", "busoff"}
    MayReject = FALSE
INVARIANTS
    TypeOK
    TxokIsUnreported
    StrandedOnlyByLoss
    ReceptionHasRoom
PROPERTIES
    ImplementsStream
    AbortLeavesAtMostOne
