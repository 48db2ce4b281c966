SPECIFICATION Spec
CONSTANTS
    OutSize = 4
    MailboxCount = 3
    MaxFrames = 3
    MaxNoise = 2
    SharedIrq = FALSE
    ErrorLevels = {"active", "warning", "passive", "busoff"}
    MayReject = FALSE
INVARIANTS
    ServiceInv
PROPERTIES
    ImplementsStream
