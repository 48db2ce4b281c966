SPECIFICATION FairSpec
CONSTANTS
    OutSize = 5
    PacketSize = 3
    MinRequest = 2
    Plans <- Mixed
    StreamOf <- MCStreamOf
INVARIANTS
    TypeOK
    InStep
    SentinelInBuffer
    BatchFits
PROPERTIES
    ImplementsRequests
    Answered
