SPECIFICATION Spec
CONSTANTS
    Requests <- MCRequests
    Frames <- MCFrames
    Garbage <- MCGarbage
INVARIANTS
    TypeOK
    AcceptsTable
    RoundTrip
    FrameReported
    AckNamesFrame
CHECK_DEADLOCK FALSE
