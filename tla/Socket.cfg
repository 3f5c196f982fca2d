\* Frames in segments of up to four, the marks of the code, and a handler that
\* keeps receiving.
SPECIFICATION ReceivingSpec
CONSTANTS
    PauseAt = 32
    ResumeAt = 8
    MaxMessage = 3
    MaxSegment = 4
\* Once the connection is lost and its task is over the system stops.
CHECK_DEADLOCK FALSE
INVARIANTS
    OneDisconnectLast
    QueueBounded
    PausedByTheQueue
    FramesThenClose
PROPERTIES
    PauseEnds
    EndIsTold
