\* What a client reads that waits for the answer to its upgrade.
SPECIFICATION Spec
CONSTANTS
    PauseAt = 3
    ResumeAt = 1
    MaxMessage = 2
    MaxSegment = 3
\* Once the connection is lost and its task is over the system stops.
CHECK_DEADLOCK FALSE
INVARIANT
    AnsweredInHttp
