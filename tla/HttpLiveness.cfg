\* What must happen in the end.
SPECIFICATION LoopSpec
CONSTANTS
    MaxReq = 2
    Shapes <- Few
    High = 2
    Low = 1
\* Once the connection is lost and its tasks are over the system stops.
CHECK_DEADLOCK FALSE
PROPERTIES
    IdleIsReaped
    PauseEnds
    ShutdownDrains
