\* The body, its backpressure and the timers, for every kind of request.
SPECIFICATION Spec
CONSTANTS
    MaxReq = 2
    Shapes <- Bodies
    High = 2
    Low = 1
\* Once the connection is lost and its tasks are over the system stops.
CHECK_DEADLOCK FALSE
INVARIANTS
    TypeOK
    IdleIsTimed
    PausedByTheBody
    BodyIsWhole
    NoLostWakeUp
    NobodyDrainsWhatIsLost
