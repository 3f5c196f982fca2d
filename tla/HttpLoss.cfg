\* What receive() says of a connection that is gone.
SPECIFICATION Spec
CONSTANTS
    MaxReq = 1
    Shapes <- Bodies
    High = 2
    Low = 1
\* Once the connection is lost and its tasks are over the system stops.
CHECK_DEADLOCK FALSE
INVARIANT
    LossReachesReceive
