\* Three requests, pipelined in every way, ended in every way.
SPECIFICATION Spec
CONSTANTS
    MaxReq = 3
    Shapes <- Orderly
    High = 2
    Low = 1
\* Once the connection is lost and its tasks are over the system stops.
CHECK_DEADLOCK FALSE
INVARIANTS
    ResponsesInOrder
    InStep
    AbandonedIsCutOff
    KeptOnceRead
PROPERTIES
    NothingBeginsAfterClosing
    ImplementsExchange
