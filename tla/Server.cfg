\* Three connections, with a wait_closed() that does not wait, as uvloop has it.
SPECIFICATION FairSpec
CONSTANTS
    Conns = {c1, c2, c3}
    WithLifespan = TRUE
    WaitClosedWaits = FALSE
\* A server that has stopped, or failed to start, does nothing more.
CHECK_DEADLOCK FALSE
INVARIANTS
    HooksStopLast
    DrainedIsEmpty
    NothingLeftOpen
    TheAnswerIsItsOwn
PROPERTIES
    NothingBeginsWhileDraining
    ShutdownEnds
