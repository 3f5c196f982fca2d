\* The same with the wait_closed() of asyncio.
SPECIFICATION FairSpec
CONSTANTS
    Conns = {c1, c2}
    WithLifespan = TRUE
    WaitClosedWaits = TRUE
\* A server that has stopped, or failed to start, does nothing more.
CHECK_DEADLOCK FALSE
PROPERTIES
    ShutdownEnds
