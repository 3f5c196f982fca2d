SPECIFICATION Spec
CONSTANTS
    Workers = 2
    Crashes = 2
    StartFails = TRUE
INVARIANTS
    ReturnsLast
PROPERTIES
    DeadIsReplaced
    StopEnds
