SPECIFICATION Spec
CONSTANTS
    Apps <- MCSharedApps
    Tasks = {1}
    Takes <- MCTakes
    Jwt <- MCJwt
    MaxAge = 1
    MaxReasonable = 9
    ChunkSize = 2
    MaxKeys = 3
    MaxFiles = 3
\* Once every request is answered nothing goes on.
CHECK_DEADLOCK FALSE
INVARIANT
    NoFitIsNotFound
