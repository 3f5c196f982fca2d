SPECIFICATION Spec
CONSTANTS
    Apps <- MCApps
    Tasks = {1, 2, 3}
    Takes <- MCTakes
    Jwt <- MCJwt
    MaxAge = 1
    MaxReasonable = 9
    ChunkSize = 2
    MaxKeys = 3
    MaxFiles = 3
\* Once every request is answered only time goes on.
CHECK_DEADLOCK FALSE
INVARIANTS
    SessionRemembers
    RoutedAsDeclared
    AdmittedAsDeclared
    RangesAsNamed
    CopyIsOneFile
