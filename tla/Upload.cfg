SPECIFICATION Spec
CONSTANTS
    MaxRequestLine = 3
    MaxHeadersSize = 13
    MaxHeaderCount = 3
    MaxChunkLine = 2
    MaxBodySize = 60
    MaxParts = 2
    MaxFieldSize = 2
    MaxFileSize = 4
    MaxPartHeaders = 6
    ContentLength <- MCContentLength
    ChunkSize <- MCChunkSize
    Sent <- MCSent
INVARIANTS
    OneFraming
    ReadAsOne
    ParsedAsSent
    FilesClosed
    Bounded
CHECK_DEADLOCK FALSE
