-------------------------- MODULE MCHttpConnection --------------------------
\* Values of the constants of HttpConnection for TLC, and what its runs check.
EXTENDS HttpConnection

S(body, chunked, expect, keep, bad) ==
    [body |-> body, chunked |-> chunked, expect |-> expect,
     keepAlive |-> keep, upgrade |-> FALSE, bad |-> bad]

Get     == S(0, FALSE, FALSE, TRUE, 0)   \* GET
Chunk   == S(1, TRUE, FALSE, TRUE, 0)    \* a chunked body of one unit
Upload  == S(3, TRUE, FALSE, TRUE, 0)    \* more than the high-water mark
Expect  == S(2, FALSE, TRUE, TRUE, 0)    \* content-length and `expect`
NoHead  == S(0, FALSE, FALSE, TRUE, 1)   \* a malformed request line
NoBody  == S(2, TRUE, FALSE, TRUE, 4)    \* a malformed second chunk
Upgrade == [Get EXCEPT !.upgrade = TRUE]

\* For the order of requests and responses: every way a request can end.
Orderly == {Get, Chunk, NoHead}
\* For the body and its backpressure.
Bodies == {Get, Upload, Expect, NoBody, Upgrade}
\* For what must happen in the end.
Few == {Upload, Upgrade}
=============================================================================
