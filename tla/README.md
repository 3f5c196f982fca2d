# featherweb in TLA+

featherweb is a Python web framework that brings its own HTTP/1.1 and WebSocket
server on top of asyncio. This directory holds TLA+ models of the parts of it
whose correctness depends on the order in which things happen, the TLC runs
that check them on small instances, and TLAPS proofs of what holds for every
value of their parameters.

All paths below are relative to the repository (`src/src/featherweb/` is the
package; module names like `server/protocol.py` are relative to the package).

## 1. The system

| Component | State it keeps | Operations | What makes it correct |
|---|---|---|---|
| HTTP connection, `server/protocol.py` (`HttpProtocol`, `RequestCycle`) | transport, parser, the cycle in flight, one timer, paused reading, full write buffer, `_closing`; per request: buffered body, flags, an event, how far the response is | asyncio callbacks; two timers; `receive()`, `send()`, `run()` of every request; `shutdown()`, `abort()` | responses whole and in order; keep-alive only after a fully read request; no lost wake-up; no silent client stays; backpressure never deadlocks; shutdown drains |
| HTTP/1.1 parser, `server/parser.py` | buffer, state, remaining sizes, sticky error | `feed_data`, `feed_eof`, `next_event`, `start_next_message` | the events do not depend on how the bytes are cut into segments; limits hold |
| WebSocket layer, `server/ws_protocol.py` (`FrameParser`, `WebSocketCycle`) | handshake and close flags, fragments of a message, the queue of messages | `feed_data`, `on_disconnect`, `receive()`, `send()`, `run()` | messages in order, exactly one disconnect and nothing after it; one close frame; backpressure; HTTP answer before any frame |
| Server, `server/runner.py` (`Server`, `_Lifespan`) | listening socket, `should_exit`, connections, tasks, the lifespan task and its two queues | `startup`, `serve`, `request_shutdown`, `shutdown` | nothing served before the application is ready; shutdown ends; shutdown hooks run exactly when startup hooks did |
| Supervisor, `server/workers.py` | worker processes, `_stopping` | `run`, `_supervise`, `stop` | no worker outlives `stop()` |
| Application, `app.py` | routes, hooks, error handlers, mounts | `_dispatch`, `_handle_http`, `_handle_websocket`, `_handle_lifespan` | guard before handler; every request answered; uploads closed |
| WebSocket API, `websocket.py` | accepted, closed by either side | `accept`, `receive`, `send`, `close`, `deny` | legal message sequences only |
| Router, `routing.py` | tree of nodes | `add`, `resolve` | a path reaches only a handler whose pattern it fits, and 404 or 405 otherwise |
| Request and forms, `request.py`, `multipart.py` | body, form, spooled files | `body`, `stream`, `form`, `close` | parts found wherever chunks are cut; every file closed |
| Responses, `response.py`, `staticfiles.py` | headers, status | `send`, ranges, conditional requests | the range is inside the file; the length announced is the length sent |
| Authentication, `auth/` | keys, sessions, claims | sign, verify, guard | a session survives rotation, overlapping requests and lost responses; a guard lets nobody else pass |
| Middleware, parameters, `middleware.py`, `params.py` | the chain, the plans of the arguments | `build_chain`, `Binder.build` | a layer that answers or fails changes nothing behind it; what is invalid is reported as a whole, before the handler |
| Validation, serialization, controllers, CLI, test client | none that changes over time | conversions and wiring | left to the tests, but for what a request meets on its way |

How they interact: asyncio calls `HttpProtocol`, which drives `HttpParser` and
creates a `RequestCycle` and a task for each request head. The task runs the
ASGI application, which calls back `receive()` and `send()`; these change the
cycle, the protocol and the transport in the same step. An upgrade replaces the
cycle by a `WebSocketCycle` that uses the protocol to write, close, pause and
drain. The server shares `ServerState` (`should_exit`, the connections, the
tasks) with all of them, and the supervisor runs one server per process.

Inside the application a request passes the middlewares, then a mount or the
router, the authentication, the guard, the binder (which may wait for the body,
so for the parser and the client), the handler and the sending of a response. A
request has nothing in common with those it overlaps except what the browser
carries between them (cookies, tokens, copies of files), the secrets and the
files on disk.

Everything in a process runs on one event loop, so the interleavings that
matter are between callbacks and the `await` points of the tasks. The hard
behaviours, with the line where each bites, are the `hazards` of
`PROJECT.json`.

## 2. The modules

### `HttpConnection` - one connection

State is named after the attributes of the code: `cycle` (`_cycle`), `timer`,
`readPaused`, `writable`, `closing`, `upgraded` (`_websocket`), and for every
request `buffered`, `bodyComplete`, `bodyFinished`, `disconnected`, `event`,
`continueDue`, `keepAlive`, `response`. A request `r` is the `r`-th message on
the connection, and its cycle has the same number. `sender` and `receiver` are
the two places where the application's task of a request can be: the coroutine
that sends (running, waiting in `drain()`, over) and a call of `receive()` that
waits for the event.

* An action is what happens from one suspension to the next: a callback with
  everything it calls (`DataReceived` runs the whole of `_resume_parsing`, the
  creation of the cycle, the error response and the pause of reading), or a
  task from an `await` to the next (`Send` runs `_build_head`, the writes,
  `on_response_complete` and the parsing of the next pipelined request, and
  ends in `drain()`).
* Bytes are counted in pieces: the start of a request, the rest of its head, a
  unit of body, the closing chunk. A segment is any run of pieces, so heads and
  bodies are cut and requests are pipelined in every way.
* `transport` merges asyncio's transport with `_transport is None`: "closing"
  is after `close()` or `abort()`, when writes are dropped and no data is
  delivered, and "lost" is after `connection_lost`.
* The application is arbitrary: it may start, continue and complete its
  response at any time, read in parallel, return or raise at any time. It stops
  only when its own `receive()` is not pending.
* `client` is the reader at the other end: how many responses it has read and
  in which part of one it is. It becomes "garbled" for good when it gets
  anything out of turn. It is what the safety properties are about.
* Left out: the names and values of headers, the numbers behind a status, the
  number of bytes in a write. What the application contributes to keep-alive (a
  `connection: close` header, a stream to an HTTP/1.0 client) is the parameter
  `close` of a send. A response whose body does not have the length its own
  `content-length` announced is not modelled. Timers have no duration: one that
  runs may expire.

Parameters: `MaxReq` requests, their `Shapes`, the water marks `High` and
`Low`.

### `MCHttpConnection`

The shapes of request the runs use.

### `WebSocketConnection` - the same connection after an upgrade

`WebSocketCycle` with the parts of `HttpProtocol` it uses. `handshake`,
`closed`, `disconnected`, `connectSent`, `queue` (`_incoming`), `inMessage` and
`fragments` are its attributes; `transport`, `readPaused` and `writable` those
of the protocol; `sender` and `receiver` the places of the handler as above,
except that a handler has one task here.

* `DataReceived(n)` brings a segment of `n` frames, and the loop of
  `feed_data()` handles them one action each; nothing else is enabled until
  `reading` is 0 again. A frame is a data frame (continuation or not, last or
  not, valid UTF-8 or not), a ping, a pong, a close frame or anything the frame
  parser rejects.
* `Fail`, `EchoClose` and `OnDisconnect` are the code's three ways to end a
  connection, shared by the actions that reach them, mutants included: whether
  they may come together is what `OneDisconnectLast` is about.
* `client` is what the peer has read: it waits for its upgrade, is open,
  refused or closed, and `faults` collects the phases in which it read
  something that had no place there.
* Assumed: the client sends no frame before the 101 has reached it (bytes
  behind the upgrade request in the same read stay in the HTTP parser, see the
  hazards). Left out: the content of messages, close codes, and bytes within a
  frame; a message's size is its number of fragments.

### `ServerLifecycle` - the process around the connections

`pc` is where `Server.serve()` stands: in `startup()` (`start`, `starting`,
`binding`), `serving`, in `shutdown()` before `wait_closed()` (`closing`), in
the wait for `drained` (`draining`), in `gather()` (`gathering`), in
`_Lifespan.shutdown()` (`stopping`, `finishing`), `stopped`; `failed` is a
`startup()` that raised. `life` and `hooks` follow the application's lifespan
task, `asked` and `replies` are the two queues between it and `_Lifespan`.

A connection is `accepted` by the loop, made (`idle`), `busy` with a request or
a `socket`, `closing` and `gone`; `task` is its task in `state.tasks`. What
happens inside is the other modules' subject; what they establish is used here
as the shape of the actions: a response closes the connection when
`should_exit` is set, a task that ends without a complete response closes it,
`HttpProtocol.shutdown()` closes the connections without a request in flight.
Bound: a connection has at most one task that is not over. A timeout is a step
that may happen at any time while its condition is waited for.

`WithLifespan` is the option of that name. `WaitClosedWaits` says whether
`Server.wait_closed()` waits for the connections: asyncio's does in every
version the package supports, uvloop's does not.

### `Exchange` - what a connection promises

A server that takes one request at a time: hand it over, begin its response,
finish it, take the next; or refuse what comes next, or end. No timers, tasks,
buffers or bodies. `HttpConnection` instantiates it with `handed` as the number
of cycles created, the client's own count of whole responses as `answered`, its
place in a response as `phase`, and a transport that takes writes as `open`;
`ImplementsExchange` is the refinement. One step of the code may finish a
response, hand over the next request or refuse what comes next, because
`on_response_complete()` goes on parsing inside the `send()`; `Finish` and
`Refuse` have the corresponding choices.

### `WorkerSupervisor` - the processes

`Supervisor.run()`, `_supervise()` and `stop()`, and the decision of `cli.py`
between a supervisor and a single server. `pc` has a place for each of two
threads, as `stop()` is public and the tests call it from another thread while
`run()` is at work; `list` and `snap` are `_processes` and the copy that
`_supervise()` walks over; `proc` is what the system knows of every process
ever made. A process is `loading` until the server in it has its signal
handlers, so SIGTERM ends it at once; when it is up SIGTERM makes it drain, and
it may never finish, which is what `kill()` is for. The system may refuse to
start a process, and the exception goes through the `finally` of `run()`.

### `RequestParser`, `WholeStream`, `MultipartForm`, `WholeForm`, `Upload`

`RequestParser` is `HttpParser`: one `ParserStep` is one turn of the loop of
`next_event()`, `FeedData(n)` appends a segment, and the running parser takes
all its steps before anything else happens. A stream is a sequence of symbols
of one byte each: CR, LF, and one symbol for each thing a line can say. What a
line means is looked up; where it ends, how long it is, in which order the
checks come and which status each has is the code's. `framing` is what the
fields say of the body, `Refusal` what they must not say.

`WholeStream` models no code. It is how one reads a stream that lies there
whole: from one line to the next, and through a body symbol by symbol, with no
segments, no line that has come in part and nothing to wait for (`Onward`).
`Course` is the set of places such a reading comes to and `Ends` those where it
stops. It is built four places at a time (`Four`), so that the recursion, which
TLC nests on its stack, stays shallow for streams of a hundred symbols; that
these are the places one comes to step by step is `CourseByFour`, proved in
`ParserProofs`. The real parser sees only what has come; `ReadAsOne` of
`Upload` says that it reads no other way.

`MultipartForm` is `parse_multipart()` with its `_Reader`: the reader's states
are those of the code, `pending` its queued writes, `files` every `UploadFile`
with what was written to it and whether it is open and listed. A step of the
reader, a write, the seeks and a close are steps of their own. `Disconnected`
and `Cancelled` may come at each await of the reading, and `CloseCancelled` at
each of the closing, which a file on disk has: the file has been closed or not,
the loop is left, and the task is `unclosed`. Which files live on disk is left
open.

`WholeForm` models no code either. It is how one reads a form who has all of
the body before them, or all there ever is of it: symbol by symbol, with no
chunks, no buffer and no writes that wait (`FormOn`; `FormCourse` is the set of
places such a reading comes to). `Unformed` is a form that is refused, and
`TooMuchHead` a place where the real reader may give up on the headers of a
part, which it does if their end is not there when it has too much of them.

`Upload` joins them as the program does: the body of a parsed request is what
`receive()` hands out, in whatever portions the task finds when it gets to run,
and the next request is not parsed before this one is answered.

Each stream comes with every outcome that is right for it (`wants`).
`MeantAssumption` says what they are: what one reads in it who has the stream
whole (`Course`) and the body of its first request whole (`FormMeant`).

`MCUpload` has the streams, with their outcomes written out from what the
client means. TLC evaluates `MeantAssumption` on them, so outcomes that were
listed by hand and the two ways to read the whole agree.

### `Routing`, `Credentials`, `FileAnswer`, `WebApp` - an application

The first three are the pure parts, as operators. `Routing` does not build the
tree: a node is the sequence of edges that leads to it and what `add()` left
there is read off the routes, in the order of their registration. `Step` is
what `_match()` does at one node, given what it comes back with from the nodes
below, and `Match` the function on the nodes that satisfies this equation; it
ends because a node is as deep as it has edges. `Credentials` is `auth/`:
signed values with their age and several keys, sessions that know whether they
were changed, tokens with claims and leeway, identities and guards.
`FileAnswer` makes the status, the range and the validators of a
`FileResponse`.

`WebApp` is what several requests of one browser do with them. A request is in
one of the stages between two waits of `_handle_http()`: `Ask` (middlewares,
mount or route, authentication, guard, until the binder waits), `Bind`,
`Handle` (one deed of a handler; between two of them other requests run),
`Deliver` (the head reaches the browser), `Open` and `Read` (a block of a
file), and `Cut` if the connection is lost under it. `Tick`, `Rotate`,
`Rewrite` and `Unlink` are the world: time, new secrets, other files under the
same name. A handler is a program of deeds that touch the session and end in a
value, a response or an exception; error handlers, local and global, are found
along the classes of an exception. `mind`, `held`, `owed`, `issued`,
`returned` and `cause` exist for the properties: what the browser was last told
it is and for how long (`Memory`, with a token), what that was when it asked,
what the deeds of the handler have made of it since and which token they have
issued, what the response is going to tell, and which exception it answers.
What of `mind` counts is `Genuine`: its time is not over and its secret still
among the keys.

`MCWebApp` has the applications, and a browser that asks of each what makes a
difference to it.

### The modules with theorems

`HttpConnectionProofs`, `WebSocketConnectionProofs`, `ServerLifecycleProofs`,
`WorkerSupervisorProofs`, `ParserProofs`, `UploadProofs`, `RoutingProofs`,
`WebAppProofs`: see section 4.

## 3. The runs

| Run | Instance | Shows |
|---|---|---|
| `HttpOrder.cfg` | 3 requests out of a GET, a chunked body, a malformed request line | responses in order; client and server in step; a task that lost its turn cannot write; keep-alive only after the whole request; nothing begins after closing; the connection implements `Exchange` |
| `HttpBody.cfg` | 2 requests out of 5 shapes, bodies beyond `High` | types; timers; pausing; the end of a body; wake-ups; no writer left behind |
| `HttpLiveness.cfg` | 2 requests, uploads beyond `High` and upgrades, fair loop | idle connections are reaped; pauses end if the application reads; shutdown drains without `abort()` if responses are finished |
| `Socket.cfg` | the marks of the code (32 and 8), segments of up to 4 frames, messages of up to 3, fair receiving | one disconnect, last; the queue within bounds; pausing; nothing after a close frame; pauses end; the end is told |
| `Server.cfg` | 3 connections, lifespan, `wait_closed()` of uvloop, fair loop | hooks after the last task; `drained` means drained; nothing left open; replies not confused; nothing begins once told; a shutdown ends whatever clients, requests and hooks do |
| `Workers.cfg` | 2 workers, 2 crashes, a system that may refuse to start one | no worker is left when `run()` or `stop()` returns; the dead are replaced; a supervisor told to stop does |
| `Upload.cfg` | 29 streams, every way to cut them, a handler that reads at any speed, losses and cancellations | the parser reads as if the stream were whole; requests, refusals and forms come out as sent; one framing; files closed; memory bounded |
| `WebApp.cfg` | 5 applications, up to 3 overlapping requests | the session is what the browser was last told; a handler runs, and a request is refused, as the routes, the guards and the arguments declare it; a range is what it names; a resumed download is one file |

Two requests are what interference between a late task and the next request
needs; three add a request that is pipelined behind one that is pipelined. A
body of three units with `High = 2`, `Low = 1` reaches the mark, exceeds it in
one segment, and drains below it. Deadlock is checked for the
supervisor only: a connection that is lost and whose tasks are over has nothing
left to do, and neither has a server that has stopped, a body that is read or a
browser whose requests are answered.

A WebSocket has only one task, so its interference is between that task, the
frames and the callbacks; segments of four frames let the queue pass its mark
in the middle of a segment, and the queue goes through its whole range from
empty to beyond 32. For the server three connections allow one to be told, one
to be cut off and one to be made late in the same shutdown.

Two workers and two deaths let a replacement die as well, and let a worker die
while another one is being replaced or the supervisor is being stopped.
`ReturnsLast` does not speak of a `stop()` from another thread that comes while
a worker is being started (`Settled` names the places where it may come): it
does not hold there, see section 5.

The limits of `Upload.cfg` are such that some stream goes beyond the one on the
request line, on the number of fields, on the body, the parts, a field, a file
and the headers of a part, and that a form fills a field, a file and the number
of parts exactly. The streams hold bodies in both framings, several requests in
one stream, boundaries that are almost there, two lengths, a length and an
encoding, and a malformed line of every kind. Every stream is cut at every
place, so the symbols in it are few: a longer body repeats the states of a
shorter one. Excepted from `ParsedAsSent` are a handler that is cancelled and
the clients for which more than one outcome is right, whose outcomes are all
listed; `ReadAsOne` excepts streams with two empty lines before a request, of
which `MCUpload` has one (`EmptyLines`): the parser skips one at each look, so
the cuts decide whether the request is read or refused; `FilesClosed` excepts a
handler cancelled with the form in its hands (`abandoned`) and a task cancelled
while it closes files (`unclosed`), where files do stay open, see section 5.

The applications of `WebApp.cfg` are a visit with a session (`Shop`: login,
changes, a handler that raises after one, a layer that fails on the way back,
logout, guarded routes), tokens that expire (`Api`), a file fetched, resumed
and checked while it is replaced (`Files`), every range of a small file and the
conditions around it (`Ranges`), and a table of routes, arguments, mounts,
error handlers and middlewares with every path and method that tells them apart
(`Site`). `Shop`, `Api` and `Files` have up to three requests, which is what a
lost update between two overlapping ones needs, with one before them that the
browser remembers. A cookie lives for `MaxAge` = 1 second of a clock that may
run to 3, `MaxKeys` = 3 secrets let the one a cookie was signed with drop out,
three files let a copy be taken up twice in another file's place, and blocks of
`ChunkSize` = 2 bytes end inside a range. A served file may have the sizes of
its application (`sizes`): in `Files` 0 to 4 bytes, so that an empty file is
served, takes the name and is what a file is cut off to, and `MaxFiles` = 3
files, or absences of one, have the name one after the other. The browser of
`Ranges` and `Site` sends one request, as nothing there is remembered.

Fairness. `LoopFairness`: the event loop runs timers that are due and tasks
that were woken; the client reads what it is sent or goes away, so a closing
transport is flushed and a full one empties. What the application contributes
is a premise of the property that needs it: `KeepsReading` (it calls
`receive()` again and again) of `PauseEnds`, `KeepsAnswering` (it gets to the
end of each response; strong fairness, as its sends alternate with waits in
`drain()`) and a server that does call `shutdown()` of `ShutdownDrains`. None
of the code's own steps is assumed beyond that.

`ReceivingSpec` (WebSocket) is the counterpart with `KeepsReading`: the loop of
`feed_data()` ends, woken tasks run, transports are flushed or lost, and the
handler calls `receive()` again. `FairSpec` (server) lets `serve()` go on when
what it waits for has come or its timeout has expired, makes accepted
connections, flushes closing ones, times out idle ones (what `IdleIsReaped`
establishes) and ends cancelled tasks. It assumes nothing of clients, requests
and hooks: `shutdown_timeout` and `lifespan_timeout` are there for those.
`Spec` of `WorkerSupervisor` lets both threads go on when they can and assumes
nothing of the workers: one that was told to stop may never do so. `Upload` and
`WebApp` state no liveness: whether a request ends is up to the client, the
handler and what `HttpConnection` shows.

Runs that end in a violation, each a disagreement between the code and what the
repository says of it (`findings` in `PROJECT.json`):

* `HttpLoss.cfg`: an abandoned request is not told of the end of its input.
* `SocketAnswer.cfg`: a handler that fails before it accepts has a close frame
  written to a client that waits for an HTTP response.
* `ServerWaits.cfg`: `shutdown()` held up by `wait_closed()`, before its own
  timeout starts. It waits with asyncio's loop in every version of Python the
  package supports; it does not with uvloop's.
* `WebAppConverter.cfg`: of two routes that give a segment the same name and
  another converter, the second is tried with the converter of the first, so a
  path that fits neither pattern reaches its handler (or a 422), where
  `README.md:209` promises a 404.

## 4. The proofs

`HttpConnectionProofs` proves, for every `MaxReq`, every set of shapes and all
water marks with `Low < High` (the two `ASSUME`s of `HttpConnection`):

* `TypeCorrect`. Not inductive by itself: a run of the parser that started
  behind an error would yield a negative amount of body. `ParserInv` says where
  the parser is: no error has been passed while the transport is open, the
  cycle in flight is that of the parser's message, and cycles are created in
  order.
* `ResponsesInOrderHolds`, `InStepHolds`, `AbandonedIsCutOffHolds` and
  `KeptOnceReadHolds` from one invariant, `OrderInv`. It adds to the
  properties: before the connection is made nothing happened (`Fresh`),
  requests not begun have no response and no complete body (`Untouched`), and
  while the connection is open (`Current`) no cycle in flight means the
  previous one was the last begun, a cycle in flight is not complete, and a
  head that promised keep-alive went out after the end of the body, at which
  point the parser is at the end of the message. The last part is what lets
  `on_response_complete` start the next message without skipping a byte.

It also proves `ExchangeImplemented`, the refinement, for the same parameters.
The invariant is `OrderInv`: it says that a connection whose transport is open
agrees with its client on the response, so a send of the cycle in flight is
`Begin`, `Finish` or `FinishLast` of the exchange, and a write of anyone else
goes to a transport that is closed, a stutter. Each of the six abstract steps
has a lemma that says what it asks of a step of the code; the run of the parser
behind a response is the one place where a step of the code is a finish and the
handing over, or the refusal, of the next.

Its second half proves the other six properties: `IdleIsTimedHolds`,
`PausedByTheBodyHolds`, `BodyIsWholeHolds`, `NoLostWakeUpHolds`,
`NothingBeginsAfterClosingHolds` and `NobodyDrainsWhatIsLostHolds`. Most of the
actions touch nothing of what these are about. `StepKinds` tells them apart
once: a step runs the parser on a segment (`Arrival`) or on the next message
(`NextMessage`), hands out a body (`Handout`), or does neither (`Rest`). The
invariant `BodyInv` is then followed through these four. Its parts beyond the
properties: `Unstarted` (nothing is closing or paused before the connection is
made), `HeadIsRead` (a cycle exists only behind its head), `StaysForACycle` (a
connection that is closing stays open only for a cycle or a WebSocket) and
`Accounted`, which follows every unit of a body: what was delivered and what is
buffered is what the parser has passed, and a body is complete only when that
is all of it.

`WebSocketConnectionProofs` proves the four invariants of `Socket.cfg`, the
types, and that no `send()` waits for a transport that is lost, for all water
marks with `ResumeAt < PauseAt`, all message sizes and all lengths of segments.
(The last, `NobodyDrainsWhatIsLost`, is the same code as for HTTP, where
`HttpBody.cfg` checks it.) All rest on `LoopInv`: while `feed_data()` is in its
loop the transport is open, and on an open transport no close frame has gone
out, no disconnect is queued and no message is too large. `QueueInv` adds what
the queue may still grow by (a message for each frame left, one disconnect),
which is what makes the bound inductive. `ClientInv` ties the phase of the
client to the flags of the cycle.

`ServerLifecycleProofs` proves every safety property of `Server.cfg`, the
action property included, and the types, for any set of connections and both
options. `LifeInv` follows the conversation with the lifespan task: no reply is
pending when the task is about to send one, and only an application whose first
reply was taken is asked. `ConnInv` says what is left of the connections at
each stage of the shutdown: none idle once told, none open and no task running
once cut off, no task at all behind `gather()`.

`WorkerSupervisorProofs` proves `ReturnsLast` for any number of workers (at
least two, as the command line has it), any number of crashes and a system that
may refuse to start a process. What `stop()` goes by is its list, so the
invariant is about the list: every living process is on it, but for the one
just started that `run()` is about to append (`LivingListed`); the part of it
that a `stop()` has waited for is dead (`WaitedFor`); and while `_supervise()`
walks over its copy, the entries ahead are those of the list (`CopyAhead`), so
that the assignment replaces the entry it means and drops no living one.
`Callers` adds that a `stop()` of another thread, once it has come while
`run()` is settled, keeps it from starting anything again.

`ParserProofs` proves two of the five invariants of `Upload.cfg` for all
limits, streams and cuts:

* `OneFramingHolds`. A head is accepted when none of the eleven checks of
  `_finish_headers()` fails, and what passes all of them has no two fields that
  frame the body: it has the one `Content-Length` the parser goes by, or the
  one `Transfer-Encoding`, or neither.
* `ReadAsOneHolds`. Every step of the parser is some steps of the reading of
  the whole stream, or none, so its place stays on the course (`ReadAlong`).
  A line that has come ends where it ends in the whole (`LineIsOnward`); a line
  or head refused for its length while it is still coming is refused with the
  same status by who has all of it; a piece of a body is as many steps of the
  reading as it has symbols (`DataIsOnward`); and `eof()` refuses just what is
  cut short. `RestInv` says that a parser that rests has used up what has come,
  so when everything has, its place is one where the reading stops
  (`ReadUpIsAnEnd`), and a reading stops in one place (`OneEnd`). The set
  `Course` is finite only because a line has two symbols; that no step is lost
  by its bound is an induction along the course, with the limit on the request
  line above zero (`RequestLineAssumption`): with none, the first half of an
  empty line would be refused and both halves skipped. The exception, two
  empty lines, is part of the invariant: once the course has come to them
  (`Twice`) nothing more is claimed of the stream.

`UploadProofs` proves the other three:

* `FilesClosedHolds`. What failing closes is the listed files and the one being
  written, so the invariant (`FormInv`) is that every open file is one of
  these, which holds because the reader has a file in hand only in the body of
  a part, and lists it in the step in which it lets it go. What the files hold
  does not matter to it. It is about tasks that got to the end of their closing,
  those cancelled while they read the form among them; the two cancellations
  that keep one from it are in section 5.
* `BoundedHolds`, from `ParserInv` and `FormHeld`. The parser counts a body, or
  a chunk of it, against the limit when it is announced and not when it comes
  (`Counted`), and a parser that waits has looked at what is there and found it
  within the limit of its state (`Waiting`). In the form a part is counted when
  it begins; a write that is queued counts against its file already, and of one
  file at most one write is queued (`QueueFits`, `TargetHolds`); and the reader
  keeps of its buffer only what may be the beginning of a delimiter, or the
  head of a part (`BufferFits`).
* `ParsedAsSentHolds`: `Spec => [](TwoEmptyLines(Course(stream)) \/
  ParsedAsSent)`, so for all limits, streams, cuts and speeds of the handler.
  The reader is compared with `WholeForm`. Its state, the writes that wait and
  the files are together a place (`PlaceOf`), and the invariant (`FormAlong`,
  in `FormSentInv`) is that the whole reading comes to it (`OnForm`), that the
  buffer is what of the body has come and lies behind it, and that a form that
  failed was refused by that reading, for too long headers, or at the end of a
  body in the middle of which that reading stops. Each step of
  the reader is some steps of the reading: to the opening boundary
  (`PreambleIsRead`), behind one (`BoundaryIsRead`), through the headers of a
  part (`HeadersAreRead`), and over as many symbols of data as cannot be the
  beginning of a delimiter (`DataIsRead`), however much comes at once. What is
  read stays read when more of the body comes (`OnFormStill`), which must be
  proved as the body is still growing while the form is read. A reader that
  waits has come to where the body so far ends (`WaitsAtTheEnd`), so when it is
  told that there is no more, the whole reading is stuck there, too; and when
  no write waits the files are whole (`StoredIsWhole`). The body is that of a
  place of the whole stream, by `ReadAsOne`, and what is right there is
  `MeantAssumption`.

`RoutingProofs` proves `ResolveFits`: for all routes that `add()` takes and any
path, what `resolve()` answers fits the path, and it answers something if any
pattern fits, provided that routes that give a segment of one node the same
name agree on its converter (`Agree`). Without that it is false, which is what
`WebAppConverter.cfg` shows. The search is a recursive function, and the
induction that it needs is over the depth of a node: a property of all depths
holds if the least depth that fails it leads to one that is less (`Least`, from
the well-foundedness of finite sets). In this way it is proved that

* there is a function that satisfies the equation of the search, so `Match` is
  one (`SearchIsDefined`): what `Step` says of a node depends only on nodes one
  edge deeper (`StepIsLocal`);
* along a pattern that fits, from its last node up to the root, the search
  comes back with something (`SearchFinds`): the child the pattern goes on to
  is tried, under the converter of the first route with that name, and if the
  search comes back with another, that is something too;
* what it comes back with at a node is a place of routes that pass through the
  node and fit behind it (`SearchFits`).

`WebAppProofs` proves all five invariants of `WebApp.cfg` for all applications,
any number of tasks and of keys, all ages, any leeway, any block size and any
sizes and number of files:

* `CopyIsOneFileHolds`, from `AppInv`: an ETag a browser was ever sent is that
  of one file for good (`Belongs`): no other file on the disk has it, and if
  the second it names is not over, the file that has it now is the one. That is
  so because the clock is not set back below the files, and no two files of the
  same second and size take the name, which the model assumes of the disk. A
  response on its way is that of one file, and what it is going to send begins
  where the copy ends or starts the copy again (`GoesOn`); as a browser has one
  download at a time (`OneDownload`), the copy is still the one that was asked
  about when the part of it comes. Router, session and handlers come in with
  one fact only: what they make is no response with a file.
* `SessionRemembersHolds`, from `SessionInv`. The cookie in the jar goes with
  what the browser was last told: same data, second and key (`SameJar`), so
  that keys and the clock, however they move, are looked at alike by both. A
  session is what the browser was told when it asked, with the deeds done
  since, and counts as modified just when there were any (`Holds`); so a
  response replaces the cookie just when it tells the browser something new
  (`Brings`), and what replaces the response on the way out does neither. A
  handler that touches a session has one, because the binder refuses who asks
  for one that is not there (`NoneWithout`).
* `RangesAsNamedHolds`. The arithmetic of `_parse_range()` is compared with the
  set of offsets that a range names, for a file of any size (`OffsetsAreNamed`,
  `RangeAnswer`), and the files of `Spec` have any sizes in `Nat`, 0 among
  them; that no later step changes what a response announces, or the request it
  is for, is `CaseInv` with the ways a task can move (`Moved`).
* `RoutedAsDeclaredHolds`, from `RouteInv`: from its dispatch on a request has
  a route that fits (`ResolveFits`), or a refusal with a status that is right.
  The property speaks only of handlers that ran and refusals that were made;
  between the two the body is waited for, and what is refused then must not
  look like a refusal of the router (`BuildRefuses`).
* `AdmittedAsDeclaredHolds`, from `AdmitInv`. Whom the strategy takes the
  browser for is whom the browser was told it is (`IdentityIsHeld`). With
  cookies this is `SessionRemembers`. With tokens it is `TokenInv`: the token
  the browser has, or a response brings, verifies just when what was told with
  it is in its time (`Vouches`), leeway included, since what `issue()` signs
  `decode()` accepts. The guard decides by it (`GuardChecks`), and while the
  body is waited for, in which time cookies, tokens, clock and secrets may
  change, the decision stays one about the time of the request.

Only model-checked, and not proved:

* all liveness (`IdleIsReaped`, `PauseEnds`, `ShutdownDrains`, `EndIsTold`,
  `ShutdownEnds`, `DeadIsReplaced`, `StopEnds`), as fairness and `ENABLED` are
  out of the prover's reach;
* the violations.

The assumptions are the named `ASSUME`s of the modules: in `HttpConnection` and
`WebSocketConnection` the order of the water marks and the kinds of their
parameters, in `ServerLifecycle` the options, in `WorkerSupervisor` the counts,
in `RequestParser` that limits and the sizes that fields and chunks announce
are numbers, in `MultipartForm` its limits, in `Upload` that streams are
sequences of symbols and that what is right for a stream is what one reads in
it who has it whole, in `WebApp` a block size of at least one, file sizes that
are numbers, the shape of what an application is asked (a `Range` that is
followed has one range of at most two offsets), that the routes are those
`add()` takes, and that a handler ends in a return or a raise and asks for a
session if it touches one, and in `Credentials` the ages, the allow-list of
algorithms that `JWTAuth` insists on, and that the two keys of a strategy
belong together.

## 5. What is not modelled, and limits of what is

The status of every component is in `PROJECT.json`.

Behaviour of the code that the properties leave room for, or that lies beyond
the models. A reader of the runs should know of each:

* `100 Continue` is written when `receive()` is first called, also in the
  middle of a response that was started before (`server/protocol.py:512`).
* `on_app_error()` closes the connection for a failure that comes after the
  response of the task was complete, when the next request may be in flight,
  and one between `http.response.start` and the first body ends without any
  response (`server/protocol.py:398`). Clients see an answer cut off, never a
  wrong one, which is what `InStep` and the refinement say.
* `_accept()` of a request that is no proper upgrade writes a refusal and counts
  it as accepted (`server/ws_protocol.py:457`): what the application sends next
  goes out as frames behind a 400 or 426, until it closes or returns. A second
  `accept`, or one behind a refusal by `close`, raises; one behind a `fail()` is
  let through to a transport that is closing.
* Startup hooks that are slower than `lifespan_timeout`, or run for a server
  whose socket cannot be bound, are never answered by shutdown hooks, and in
  the first case requests come before the application is ready
  (`server/runner.py:230` and `70`).
* A `stop()` called from another thread while the supervisor starts a worker
  may return with that worker running (`server/workers.py:97`); the signal
  handler, which only sets a flag, cannot do this.
* A handler cancelled with a form in its hands leaves its files to the garbage
  collector (`app.py:274`), and so does a task cancelled while it closes a file
  that lives on disk, which is an await of its own (`multipart.py:119`), with
  those behind it: in `parse_multipart()` that fails (`multipart.py:195`) and
  in `request.close()` behind a response that went out (`app.py:282`,
  `request.py:138`), of which `form()` says that the files "are closed for you"
  then (`request.py:305`). A shutdown that times out cancels tasks
  (`server/runner.py:125`), a handler may cancel what it reads the form in.
* A file that is replaced between the `stat()` that makes the head and the
  `open()` that makes the body is sent under the other's validators
  (`response.py:395` and `402`).
* The limit on the headers of a part is looked at while their end is missing,
  so for a part beyond it the segments decide (`multipart.py:319`). Likewise
  one empty line before a request is skipped per call of the parser
  (`server/parser.py:228`).
* The header timer starts again with every segment (`server/protocol.py:197`),
  although line 103 promises a limit on the whole head, so a client that sends
  a byte now and then is not reaped; timers without duration cannot show it,
  and `IdleIsReaped` says only that no client stays that is silent. Requests
  behind the current one wait in the parser's buffer without a limit (`198`),
  and pongs are written without `drain()` (`server/ws_protocol.py:385`).

Not modelled, and why:

* `websocket.py`: its two flags refuse calls in an illegal order before any
  await. `WebSocketConnection` admits every order of the application's
  messages, so with these checks it would only have fewer behaviours. Two tasks
  of one handler that send at once remain outside, as its handler has one task.
* The bytes of frames (`FrameParser`, `build_frame`), base64, JSON, dates, URL
  decoding and every conversion and rendering of values: no state, no order of
  events, and the tests reach them. HMAC and signatures are assumed to verify
  under their own key only.
* The upgrade as one composition: what is behind the upgrade request in the
  same read stays in the HTTP parser (`server/protocol.py:311`), which
  `WebSocketConnection` excludes by a client that waits for the 101.
* A second `shutdown()` while one runs (`server/runner.py:103`), and platforms
  whose loop has no signal handlers.
* GZip and the headers of CORS: decisions on single headers. The chain itself,
  a layer that answers and one that fails are in `WebApp`.
* Streaming responses, `_handle_websocket()` and the lifespan's hooks inside
  the application: what they do to the connection and the server is within what
  the arbitrary applications of `HttpConnection`, `WebSocketConnection` and
  `ServerLifecycle` may do. Urlencoded forms and cookies of the application's
  own are conversions.
* The plans made from type hints at import time, controllers, the texts of the
  command line, the test client.
