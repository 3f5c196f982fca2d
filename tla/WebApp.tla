------------------------------- MODULE WebApp -------------------------------
(***************************************************************************)
(* An application and one browser (app.py, params.py, middleware.py,       *)
(* staticfiles.py): every request goes through the middlewares, a mount or *)
(* the router, the authentication, the guard, the binder, its handler and  *)
(* the sending of a response, and several are on their way at once.  The   *)
(* browser keeps a session cookie, a token and a copy of one file.         *)
(***************************************************************************)
EXTENDS Routing, Credentials, FileAnswer

CONSTANTS
    Apps,       \* applications, each with what the browser may ask of it and
                \* the sizes that the file served by it may have
    Tasks,      \* requests, in the order in which they are sent
    ChunkSize,  \* FileResponse.chunk_size
    MaxKeys,    \* how many secrets there will ever be
    MaxFiles    \* how many files, and absences of one, the served name will see

VARIABLES
    app,    \* the application
    clock,
    keys,   \* the secrets of the strategy, newest first
    disk,   \* the files that had the name of the one that is served
    jar,    \* the session cookie the browser has, if any
    bearer, \* the token it has, if any
    copy,   \* what it has of the file
    at,     \* how far every request is
    mind    \* for the checks: what the browser was last told it is

\* A Range header has at most one range to follow, and that one at most two
\* offsets.
AtMostOne(S) == \A x, y \in S : x = y
IsRange(range) ==
    /\ AtMostOne(range)
    /\ \A r \in range : \A offsets \in {r.first, r.last} :
           offsets \subseteq Nat /\ AtMostOne(offsets)

ASSUME AppsAssumption ==
    /\ ChunkSize \in Nat \ {0}
    /\ \A a \in Apps :
           /\ a.horizon \in Nat
           /\ a.auth \in {"none", "session", "jwt"}
           /\ a.sizes \subseteq Nat
           /\ \A t \in Tasks : \A r \in a.offers[t] :
                  /\ {"kind", "method", "path", "conditions"} \subseteq DOMAIN r
                  /\ r.kind \in {"plain", "fetch", "resume", "revalidate"}
                  /\ r.path \in Seq(ToSet(r.path))
                  /\ IsRange(r.conditions.range)

\* The routes of an application are those that add() took.
ASSUME RoutesAssumption ==
    \A a \in Apps :
        /\ a.routes \in Seq(ToSet(a.routes))
        /\ \A i \in DOMAIN a.routes : a.routes[i].path \in Seq(ToSet(a.routes[i].path))
        /\ Registers(a.routes)

vars == <<app, clock, keys, disk, jar, bearer, copy, at, mind>>

\* A file that is not there.
Missing == [mtime |-> 0, size |-> -1]
File == Last(disk)

NoCopy == [etag |-> {}, bytes |-> <<>>, total |-> 0, raced |-> FALSE]

NoResponse ==
    [status |-> 0, cookie |-> {}, token |-> {}, allow |-> {}, fields |-> {},
     start |-> 0, length |-> 0, etag |-> {}]
Plain(status) == [NoResponse EXCEPT !.status = status]

Idle ==
    [stage |-> "idle", request |-> {}, route |-> 0, identity |-> Absent,
     session |-> {}, todo |-> <<>>, response |-> NoResponse, stat |-> 0,
     inode |-> 0, left |-> 0, cause |-> {}, held |-> {}, owed |-> {}, ran |-> FALSE,
     issued |-> {}, returned |-> {}]
Done == [Idle EXCEPT !.stage = "done"]

Init ==
    /\ app \in Apps
    /\ clock = 1
    /\ keys = <<1>>
    /\ \E size \in app.sizes : disk = <<[mtime |-> 1, size |-> size]>>
    /\ jar = Absent
    /\ bearer = Absent
    /\ copy = NoCopy
    /\ at = [t \in Tasks |-> Idle]
    /\ mind = {}

RequestOf(t) == Only(at[t].request)
RouteOf(t) == app.routes[at[t].route]
Go(t, task) == at' = [at EXCEPT ![t] = task]
-----------------------------------------------------------------------------
\* The exceptions, their classes from the closest on, and the status of those
\* meant for the client.
Mro(type) ==
    CASE type = "HTTPError" -> <<"HTTPError", "Exception">>
      [] type \in {"Unauthenticated", "Forbidden", "ValidationError"} ->
             <<type, "HTTPError", "Exception">>
      [] type = "KeyError" -> <<"KeyError", "LookupError", "Exception">>
      [] OTHER -> <<type, "Exception">>

Error(type, status) ==
    [type |-> type, status |-> status, allow |-> {}, fields |-> {}]
HTTPError(status) == Error("HTTPError", status)
MeantForClient(exc) == Contains(Mro(exc.type), "HTTPError")

\* _fallback()
Fallback(exc) ==
    CASE MeantForClient(exc) ->
             [Plain(exc.status) EXCEPT !.allow = exc.allow, !.fields = exc.fields]
      [] exc.type = "ClientDisconnected" -> Plain(400)
      [] OTHER -> Plain(500)

\* _find_handler(): local before global, the closest class in each.
FindHandler(exc, local) ==
    LET handlers(mapping) ==
            SelectSeq(Mro(exc.type), LAMBDA class : class \in DOMAIN mapping)
    IN  IF handlers(local) # <<>> THEN <<local[handlers(local)[1]]>>
        ELSE IF handlers(app.errors) # <<>>
             THEN <<app.errors[handlers(app.errors)[1]]>> ELSE <<>>

\* _error_response(): a handler that fails leaves it to the fallback, and a
\* value takes the status of the exception.
ErrorResponse(exc, local) ==
    LET found == FindHandler(exc, local)
    IN  CASE found = <<>> \/ found = <<"fails">> -> Fallback(exc)
          [] found = <<"value">> ->
                 Plain(IF MeantForClient(exc) THEN exc.status ELSE 500)
          [] OTHER -> Plain(409)    \* a Response of its own

NoHandlers == [class \in {} |-> "fails"]
-----------------------------------------------------------------------------
\* build_chain(): the lowest order outermost, and of equal ones the last.
Chain ==
    LET position(i) ==
            1 + Cardinality({j \in DOMAIN app.middlewares :
                \/ app.middlewares[j].order < app.middlewares[i].order
                \/ app.middlewares[j].order = app.middlewares[i].order /\ j > i})
    IN  [p \in DOMAIN app.middlewares |->
            app.middlewares[CHOOSE i \in DOMAIN app.middlewares : position(i) = p]]

\* The first layer that does not call the next one: CORS with a preflight,
\* or one of the application's that refuses the request.
Stops(r) ==
    {p \in DOMAIN Chain : \/ Chain[p].kind = "cors" /\ r.preflight
                          \/ Chain[p].kind = "before" /\ r.trips}

\* A response passes the layers around the one it comes from, and one of them
\* may fail with it; what failed is rendered without the handler's controller.
Passes(response, r, depth) ==
    IF \E p \in 1..(depth - 1) : Chain[p].kind = "after" /\ r.trips
    THEN ErrorResponse(Error("RuntimeError", 500), NoHandlers)
    ELSE response

\* What a request leaves the application with.
Answer(task, response) ==
    LET r == Only(task.request)
        out == Passes(response, r, Len(Chain) + 1)
    IN  [task EXCEPT !.stage = "answering", !.response = out, !.todo = <<>>, !.session = {},
                     !.returned = IF out = response THEN @ ELSE {}]

\* The except of _dispatch(), with the controller's own handlers if known.
Fails(task, exc) ==
    Answer([task EXCEPT !.cause = {exc}, !.returned = {}],
           ErrorResponse(exc, IF task.route = 0 THEN NoHandlers
                              ELSE app.routes[task.route].errors))
-----------------------------------------------------------------------------
\* _mounted(): the longest prefix that ends at a slash.
MountOf(path) ==
    LET fitting == {m \in app.mounts : IsPrefix(m.prefix, path)}
    IN  {m \in fitting : \A n \in fitting : Len(n.prefix) <= Len(m.prefix)}

\* StaticFiles.__call__() and _locate(): there is one file, and what is
\* forbidden in a path, a directory and a link that leads out are not found.
ServeFile(task, relative) ==
    LET r == Only(task.request)
    IN  CASE r.method \notin {"GET", "HEAD"} ->
                 Fails(task, [HTTPError(405) EXCEPT !.allow = {"GET", "HEAD"}])
          [] r.method \in {"GET", "HEAD"}
                 /\ (Split(relative) # <<"file">> \/ File = Missing) ->
                 Fails(task, HTTPError(404))
          [] OTHER ->
                 LET answer == FileResponse(File, r.conditions)
                 IN  Answer([task EXCEPT !.stat = Len(disk)],
                            [Plain(answer.status) EXCEPT !.start = answer.start,
                                 !.length = answer.length, !.etag = answer.etag])

Mounted(task, mount) ==
    LET path == Only(task.request).path
        relative == SubSeq(path, Len(mount.prefix) + 1, Len(path))
    IN  IF mount.files THEN ServeFile(task, relative) ELSE Answer(task, Plain(200))

\* _resolve(): the routes at the path, and the one for the method among them.
\* The handlers of a path include that of a WebSocket, under its own name.
ForMethod(found, method) == {i \in found : app.routes[i].method = method}
EndpointFor(found, method) ==
    IF ForMethod(found, method) = {} /\ method = "HEAD"
    THEN ForMethod(found, "GET") ELSE ForMethod(found, method)
AllowedBy(found) ==
    LET methods == {app.routes[i].method : i \in found}
    IN  IF "GET" \in methods THEN methods \union {"HEAD"} ELSE methods

\* _authenticate() and the authenticate() of the strategy, with its time.
Authenticates(route) ==
    \/ route.guard.needed
    \/ \E i \in DOMAIN route.binder : route.binder[i].kind \in {"identity", "session"}

Session(task) == IF app.auth = "session" THEN {Load(keys, jar, clock)} ELSE {}
Identity(task) ==
    IF app.auth = "session" THEN SessionIdentity(Load(keys, jar, clock))
    ELSE TokenIdentity(bearer)

Unauthenticated == Error("Unauthenticated", 401)
Forbidden == Error("Forbidden", 403)

Authenticate(task, route) ==
    LET known == [task EXCEPT !.identity = Identity(task), !.session = Session(task)]
        refused == app.auth = "jwt" /\ TokenRefused(bearer, clock)
        check == IF route.guard.needed THEN Check(route.guard, known.identity) ELSE ""
        refusal == IF app.auth = "none" \/ refused THEN "" ELSE check
    IN  CASE app.auth = "none" -> Fails(task, Error("RuntimeError", 500))
          [] refused -> Fails(task, Unauthenticated)
          [] refusal = "unauthenticated" -> Fails(known, Unauthenticated)
          [] refusal = "forbidden" -> Fails(known, Forbidden)
          [] OTHER -> [known EXCEPT !.stage = "binding"]

\* _dispatch() up to the binder, which waits for the body.
Dispatch(task) ==
    LET r == Only(task.request)
        found == Resolve(app.routes, r.path)
        endpoint == EndpointFor(found, r.method)
        chosen == [task EXCEPT !.route = Only(endpoint)]
    IN  CASE MountOf(r.path) # {} -> Mounted(task, Only(MountOf(r.path)))
          [] MountOf(r.path) = {} /\ found = {} -> Fails(task, HTTPError(404))
          [] MountOf(r.path) = {} /\ found # {} /\ endpoint = {} ->
                 Fails(task, [HTTPError(405) EXCEPT !.allow = AllowedBy(found)])
          [] OTHER ->
                 IF Authenticates(app.routes[chosen.route])
                 THEN Authenticate(chosen, app.routes[chosen.route])
                 ELSE [chosen EXCEPT !.stage = "binding"]
-----------------------------------------------------------------------------
\* Binder.build(): what is invalid is collected, anything else that is wrong
\* is raised at once.
Raises(instruction, task) ==
    LET r == Only(task.request)
        kind == instruction.kind
    IN  CASE kind = "identity" /\ task.identity = Absent /\ ~instruction.optional ->
                 {Unauthenticated}
          [] kind = "session" /\ task.session = {} -> {Error("RuntimeError", 500)}
          [] kind \in {"body", "form"} /\ r.body = "large" -> {HTTPError(413)}
          [] kind = "body" /\ r.body = "malformed" -> {HTTPError(400)}
          [] kind = "form" /\ r.body = "foreign" -> {HTTPError(415)}
          [] kind = "websocket" -> {Error("RouteConfigurationError", 500)}
          [] OTHER -> {}

Invalid(instruction, r) ==
    CASE instruction.kind \in {"body", "form"} ->
             r.body \in {"bad"} \union IF instruction.optional THEN {} ELSE {"missing"}
      [] instruction.kind = "field" ->
             r.fields[instruction.name]
                 \in {"bad"} \union IF instruction.optional THEN {} ELSE {"missing"}
      [] OTHER -> FALSE

Build(task) ==
    LET binder == app.routes[task.route].binder
        raising == {i \in DOMAIN binder : Raises(binder[i], task) # {}}
        invalid == {binder[i].name : i \in {j \in DOMAIN binder :
                        Invalid(binder[j], Only(task.request))}}
    IN  CASE raising # {} -> Raises(binder[Min(raising)], task)
          [] raising = {} /\ invalid # {} ->
                 {[Error("ValidationError", 422) EXCEPT !.fields = invalid]}
          [] OTHER -> {}
-----------------------------------------------------------------------------
\* A handler is a sequence of deeds with a wait between any two of them; they
\* touch the session of their own request, and the last one returns or raises.
Touch(session, deed) ==
    CASE deed.do = "put"    -> SetItem(session, deed.key, deed.value)
      [] deed.do = "drop"   -> DelItem(session, deed.key)
      [] deed.do = "login"  -> Login(session, deed.user, deed.roles)
      [] deed.do = "logout" -> Logout(session)
Touches == {"put", "drop", "login", "logout"}

\* Only a handler that asks for the session has it.
ASSUME HandlersAssumption ==
    \A a \in Apps : \A i \in DOMAIN a.routes :
        LET program == a.routes[i].program
            binder == a.routes[i].binder
        IN  /\ program \in Seq(ToSet(program)) /\ program # <<>>
            /\ Last(program).do \in {"return", "raise"}
            /\ binder \in Seq(ToSet(binder))
            /\ (\E deed \in ToSet(program) : deed.do \in Touches) =>
                   \E j \in DOMAIN binder : binder[j].kind = "session"

\* _make_response(): a value takes the status of the verb, None is 204 unless
\* another was declared, and a Response may bring its own.
MakeResponse(result, status) ==
    CASE result = "none"  -> Plain(IF status = 200 THEN 204 ELSE status)
      [] result = "value" -> Plain(status)
      [] OTHER            -> Plain(202)

\* _finish_auth() and finish(): the session, if there is one, is written back.
FinishAuth(task, response) ==
    [response EXCEPT !.cookie = IF task.session = {} THEN {}
                                ELSE Save(keys, Only(task.session), clock)]

\* For the checks, with sets of its own: what a deed makes of what the browser
\* was told when it asked, and what a handler that returned tells it, for how
\* long.
Retold(task, deed) ==
    LET d == IF task.owed = {} THEN task.held ELSE Only(task.owed)
        login == {<<"user", deed.user>>, <<"roles", deed.roles>>}
    IN  CASE deed.do = "logout" -> {}
          [] deed.do = "drop"   -> {i \in d : i[1] # deed.key}
          [] deed.do = "put"    -> {i \in d : i[1] # deed.key} \union {<<deed.key, deed.value>>}
          [] deed.do = "login"  -> {i \in d : i[1] \notin {"user", "roles"}} \union login

Told(task) ==
    CASE app.auth = "session" /\ task.owed # {} ->
             {IF Only(task.owed) = {} THEN {}
              ELSE {[data |-> Only(task.owed), from |-> clock,
                     until |-> {clock + Min({MaxAge, MaxReasonable})}, key |-> keys[1]]}}
      [] app.auth = "jwt" /\ task.issued # {} -> {task.issued}
      [] OTHER -> {}

Memory(deed) ==
    [data |-> {<<"user", deed.user>>, <<"roles", deed.roles>>}, from |-> clock - Jwt.leeway,
     until |-> {clock + e + Jwt.leeway : e \in deed.expires}, key |-> 0]

Genuine ==
    {m \in mind : /\ m.key = 0 \/ Contains(keys, m.key)
                  /\ m.from <= clock /\ \A end \in m.until : clock <= end}
-----------------------------------------------------------------------------
\* The browser asks; a download that was cut is taken up where it was, and a
\* copy that is whole is checked.
Conditions(r) ==
    CASE r.kind = "resume" ->
             [Unconditional EXCEPT !.ifRange = copy.etag,
                 !.range = {[first |-> {Len(copy.bytes)}, last |-> {}, single |-> TRUE]}]
      [] r.kind = "revalidate" -> [Unconditional EXCEPT !.match = copy.etag]
      [] r.kind = "fetch" -> Unconditional
      [] OTHER -> r.conditions

Partial == copy.etag # {} /\ Len(copy.bytes) < copy.total
Sensible(r) ==
    CASE r.kind = "resume"     -> Partial
      [] r.kind = "revalidate" -> copy.etag # {} /\ ~Partial
      [] OTHER                 -> TRUE

\* One of the browser's downloads at a time.
Download(t) == at[t].request # {} /\ RequestOf(t).kind # "plain"
                   /\ at[t].stage \notin {"idle", "done"}

\* _handle_http() up to the first wait: the request as it comes, and how far
\* the middlewares and _dispatch() let it.
Ask(t) ==
    \E r \in app.offers[t] :
        LET asked == [at[t] EXCEPT !.request = {[r EXCEPT !.conditions = Conditions(r)]},
                                   !.held = UNION {m.data : m \in Genuine}]
            stop == Min(Stops(r))
        IN  /\ at[t].stage = "idle"
            /\ \A u \in Tasks : u < t => at[u].stage # "idle"
            /\ Sensible(r)
            /\ r.kind # "plain" => \A u \in Tasks : ~Download(u)
            /\ Go(t, CASE Stops(r) = {} -> Dispatch(asked)
                       [] Stops(r) # {} /\ Chain[stop].kind = "cors" ->
                              [asked EXCEPT !.stage = "answering",
                                            !.response = Passes(Plain(204), r, stop)]
                       [] OTHER ->
                              [asked EXCEPT !.stage = "answering", !.response =
                                   ErrorResponse(HTTPError(403), NoHandlers)])
            /\ UNCHANGED <<app, clock, keys, disk, jar, bearer, copy, mind>>

\* The binder has what it waited for, or the client went away before the body
\* had come.
ReadsBody(t) ==
    \E i \in DOMAIN RouteOf(t).binder : RouteOf(t).binder[i].kind \in {"body", "form"}

Bind(t) ==
    /\ at[t].stage = "binding"
    /\ LET wrong == Build(at[t])
       IN  \/ /\ wrong # {}
              /\ Go(t, Fails(at[t], Only(wrong)))
           \/ /\ wrong = {}
              /\ Go(t, [at[t] EXCEPT !.stage = "handling", !.ran = TRUE,
                                     !.todo = RouteOf(t).program])
           \/ /\ ReadsBody(t)
              /\ Go(t, Fails(at[t], Error("ClientDisconnected", 400)))
    /\ UNCHANGED <<app, clock, keys, disk, jar, bearer, copy, mind>>

\* One deed of a handler.
Handle(t) ==
    LET task == at[t]
        deed == Head(task.todo)
        goesOn == [task EXCEPT !.todo = Tail(@)]
        session == Only(task.session)
    IN  /\ task.stage = "handling"
        /\ \/ /\ deed.do \in Touches
              /\ Go(t, IF deed.do = "drop" /\ Lookup(session.data, deed.key) = {}
                       THEN Fails(task, Error("KeyError", 500))
                       ELSE [goesOn EXCEPT !.session = {Touch(session, deed)},
                                           !.owed = {Retold(task, deed)}])
           \/ /\ deed.do = "issue"
              /\ \E algorithm \in Jwt.algorithms :
                     Go(t, [goesOn EXCEPT !.issued = {Memory(deed)}, !.response.token =
                               {Issue(deed.user, deed.roles, deed.expires, clock, algorithm)}])
           \/ /\ deed.do = "raise"
              /\ Go(t, Fails(task, deed.error))
           \/ /\ deed.do = "return"
              /\ LET made == [MakeResponse(deed.result, RouteOf(t).status)
                                  EXCEPT !.token = task.response.token]
                 IN  Go(t, Answer([task EXCEPT !.returned = Told(task)],
                                  FinishAuth(task, made)))
        /\ UNCHANGED <<app, clock, keys, disk, jar, bearer, copy, mind>>

\* The head of the response reaches the browser, which takes the cookie and
\* the token, and makes room for a file or goes on with the one it has.
HasFile(response) == response.etag # {} /\ response.length > 0
Deliver(t) ==
    LET response == at[t].response
        download == Download(t) /\ RequestOf(t).method = "GET"
    IN  /\ at[t].stage = "answering"
        /\ Go(t, IF HasFile(response) THEN [at[t] EXCEPT !.stage = "opening"] ELSE Done)
        /\ jar' = IF response.cookie = {} THEN jar ELSE Only(response.cookie)
        /\ bearer' = IF response.token = {} THEN bearer ELSE response.token
        /\ mind' = IF at[t].returned = {} THEN mind ELSE Only(at[t].returned)
        /\ copy' = CASE download /\ response.status = 200 ->
                            [NoCopy EXCEPT !.etag = response.etag, !.total = response.length]
                     [] download /\ response.status \in {404, 416} -> NoCopy
                     [] OTHER -> copy
        /\ UNCHANGED <<app, clock, keys, disk>>

\* FileResponse.send(): the file is opened by its name, and read a block at a
\* time until the length is there or the file is at its end.
Open(t) ==
    /\ at[t].stage = "opening"
    /\ Go(t, IF File = Missing THEN Done
             ELSE [at[t] EXCEPT !.stage = "reading", !.inode = Len(disk),
                                !.left = at[t].response.length])
    /\ copy' = IF Download(t) THEN [copy EXCEPT !.raced = @ \/ at[t].stat # Len(disk)]
               ELSE copy
    /\ UNCHANGED <<app, clock, keys, disk, jar, bearer, mind>>

Read(t) ==
    LET task == at[t]
        from == task.response.start + task.response.length - task.left
        n == Max({0, Min({ChunkSize, task.left, disk[task.inode].size - from})})
    IN  /\ task.stage = "reading"
        /\ Go(t, IF n = 0 \/ n = task.left THEN Done ELSE [task EXCEPT !.left = @ - n])
        /\ copy' = IF Download(t) /\ RequestOf(t).method = "GET"
                   THEN [copy EXCEPT !.bytes = @ \o [i \in 1..n |-> <<task.inode, from + i>>]]
                   ELSE copy
        /\ UNCHANGED <<app, clock, keys, disk, jar, bearer, mind>>

\* The connection is lost under a response.
Cut(t) ==
    /\ at[t].stage \in {"answering", "opening", "reading"}
    /\ Go(t, Done)
    /\ UNCHANGED <<app, clock, keys, disk, jar, bearer, copy, mind>>

\* Time passes; a clock may also be set back, though not below files.
Tick ==
    /\ \E now \in {clock - 1, clock + 1} :
           /\ now \in 1..app.horizon
           /\ now < clock => app.mounts = {}
           /\ clock' = now
    /\ UNCHANGED <<app, keys, disk, jar, bearer, copy, at, mind>>

\* The application starts again with a new secret before the one it had.
InFlight(t) == at[t].stage \notin {"idle", "done"}
Rotate ==
    /\ app.auth = "session"
    /\ \A t \in Tasks : ~InFlight(t)
    /\ keys[1] < MaxKeys
    /\ keys' = <<keys[1] + 1, keys[1]>>
    /\ UNCHANGED <<app, clock, disk, jar, bearer, copy, at, mind>>

\* Another file takes the name, the file is cut off where it is, or there is
\* none any more.  A file of another second or another size: of the same two
\* the validators would not tell it from the old one.
Rewrite ==
    /\ app.mounts # {}
    /\ Len(disk) < MaxFiles
    /\ \E size \in app.sizes :
           LET file == [mtime |-> clock, size |-> size]
           IN  /\ \A i \in DOMAIN disk : Etag(disk[i]) # Etag(file)
               /\ \/ disk' = Append(disk, file)
                  \/ /\ size < File.size /\ clock > File.mtime
                     /\ disk' = [disk EXCEPT ![Len(disk)] = file]
    /\ UNCHANGED <<app, clock, keys, jar, bearer, copy, at, mind>>

Unlink ==
    /\ app.mounts # {}
    /\ Len(disk) < MaxFiles /\ File # Missing
    /\ disk' = Append(disk, Missing)
    /\ UNCHANGED <<app, clock, keys, jar, bearer, copy, at, mind>>

Next ==
    \/ \E t \in Tasks : Ask(t) \/ Bind(t) \/ Handle(t) \/ Deliver(t)
                            \/ Open(t) \/ Read(t) \/ Cut(t)
    \/ Tick
    \/ Rotate
    \/ Rewrite
    \/ Unlink

Spec == Init /\ [][Next]_vars
-----------------------------------------------------------------------------
\* What the browser presents is what it was last told: what the last response
\* it got from a handler that returned had made of the session its request
\* came with.  It holds whatever requests overlap, however the secrets are
\* rotated and the responses lost, and ends with the cookie's age or secret
\* ("to rotate the key without logging everyone out", session.py:71; "an
\* untouched session does not cost a Set-Cookie", session.py:29).
SessionRemembers ==
    app.auth = "session" =>
        Load(keys, jar, clock).data = UNION {m.data : m \in Genuine}

\* A handler runs only for a path that fits its pattern and a method it
\* declared; and a request that is refused as not found is one that no pattern
\* fits, as not allowed one that others fit, with other methods, of which only
\* such are named.  The search of the tree, which goes back from a branch that
\* leads nowhere, misses nothing ("this converter says no; another branch may
\* still match", routing.py:158).
RoutedAsDeclared ==
    Agree(app.routes) => \A t \in Tasks : at[t].request # {} =>
        LET task == at[t]
            r == RequestOf(t)
            fitting == {i \in DOMAIN app.routes : Fits(app.routes[i].path, r.path)}
            serves(i, m) == app.routes[i].method = m
                                \/ (m = "HEAD" /\ app.routes[i].method = "GET")
        IN  /\ task.ran => task.route \in fitting /\ serves(task.route, r.method)
            /\ \A e \in task.cause : ~task.ran /\ MountOf(r.path) = {} =>
                   /\ e.status = 404 => fitting = {}
                   /\ e.status = 405 =>
                          /\ fitting # {} /\ r.method \notin e.allow
                          /\ \A m \in e.allow : \E i \in fitting : serves(i, m)

\* A handler runs only with valid arguments and for a caller that holds, by
\* what the browser was told, a role of every requirement, of the class and of
\* the method; and a request that is refused is refused for the reason its
\* status gives: no login (401), a role missing (403), all that is invalid and
\* nothing else (422).  Cookies, tokens, clock and secrets are the ones at the
\* time of the request, whatever becomes of them until the handler runs.
AdmittedAsDeclared ==
    \A t \in Tasks : at[t].request # {} =>
        LET task == at[t]
            user == Lookup(task.held, "user")
            roles == UNION Lookup(task.held, "roles")
            mayPass(guard) ==
                guard.needed =>
                    /\ user # {}
                    /\ \A i \in DOMAIN guard.requirements :
                           guard.requirements[i] = {}
                               \/ guard.requirements[i] \intersect roles # {}
            binder == RouteOf(t).binder
            bad == {binder[i].name : i \in {j \in DOMAIN binder :
                                               Invalid(binder[j], RequestOf(t))}}
        IN  /\ task.ran => mayPass(RouteOf(t).guard) /\ bad = {}
            /\ \A e \in task.cause : ~task.ran =>
                   /\ e.status = 401 => user = {}
                   /\ e.status = 403 => user # {} /\ ~mayPass(RouteOf(t).guard)
                   /\ e.status = 422 => bad # {} /\ e.fields = bad

\* The offsets a range names in a file of a size.
NamedBy(range, size) ==
    {o \in 0..(size - 1) :
        IF range.first = {} THEN \E n \in range.last : o >= size - n
        ELSE Max(range.first) <= o /\ \A n \in range.last : o <= n}

AsNamed(response, range, size) ==
    LET announced == response.start..(response.start + response.length - 1)
    IN  /\ response.status = 206 => announced = NamedBy(range, size)
        /\ response.status = 416 => NamedBy(range, size) = {}

\* Of a file, the offsets the range of the request names and no others are
\* announced, and 416 means that there are none ("first and last byte,
\* inclusive", response.py:510).
RangesAsNamed ==
    \A t \in Tasks : at[t].request # {} =>
        \A etag \in at[t].response.etag, range \in RequestOf(t).conditions.range :
            AsNamed(at[t].response, range, etag[2])

\* However often a download is cut and taken up again while other files take
\* the name, the copy is one file without a gap and no longer than announced -
\* unless one of them took it between the stat() that made the head and the
\* open() that made the body ("answer part of the file only if the copy has
\* not moved on", response.py:488).
OneFileIn(c) ==
    /\ Len(c.bytes) <= c.total
    /\ \E n \in DOMAIN disk : \A i \in DOMAIN c.bytes : c.bytes[i] = <<n, i>>
CopyIsOneFile == ~copy.raced => OneFileIn(copy)

\* A path that no pattern fits is answered 404 and reaches no handler ("A value
\* that does not match the converter means the route does not match, so the
\* answer is a 404, not a 422", README.md:209).
NoFitIsNotFound ==
    \A t \in Tasks : at[t].request # {} =>
        LET path == RequestOf(t).path
        IN  MountOf(path) = {} /\ (\A i \in DOMAIN app.routes : ~Fits(app.routes[i].path, path))
                => ~at[t].ran /\ \A e \in at[t].cause : e.status = 404
=============================================================================
