---------------------------- MODULE WebAppProofs ----------------------------
(***************************************************************************)
(* What an application promises a browser, for all applications and any    *)
(* number of requests on their way.                                        *)
(*                                                                         *)
(* CopyIsOneFile: an ETag, once it was sent, is one file's for good: no    *)
(* other of the same second and size takes the name, and the clock is not  *)
(* set back below files (Belongs).  A part is sent only to who has the     *)
(* ETag, and begins where the copy ends; there is one download at a time,  *)
(* so the copy does not change under it (GoesOn).                          *)
(*                                                                         *)
(* SessionRemembers: the cookie and what the browser was told are made in  *)
(* the same steps and replaced in the same steps, whichever responses get  *)
(* lost (SessionInv).                                                      *)
(*                                                                         *)
(* RangesAsNamed: what the answer to a range announces, as arithmetic, and *)
(* that no later step touches it.                                          *)
(*                                                                         *)
(* RoutedAsDeclared: what RoutingProofs says of the search, and that what  *)
(* comes behind it refuses nothing with its statuses (RouteInv).           *)
(*                                                                         *)
(* AdmittedAsDeclared: whom the strategy takes the browser for is whom it  *)
(* was told it is, by SessionRemembers or, with tokens, since the token it *)
(* has says what it was told (TokenInv); and what guard and binder make of *)
(* that stays true while the body is waited for (AdmitInv).                *)
(***************************************************************************)
EXTENDS WebApp, RoutingProofs

HasFields(task) ==
    DOMAIN task = DOMAIN Idle /\ DOMAIN task.response = DOMAIN NoResponse

\* A response that comes from no file, or without any of it.
Fileless(response) == response.etag = {} /\ response.length = 0

\* What a task is after its answer is known, or before its body has come: the
\* request is the one it was.
Answered(after, task) ==
    /\ HasFields(after)
    /\ after.stage = "answering"
    /\ after.request = task.request
    /\ Fileless(after.response)

Waits(after, task) ==
    /\ HasFields(after)
    /\ after.stage = "binding"
    /\ after.request = task.request
    /\ after.response = task.response

Served(after, task) ==
    LET answer == FileResponse(File, Only(task.request).conditions)
    IN  /\ HasFields(after)
        /\ after.stage = "answering"
        /\ after.request = task.request
        /\ after.stat = Len(disk)
        /\ after.response.status = answer.status
        /\ after.response.start = answer.start
        /\ after.response.length = answer.length
        /\ after.response.etag = answer.etag
        /\ File # Missing
        /\ app.mounts # {}
-----------------------------------------------------------------------------
LEMMA OnlyOne == ASSUME NEW x PROVE Only({x}) = x
    BY DEF Only

\* Nothing that is made of an exception, a value or a status comes from a file.
LEMMA PlainHasNoFile ==
    ASSUME NEW status
    PROVE  DOMAIN Plain(status) = DOMAIN NoResponse /\ Fileless(Plain(status))
    BY DEF Plain, NoResponse, Fileless

LEMMA FallbackHasNoFile ==
    ASSUME NEW exc
    PROVE  DOMAIN Fallback(exc) = DOMAIN NoResponse /\ Fileless(Fallback(exc))
    BY DEF Fallback, Plain, NoResponse, Fileless

LEMMA ErrorHasNoFile ==
    ASSUME NEW exc, NEW local
    PROVE  /\ DOMAIN ErrorResponse(exc, local) = DOMAIN NoResponse
           /\ Fileless(ErrorResponse(exc, local))
<1>1. \/ ErrorResponse(exc, local) = Fallback(exc)
      \/ \E status : ErrorResponse(exc, local) = Plain(status)
    BY DEF ErrorResponse
<1> QED
    BY <1>1, PlainHasNoFile, FallbackHasNoFile

LEMMA MadeHasNoFile ==
    ASSUME NEW result, NEW status
    PROVE  /\ DOMAIN MakeResponse(result, status) = DOMAIN NoResponse
           /\ Fileless(MakeResponse(result, status))
<1>1. \E s : MakeResponse(result, status) = Plain(s)
    BY DEF MakeResponse
<1> QED
    BY <1>1, PlainHasNoFile

\* A response passes the layers or becomes an error.
LEMMA PassesOrError ==
    ASSUME NEW response, NEW r, NEW depth
    PROVE  \/ Passes(response, r, depth) = response
           \/ /\ DOMAIN Passes(response, r, depth) = DOMAIN NoResponse
              /\ Fileless(Passes(response, r, depth))
<1>1. \/ Passes(response, r, depth) = response
      \/ Passes(response, r, depth) = ErrorResponse(Error("RuntimeError", 500), NoHandlers)
    BY DEF Passes
<1> QED
    BY <1>1, ErrorHasNoFile

LEMMA Answering ==
    ASSUME NEW task, NEW response, HasFields(task),
           DOMAIN response = DOMAIN NoResponse
    PROVE  LET after == Answer(task, response)
           IN  /\ HasFields(after)
               /\ after.stage = "answering"
               /\ after.request = task.request
               /\ after.stat = task.stat
               /\ after.response = response \/ Fileless(after.response)
<1> DEFINE r == Only(task.request)
           out == Passes(response, r, Len(Chain) + 1)
<1>1. out = response \/ (DOMAIN out = DOMAIN NoResponse /\ Fileless(out))
    BY PassesOrError
<1>2. Answer(task, response) =
        [task EXCEPT !.stage = "answering", !.response = out, !.todo = <<>>, !.session = {},
                     !.returned = IF out = response THEN @ ELSE {}]
    BY DEF Answer
<1> HIDE DEF out
<1> QED
    BY <1>1, <1>2 DEF HasFields, Idle

LEMMA AnsweringWithout ==
    ASSUME NEW task, NEW response, HasFields(task),
           DOMAIN response = DOMAIN NoResponse, Fileless(response)
    PROVE  Answered(Answer(task, response), task)
    BY Answering DEF Answered

LEMMA Failing ==
    ASSUME NEW task, NEW exc, HasFields(task)
    PROVE  Answered(Fails(task, exc), task)
<1> DEFINE failed == [task EXCEPT !.cause = {exc}, !.returned = {}]
           response == ErrorResponse(exc, IF task.route = 0 THEN NoHandlers
                                          ELSE app.routes[task.route].errors)
<1>1. HasFields(failed) /\ failed.request = task.request
    BY DEF HasFields, Idle
<1>2. DOMAIN response = DOMAIN NoResponse /\ Fileless(response)
    BY ErrorHasNoFile
<1>3. Fails(task, exc) = Answer(failed, response)
    BY DEF Fails
<1> HIDE DEF failed, response
<1>4. Answered(Answer(failed, response), failed)
    BY <1>1, <1>2, AnsweringWithout
<1> QED
    BY <1>1, <1>3, <1>4 DEF Answered
LEMMA Serving ==
    ASSUME NEW task, NEW relative, HasFields(task), app.mounts # {},
           Fileless(task.response)
    PROVE  LET after == ServeFile(task, relative)
           IN  Answered(after, task) \/ Served(after, task)
<1> DEFINE r == Only(task.request)
           answer == FileResponse(File, r.conditions)
           found == [task EXCEPT !.stat = Len(disk)]
           response == [Plain(answer.status) EXCEPT !.start = answer.start,
                            !.length = answer.length, !.etag = answer.etag]
<1>1. \/ \E exc : ServeFile(task, relative) = Fails(task, exc)
      \/ File # Missing /\ ServeFile(task, relative) = Answer(found, response)
    BY DEF ServeFile
<1>2. CASE \E exc : ServeFile(task, relative) = Fails(task, exc)
    BY <1>2, Failing
<1>3. CASE File # Missing /\ ServeFile(task, relative) = Answer(found, response)
  <2>1. HasFields(found) /\ found.request = task.request /\ found.stat = Len(disk)
      BY DEF HasFields, Idle
  <2>2. /\ DOMAIN response = DOMAIN NoResponse
        /\ response.status = answer.status /\ response.start = answer.start
        /\ response.length = answer.length /\ response.etag = answer.etag
      BY DEF Plain, NoResponse
  <2> HIDE DEF found, response
  <2>3. /\ HasFields(Answer(found, response))
        /\ Answer(found, response).stage = "answering"
        /\ Answer(found, response).request = task.request
        /\ Answer(found, response).stat = Len(disk)
        /\ \/ Answer(found, response).response = response
           \/ Fileless(Answer(found, response).response)
      BY <2>1, <2>2, Answering
  <2> QED
      BY <1>3, <2>2, <2>3 DEF Answered, Served
<1> QED
    BY <1>1, <1>2, <1>3

LEMMA Mounting ==
    ASSUME NEW task, NEW mount, HasFields(task), app.mounts # {},
           Fileless(task.response)
    PROVE  LET after == Mounted(task, mount)
           IN  Answered(after, task) \/ Served(after, task)
<1> DEFINE path == Only(task.request).path
           relative == SubSeq(path, Len(mount.prefix) + 1, Len(path))
<1>1. Mounted(task, mount) = IF mount.files THEN ServeFile(task, relative)
                             ELSE Answer(task, Plain(200))
    BY DEF Mounted
<1> HIDE DEF relative
<1> QED
    BY <1>1, Serving, AnsweringWithout, PlainHasNoFile

LEMMA Authenticating ==
    ASSUME NEW task, NEW route, HasFields(task)
    PROVE  LET after == Authenticate(task, route)
           IN  Answered(after, task) \/ Waits(after, task)
<1> DEFINE known == [task EXCEPT !.identity = Identity(task), !.session = Session(task)]
           bound == [known EXCEPT !.stage = "binding"]
<1>1. /\ HasFields(known) /\ known.request = task.request
      /\ Waits(bound, task)
    BY DEF HasFields, Idle, Waits
<1>2. \/ \E exc : Authenticate(task, route) = Fails(task, exc)
      \/ \E exc : Authenticate(task, route) = Fails(known, exc)
      \/ Authenticate(task, route) = bound
    BY DEF Authenticate
<1> HIDE DEF known, bound
<1> QED
    BY <1>1, <1>2, Failing DEF Answered

LEMMA Dispatching ==
    ASSUME NEW task, HasFields(task), Fileless(task.response)
    PROVE  LET after == Dispatch(task)
           IN  Answered(after, task) \/ Waits(after, task) \/ Served(after, task)
<1> DEFINE r == Only(task.request)
           found == Resolve(app.routes, r.path)
           endpoint == EndpointFor(found, r.method)
           chosen == [task EXCEPT !.route = Only(endpoint)]
           bound == [chosen EXCEPT !.stage = "binding"]
<1>1. \/ MountOf(r.path) # {} /\ Dispatch(task) = Mounted(task, Only(MountOf(r.path)))
      \/ \E exc : Dispatch(task) = Fails(task, exc)
      \/ \E route : Dispatch(task) = Authenticate(chosen, route)
      \/ Dispatch(task) = bound
    BY DEF Dispatch
<1>2. HasFields(chosen) /\ chosen.request = task.request /\ chosen.response = task.response
      /\ Waits(bound, task)
    BY DEF HasFields, Idle, Waits
<1>3. MountOf(r.path) # {} => app.mounts # {}
    BY DEF MountOf
<1> HIDE DEF chosen, bound, r
<1>4. CASE MountOf(r.path) # {} /\ Dispatch(task) = Mounted(task, Only(MountOf(r.path)))
    BY <1>3, <1>4, Mounting
<1>5. CASE \E exc : Dispatch(task) = Fails(task, exc)
    BY <1>5, Failing
<1>6. CASE \E route : Dispatch(task) = Authenticate(chosen, route)
    BY <1>2, <1>6, Authenticating DEF Answered, Waits
<1>7. CASE Dispatch(task) = bound
    BY <1>2, <1>7
<1> QED
    BY <1>1, <1>4, <1>5, <1>6, <1>7
-----------------------------------------------------------------------------
\* What a FileResponse answers when no range is asked for, and when the rest
\* of a copy is: the whole, or the rest if the copy's ETag is the file's.
LEMMA WholeAnswer ==
    ASSUME NEW stat, NEW conditions, conditions.range = {}
    PROVE  LET answer == FileResponse(stat, conditions)
           IN  /\ answer.etag = {Etag(stat)}
               /\ \/ answer.status = 200 /\ answer.start = 0 /\ answer.length = stat.size
                  \/ answer.status = 304 /\ answer.length = 0
<1>1. ParseRange(conditions.range, stat.size) = {}
    BY DEF ParseRange
<1> QED
    BY <1>1 DEF FileResponse

LEMMA MaxOfOne == ASSUME NEW k \in Int PROVE Max({k}) = k
    BY DEF Max

LEMMA LeastOfTwo ==
    ASSUME NEW a \in Int, NEW b \in Int
    PROVE  Min({a, b}) = IF a <= b THEN a ELSE b
    BY DEF Min

LEMMA RestOf ==
    ASSUME NEW k \in Nat, NEW size \in Nat
    PROVE  ParseRange({[first |-> {k}, last |-> {}, single |-> TRUE]}, size) =
               {IF k >= size THEN Nothing ELSE [start |-> k, end |-> size - 1]}
<1> DEFINE rest == [first |-> {k}, last |-> {}, single |-> TRUE]
           offsets(r) ==
               LET start == IF r.first = {} THEN Max({size - Max(r.last), 0}) ELSE Max(r.first)
                   end == IF r.first = {} \/ r.last = {} THEN size - 1 ELSE Max(r.last)
               IN  IF \/ r.first = {} /\ (Max(r.last) <= 0 \/ size = 0)
                      \/ start >= size \/ start > end
                   THEN Nothing
                   ELSE [start |-> start, end |-> Min({end, size - 1})]
           part == IF k >= size THEN Nothing ELSE [start |-> k, end |-> size - 1]
<1>1. rest.first = {k} /\ rest.last = {} /\ rest.single = TRUE
    OBVIOUS
<1>2. Max({k}) = k
    BY MaxOfOne
<1>3. Min({size - 1, size - 1}) = size - 1
    BY LeastOfTwo
<1>4. {r \in {rest} : r.single /\ r.first \union r.last # {}} = {rest}
    BY <1>1
<1>5. ParseRange({rest}, size) =
          {offsets(r) : r \in {r \in {rest} : r.single /\ r.first \union r.last # {}}}
    BY DEF ParseRange, Clip
<1>6. offsets(rest) = part
  <2> HIDE DEF rest
  <2>1. k >= size <=> k >= size \/ k > size - 1
      OBVIOUS
  <2> QED
      BY <1>1, <1>2, <1>3, <2>1
<1> HIDE DEF offsets, rest, part
<1>7. ParseRange({rest}, size) = {part}
    BY <1>4, <1>5, <1>6
<1> QED
    BY <1>7 DEF rest, part

\* A range that was understood, of a file that is not fresh.
LEMMA PartAnswer ==
    ASSUME NEW stat, NEW conditions, NEW part, ~IsFresh(conditions, stat),
           ParseRange(conditions.range, stat.size) = {part}
    PROVE  LET answer == FileResponse(stat, conditions)
           IN  /\ answer.etag = {Etag(stat)}
               /\ part = Nothing => answer.status = 416 /\ answer.length = 0
               /\ part # Nothing /\ ~RangeApplies(conditions, stat) =>
                      answer.status = 200 /\ answer.start = 0 /\ answer.length = stat.size
               /\ part # Nothing /\ RangeApplies(conditions, stat) =>
                      /\ answer.status = 206
                      /\ answer.start = part.start
                      /\ answer.length = part.end - part.start + 1
<1> DEFINE requested == ParseRange(conditions.range, stat.size)
           one == CHOOSE r \in requested : TRUE
           whole == [status |-> 200, start |-> 0, length |-> stat.size, etag |-> {Etag(stat)}]
           answers(r) ==
               CASE r = Nothing -> [whole EXCEPT !.status = 416, !.length = 0]
                 [] r # Nothing /\ ~RangeApplies(conditions, stat) -> whole
                 [] OTHER -> [whole EXCEPT !.status = 206, !.start = r.start,
                                           !.length = r.end - r.start + 1]
<1>1. one = part
    OBVIOUS
<1>2. requested # {}
    OBVIOUS
<1>3. FileResponse(stat, conditions) =
          IF requested = {} THEN whole ELSE answers(one)
    BY DEF FileResponse
<1> HIDE DEF requested, one
<1>4. FileResponse(stat, conditions) = answers(part)
  <2> HIDE DEF whole, answers
  <2> QED
      BY <1>1, <1>2, <1>3
<1> QED
    BY <1>4

AsksForRest(conditions, k, etag) ==
    conditions = [Unconditional EXCEPT !.ifRange = {etag},
                     !.range = {[first |-> {k}, last |-> {}, single |-> TRUE]}]

LEMMA RestAnswer ==
    ASSUME NEW stat, stat.size \in Nat, NEW k \in Nat, NEW etag, NEW conditions,
           AsksForRest(conditions, k, etag)
    PROVE  LET answer == FileResponse(stat, conditions)
           IN  /\ answer.etag = {Etag(stat)}
               /\ \/ answer.status = 200 /\ answer.start = 0 /\ answer.length = stat.size
                  \/ answer.status = 416 /\ answer.length = 0
                  \/ /\ answer.status = 206
                     /\ etag = Etag(stat)
                     /\ answer.start = k
                     /\ answer.length \in Nat \ {0}
                     /\ k + answer.length = stat.size
<1> DEFINE part == IF k >= stat.size THEN Nothing ELSE [start |-> k, end |-> stat.size - 1]
<1>1. /\ conditions.match = {} /\ conditions.any = FALSE /\ conditions.since = {}
      /\ conditions.ifRange = {etag} /\ conditions.ifRangeDate = {}
      /\ ParseRange(conditions.range, stat.size) = {part}
    BY RestOf DEF AsksForRest, Unconditional
<1>2. ~IsFresh(conditions, stat)
    BY <1>1 DEF IsFresh
<1>3. RangeApplies(conditions, stat) => etag = Etag(stat)
    BY <1>1 DEF RangeApplies
<1>4. part # Nothing => /\ k < stat.size
                        /\ part.start = k
                        /\ part.end = stat.size - 1
    OBVIOUS
<1> HIDE DEF part
<1>5. part # Nothing => part.end - part.start + 1 = stat.size - k
    BY <1>4
<1> DEFINE answer == FileResponse(stat, conditions)
<1>6. /\ answer.etag = {Etag(stat)}
      /\ part = Nothing => answer.status = 416 /\ answer.length = 0
      /\ part # Nothing /\ ~RangeApplies(conditions, stat) =>
             answer.status = 200 /\ answer.start = 0 /\ answer.length = stat.size
      /\ part # Nothing /\ RangeApplies(conditions, stat) =>
             /\ answer.status = 206
             /\ answer.start = part.start
             /\ answer.length = part.end - part.start + 1
    BY <1>1, <1>2, PartAnswer
<1> HIDE DEF answer
<1>7. part # Nothing /\ RangeApplies(conditions, stat) =>
          /\ etag = Etag(stat)
          /\ answer.start = k
          /\ answer.length \in Nat \ {0}
          /\ k + answer.length = stat.size
  <2> SUFFICES ASSUME part # Nothing, RangeApplies(conditions, stat)
               PROVE  /\ etag = Etag(stat)
                      /\ answer.start = k
                      /\ answer.length \in Nat \ {0}
                      /\ k + answer.length = stat.size
      OBVIOUS
  <2>1. k < stat.size /\ answer.length = stat.size - k
      BY <1>4, <1>5, <1>6
  <2> QED
      BY <1>3, <1>4, <1>6, <2>1
<1> QED
    BY <1>6, <1>7 DEF answer
-----------------------------------------------------------------------------
\* An ETag that was sent is file n's for good: no other file has it or will,
\* for the next one is of this second or a later one, and of the files of
\* this second it is the one that is there.
Belongs(etag, n) ==
    /\ etag[1] <= clock
    /\ \A i \in DOMAIN disk : Etag(disk[i]) = etag => i = n
    /\ etag[1] = clock => Etag(disk[n]) = etag

DiskInv ==
    /\ clock \in Nat \ {0}
    /\ app \in Apps
    /\ disk \in Seq([mtime : Nat, size : Int]) /\ disk # <<>>
    /\ app.mounts # {} => \A i \in DOMAIN disk : disk[i].mtime <= clock
    /\ \A i \in DOMAIN disk : disk[i] = Missing \/ disk[i].size \in Nat
    /\ \A i, j \in DOMAIN disk :
           disk[i] # Missing /\ Etag(disk[i]) = Etag(disk[j]) => i = j

\* The head of a file that was the n-th when it was stat()ed.
HeadOf(response, n) ==
    \E m \in Nat, s \in Nat :
        /\ response.etag = {<<m, s>>}
        /\ n \in DOMAIN disk
        /\ Belongs(<<m, s>>, n)
        /\ \/ response.status = 200 /\ response.start = 0 /\ response.length = s
           \/ /\ response.status = 206
              /\ response.start \in Nat /\ response.length \in Nat
              /\ response.start + response.length = s
           \/ response.status \in {304, 416} /\ response.length = 0

LEMMA IsHead ==
    ASSUME NEW response, NEW n \in DOMAIN disk, NEW m \in Nat, NEW s \in Nat,
           response.etag = {<<m, s>>}, Belongs(<<m, s>>, n),
           \/ response.status = 200 /\ response.start = 0 /\ response.length = s
           \/ /\ response.status = 206
              /\ response.start \in Nat /\ response.length \in Nat
              /\ response.start + response.length = s
           \/ response.status \in {304, 416} /\ response.length = 0
    PROVE  HeadOf(response, n)
    BY DEF HeadOf

\* What the copy has is from file n, and its ETag is that file's.
FromFile(n) ==
    copy.raced = FALSE => \A i \in DOMAIN copy.bytes : copy.bytes[i] = <<n, i>>

CopyInv ==
    /\ DOMAIN copy = DOMAIN NoCopy
    /\ copy.raced \in BOOLEAN
    /\ copy.total \in Nat
    /\ copy.bytes \in Seq(Nat \X Nat)
    /\ Len(copy.bytes) <= copy.total
    /\ copy.etag = {} => copy.bytes = <<>>
    /\ copy.etag # {} =>
           /\ app.mounts # {}
           /\ \E m \in Nat, n \in DOMAIN disk :
                  /\ copy.etag = {<<m, copy.total>>}
                  /\ Belongs(<<m, copy.total>>, n)
                  /\ FromFile(n)

\* A body that the browser appends begins where its copy ends, and is of the
\* same file.
Sent(task) == IF task.stage = "reading" THEN task.response.length - task.left ELSE 0
GoesOn(task) ==
    /\ task.response.etag = copy.etag
    /\ Len(copy.bytes) = task.response.start + Sent(task)
    /\ FromFile(task.stat)

Appends(task) ==
    /\ HasFile(task.response)
    /\ \/ task.stage = "answering" /\ task.response.status = 206
       \/ task.stage \in {"opening", "reading"}

DownloadInv(t) ==
    LET task == at[t]
    IN  /\ Fileless(task.response)
               \/ (app.mounts # {} /\ HeadOf(task.response, task.stat))
        /\ task.stage \in {"opening", "reading"} => HasFile(task.response)
        /\ task.stage = "reading" =>
               /\ task.left \in 1..task.response.length
               /\ task.inode \in DOMAIN disk
               /\ copy.raced = FALSE => task.inode = task.stat
        /\ RequestOf(t).method = "GET" /\ Appends(task) => GoesOn(task)

TaskInv(t) ==
    /\ HasFields(at[t])
    /\ at[t].stage \in {"idle", "binding", "handling"} => Fileless(at[t].response)
    /\ Download(t) => DownloadInv(t)

OneDownload == \A t, u \in Tasks : Download(t) /\ Download(u) => t = u

AppInv ==
    /\ DOMAIN at = Tasks
    /\ DiskInv
    /\ CopyInv
    /\ \A t \in Tasks : TaskInv(t)
    /\ OneDownload
-----------------------------------------------------------------------------
\* What the proofs of steps share.  A task that goes on, with the copy as it
\* was or as its own download leaves it, and no other download under way.
LEMMA Moves ==
    ASSUME AppInv, NEW t \in Tasks, NEW after, Go(t, after),
           app' = app, clock' = clock, disk' = disk,
           HasFields(after),
           after.stage \in {"idle", "binding", "handling"} => Fileless(after.response),
           CopyInv',
           copy' = copy \/ Download(t),
           Download(t)' => DownloadInv(t)' /\ \A u \in Tasks : u # t => ~Download(u)
    PROVE  AppInv'
<1>1. /\ DOMAIN at' = Tasks
      /\ at'[t] = after
      /\ \A u \in Tasks : u # t => at'[u] = at[u]
    BY DEF AppInv, Go
<1>2. DiskInv'
    BY DEF AppInv, DiskInv
<1>3. \A u \in Tasks : u # t => Download(u)' = Download(u)
    BY <1>1 DEF Download, RequestOf
<1>4. OneDownload'
    BY <1>3 DEF AppInv, OneDownload
<1>5. ASSUME NEW u \in Tasks
      PROVE  TaskInv(u)'
  <2>1. CASE u = t
      BY <1>1, <2>1 DEF TaskInv
  <2>2. CASE u # t
    <3>1. /\ HasFields(at'[u])
          /\ at'[u].stage \in {"idle", "binding", "handling"} => Fileless(at'[u].response)
        BY <1>1, <2>2 DEF AppInv, TaskInv
    <3>2. ASSUME Download(u)'
          PROVE  DownloadInv(u)'
      <4>1. Download(u) /\ DownloadInv(u)
          BY <1>3, <2>2, <3>2 DEF AppInv, TaskInv
      <4>2. copy' = copy
          BY <2>2, <4>1 DEF AppInv, OneDownload
      <4> QED
          BY <1>1, <2>2, <4>1, <4>2
             DEF DownloadInv, HeadOf, Belongs, Appends, GoesOn, FromFile, Sent, RequestOf
    <3> QED
        BY <3>1, <3>2 DEF TaskInv
  <2> QED
      BY <2>1, <2>2
<1> QED
    BY <1>1, <1>2, <1>4, <1>5 DEF AppInv

\* The copy stays what it was when nothing it depends on changes.
LEMMA CopyStays ==
    ASSUME AppInv, app' = app, clock' = clock, disk' = disk, copy' = copy
    PROVE  CopyInv'
    BY DEF AppInv, CopyInv, Belongs, FromFile

\* A step of a task that has no file to send yet.
LEMMA Quietly ==
    ASSUME AppInv, NEW t \in Tasks, NEW after, Go(t, after),
           UNCHANGED <<app, clock, keys, disk, jar, bearer, copy, mind>>,
           HasFields(after), Fileless(after.response),
           after.stage \in {"binding", "handling", "answering"},
           Download(t)' => \A u \in Tasks : u # t => ~Download(u)
    PROVE  AppInv'
<1>1. app' = app /\ clock' = clock /\ disk' = disk /\ copy' = copy
    OBVIOUS
<1>2. at'[t] = after
    BY DEF AppInv, Go
<1>3. DownloadInv(t)'
    BY <1>2 DEF DownloadInv, Appends, HasFile, Fileless
<1> QED
    BY <1>1, <1>3, CopyStays, Moves

\* A download that was one already is the only one.
LEMMA StillTheOnly ==
    ASSUME AppInv, NEW t \in Tasks, Download(t)
    PROVE  \A u \in Tasks : u # t => ~Download(u)
    BY DEF AppInv, OneDownload

LEMMA SameRequest ==
    ASSUME AppInv, NEW t \in Tasks, NEW after, Go(t, after),
           after.request = at[t].request, at[t].stage \notin {"idle", "done"},
           Download(t)'
    PROVE  Download(t)
<1>1. at'[t] = after
    BY DEF AppInv, Go
<1> QED
    BY <1>1 DEF Download, RequestOf
-----------------------------------------------------------------------------
LEMMA DiskHolds ==
    ASSUME AppInv, NEW i \in DOMAIN disk
    PROVE  i \in Nat /\ disk[i].mtime \in Nat /\ disk[i].size \in Int
<1> DEFINE Stat == [mtime : Nat, size : Int]
<1>1. disk \in Seq(Stat)
    BY DEF AppInv, DiskInv
<1> HIDE DEF Stat
<1>2. i \in 1..Len(disk)
    BY <1>1
<1>3. disk[i] \in Stat
    BY <1>1, <1>2, ElementOfSeq
<1> QED
    BY <1>1, <1>2, <1>3 DEF Stat

\* The file that has the name is the one its ETag belongs to.
LEMMA TheFile ==
    ASSUME AppInv, File # Missing, app.mounts # {}
    PROVE  /\ Len(disk) \in DOMAIN disk
           /\ File = disk[Len(disk)]
           /\ File.mtime \in Nat /\ File.size \in Nat
           /\ Belongs(Etag(File), Len(disk))
<1>1. /\ disk \in Seq([mtime : Nat, size : Int]) /\ disk # <<>>
      /\ \A i \in DOMAIN disk : disk[i].mtime <= clock
      /\ \A i \in DOMAIN disk : disk[i] = Missing \/ disk[i].size \in Nat
      /\ \A i, j \in DOMAIN disk :
             disk[i] # Missing /\ Etag(disk[i]) = Etag(disk[j]) => i = j
    BY DEF AppInv, DiskInv
<1>2. Len(disk) \in DOMAIN disk /\ File = disk[Len(disk)]
    BY <1>1 DEF File, Last
<1>3. File.mtime \in Nat /\ File.size \in Nat
  <2>1. disk[Len(disk)].mtime \in Nat
      BY <1>2, DiskHolds
  <2>2. disk[Len(disk)].size \in Nat
      BY <1>1, <1>2
  <2> QED
      BY <1>2, <2>1, <2>2
<1>4. Etag(File)[1] = File.mtime
    BY DEF Etag
<1>5. Belongs(Etag(File), Len(disk))
    BY <1>1, <1>2, <1>4 DEF Belongs
<1> QED
    BY <1>2, <1>3, <1>5

\* What a download is answered with from a file.
LEMMA AnswerToDownload ==
    ASSUME AppInv, NEW r, r.kind \in {"fetch", "resume", "revalidate"}, Sensible(r),
           File # Missing, app.mounts # {}
    PROVE  LET answer == FileResponse(File, Conditions(r))
           IN  /\ HeadOf(answer, Len(disk))
               /\ answer.status = 206 =>
                      /\ answer.etag = copy.etag
                      /\ Len(copy.bytes) = answer.start
                      /\ FromFile(Len(disk))
<1> DEFINE answer == FileResponse(File, Conditions(r))
<1>1. /\ Len(disk) \in DOMAIN disk
      /\ File = disk[Len(disk)]
      /\ File.mtime \in Nat /\ File.size \in Nat
      /\ Belongs(Etag(File), Len(disk))
      /\ Etag(File) = <<File.mtime, File.size>>
    BY TheFile DEF Etag
<1>2. CASE r.kind \in {"fetch", "revalidate"}
  <2>1. Conditions(r).range = {}
      BY <1>2 DEF Conditions, Unconditional
  <2>2. /\ answer.etag = {Etag(File)}
        /\ \/ answer.status = 200 /\ answer.start = 0 /\ answer.length = File.size
           \/ answer.status = 304 /\ answer.length = 0
      BY <2>1, WholeAnswer
  <2> HIDE DEF answer
  <2>3. HeadOf(answer, Len(disk)) /\ answer.status # 206
    <3>1. /\ answer.etag = {<<File.mtime, File.size>>}
          /\ Belongs(<<File.mtime, File.size>>, Len(disk))
        BY <1>1, <2>2
    <3> QED
        BY <1>1, <2>2, <3>1, IsHead
  <2> QED
      BY <2>3 DEF answer
<1>3. CASE r.kind = "resume"
  <2> DEFINE k == Len(copy.bytes)
  <2>1. copy.etag # {} /\ k \in Nat
      BY <1>3 DEF Sensible, Partial, AppInv, CopyInv
  <2>2. PICK m \in Nat, n \in DOMAIN disk :
            /\ copy.etag = {<<m, copy.total>>}
            /\ Belongs(<<m, copy.total>>, n)
            /\ FromFile(n)
      BY <2>1 DEF AppInv, CopyInv
  <2> DEFINE etag == <<m, copy.total>>
  <2>3. AsksForRest(Conditions(r), k, etag)
      BY <1>3, <2>2 DEF AsksForRest, Conditions
  <2> HIDE DEF k, etag, answer
  <2>4. /\ answer.etag = {Etag(File)}
        /\ \/ answer.status = 200 /\ answer.start = 0 /\ answer.length = File.size
           \/ answer.status = 416 /\ answer.length = 0
           \/ /\ answer.status = 206
              /\ etag = Etag(File)
              /\ answer.start = k
              /\ answer.length \in Nat \ {0}
              /\ k + answer.length = File.size
      BY <1>1, <2>1, <2>3, RestAnswer DEF answer
  <2>5. HeadOf(answer, Len(disk))
    <3>1. \/ answer.status = 200 /\ answer.start = 0 /\ answer.length = File.size
          \/ /\ answer.status = 206
             /\ answer.start \in Nat /\ answer.length \in Nat
             /\ answer.start + answer.length = File.size
          \/ answer.status \in {304, 416} /\ answer.length = 0
        BY <2>1, <2>4
    <3>2. /\ answer.etag = {<<File.mtime, File.size>>}
          /\ Belongs(<<File.mtime, File.size>>, Len(disk))
        BY <1>1, <2>4
    <3>3. File.mtime \in Nat /\ File.size \in Nat /\ Len(disk) \in DOMAIN disk
        BY <1>1
    <3> QED
        BY <3>1, <3>2, <3>3, IsHead
  <2>6. ASSUME answer.status = 206
        PROVE  /\ answer.etag = copy.etag
               /\ k = answer.start
               /\ FromFile(Len(disk))
    <3>1. etag = Etag(File) /\ answer.start = k
        BY <2>4, <2>6
    <3>2. n = Len(disk)
        BY <1>1, <2>2, <3>1 DEF Belongs, etag
    <3> QED
        BY <2>2, <2>4, <3>1, <3>2 DEF etag
  <2> QED
      BY <2>5, <2>6 DEF answer, k
<1> QED
    BY <1>2, <1>3

LEMMA HeadReaches ==
    ASSUME NEW t \in Tasks, app.mounts # {},
           app' = app, clock' = clock, disk' = disk, copy' = copy,
           at'[t].stage = "answering",
           HeadOf(at'[t].response, at'[t].stat),
           at'[t].response.status = 206 =>
               /\ at'[t].response.etag = copy.etag
               /\ Len(copy.bytes) = at'[t].response.start
               /\ FromFile(at'[t].stat)
    PROVE  DownloadInv(t)'
<1>1. HeadOf(at[t].response, at[t].stat)'
    BY DEF HeadOf, Belongs
<1>2. Appends(at[t])' => GoesOn(at[t])'
    BY DEF Appends, GoesOn, Sent, FromFile
<1> QED
    BY <1>1, <1>2 DEF DownloadInv

LEMMA Asks ==
    ASSUME AppInv, NEW t \in Tasks, Ask(t)
    PROVE  AppInv'
<1>1. PICK r \in app.offers[t] :
        LET asked == [at[t] EXCEPT !.request = {[r EXCEPT !.conditions = Conditions(r)]},
                                   !.held = UNION {m.data : m \in Genuine}]
            stop == Min(Stops(r))
        IN  /\ at[t].stage = "idle"
            /\ Sensible(r)
            /\ r.kind # "plain" => \A u \in Tasks : ~Download(u)
            /\ Go(t, CASE Stops(r) = {} -> Dispatch(asked)
                       [] Stops(r) # {} /\ Chain[stop].kind = "cors" ->
                              [asked EXCEPT !.stage = "answering",
                                            !.response = Passes(Plain(204), r, stop)]
                       [] OTHER ->
                              [asked EXCEPT !.stage = "answering", !.response =
                                   ErrorResponse(HTTPError(403), NoHandlers)])
            /\ UNCHANGED <<app, clock, keys, disk, jar, bearer, copy, mind>>
    BY DEF Ask
<1> DEFINE asked == [at[t] EXCEPT !.request = {[r EXCEPT !.conditions = Conditions(r)]},
                                  !.held = UNION {m.data : m \in Genuine}]
           stop == Min(Stops(r))
           preflight == [asked EXCEPT !.stage = "answering",
                                      !.response = Passes(Plain(204), r, stop)]
           refused == [asked EXCEPT !.stage = "answering", !.response =
                           ErrorResponse(HTTPError(403), NoHandlers)]
           now == [r EXCEPT !.conditions = Conditions(r)]
<1>2. /\ {"kind", "method", "conditions"} \subseteq DOMAIN r
      /\ r.kind \in {"plain", "fetch", "resume", "revalidate"}
    BY AppsAssumption DEF AppInv, DiskInv
<1>3. now.kind = r.kind /\ now.conditions = Conditions(r) /\ Only({now}) = now
    BY <1>2, OnlyOne
<1>4. /\ HasFields(asked) /\ asked.request = {now} /\ asked.response = at[t].response
      /\ Fileless(asked.response) /\ at[t].stage = "idle"
    BY <1>1 DEF AppInv, TaskInv, HasFields, Idle
<1>5. /\ HasFields(preflight) /\ preflight.request = {now}
      /\ preflight.stage = "answering" /\ Fileless(preflight.response)
      /\ HasFields(refused) /\ refused.request = {now}
      /\ refused.stage = "answering" /\ Fileless(refused.response)
  <2> DEFINE passed == Passes(Plain(204), r, stop)
             error == ErrorResponse(HTTPError(403), NoHandlers)
  <2>1. DOMAIN passed = DOMAIN NoResponse /\ Fileless(passed)
      BY PassesOrError, PlainHasNoFile
  <2>2. DOMAIN error = DOMAIN NoResponse /\ Fileless(error)
      BY ErrorHasNoFile
  <2>3. refused = [asked EXCEPT !.stage = "answering", !.response = error]
      OBVIOUS
  <2>4. preflight = [asked EXCEPT !.stage = "answering", !.response = passed]
      OBVIOUS
  <2> HIDE DEF passed, error, asked, preflight, refused
  <2> QED
      BY <1>4, <2>1, <2>2, <2>3, <2>4 DEF HasFields, Idle
<1>6. /\ Sensible(r)
      /\ r.kind # "plain" => \A u \in Tasks : ~Download(u)
      /\ UNCHANGED <<app, clock, keys, disk, jar, bearer, copy, mind>>
      /\ \/ Go(t, Dispatch(asked)) \/ Go(t, preflight) \/ Go(t, refused)
    BY <1>1
<1> HIDE DEF asked, preflight, refused, now
<1>7. ASSUME NEW after, Go(t, after), after.request = {now}, Download(t)'
      PROVE  r.kind # "plain" /\ \A u \in Tasks : u # t => ~Download(u)
  <2>1. at'[t] = after
      BY <1>7 DEF AppInv, Go
  <2>2. RequestOf(t)' = now
      BY <1>3, <1>7, <2>1 DEF RequestOf
  <2> QED
      BY <1>3, <1>6, <1>7, <2>2 DEF Download
<1>8. ASSUME NEW after, Go(t, after), after.request = {now},
             HasFields(after), Fileless(after.response),
             after.stage \in {"binding", "handling", "answering"}
      PROVE  AppInv'
    BY <1>6, <1>7, <1>8, Quietly
<1>9. CASE Go(t, preflight) \/ Go(t, refused)
    BY <1>5, <1>8, <1>9
<1>10. CASE Go(t, Dispatch(asked)) /\ (Answered(Dispatch(asked), asked)
                                          \/ Waits(Dispatch(asked), asked))
    BY <1>4, <1>8, <1>10 DEF Answered, Waits
<1>11. CASE Go(t, Dispatch(asked)) /\ Served(Dispatch(asked), asked)
  <2> DEFINE sent == Dispatch(asked)
             answer == FileResponse(File, Conditions(r))
  <2>1. /\ HasFields(sent) /\ sent.stage = "answering" /\ sent.request = {now}
        /\ sent.stat = Len(disk)
        /\ sent.response.status = answer.status
        /\ sent.response.start = answer.start
        /\ sent.response.length = answer.length
        /\ sent.response.etag = answer.etag
        /\ File # Missing /\ app.mounts # {}
      BY <1>3, <1>4, <1>11 DEF Served
  <2>2. at'[t] = sent
      BY <1>11 DEF AppInv, Go
  <2>3. app' = app /\ clock' = clock /\ disk' = disk /\ copy' = copy
      BY <1>6
  <2>4. ASSUME Download(t)'
        PROVE  r.kind # "plain" /\ \A u \in Tasks : u # t => ~Download(u)
      BY <1>7, <1>11, <2>1, <2>4
  <2>5. ASSUME Download(t)'
        PROVE  /\ HeadOf(answer, Len(disk))
               /\ answer.status = 206 =>
                      /\ answer.etag = copy.etag
                      /\ Len(copy.bytes) = answer.start
                      /\ FromFile(Len(disk))
      BY <1>2, <1>6, <2>1, <2>4, <2>5, AnswerToDownload
  <2> HIDE DEF sent, answer
  <2>6. ASSUME Download(t)'
        PROVE  DownloadInv(t)'
    <3>1. HeadOf(sent.response, sent.stat)
        BY <2>1, <2>5, <2>6 DEF HeadOf
    <3>2. sent.response.status = 206 =>
              /\ sent.response.etag = copy.etag
              /\ Len(copy.bytes) = sent.response.start
              /\ FromFile(sent.stat)
        BY <2>1, <2>5, <2>6
    <3> QED
        BY <2>1, <2>2, <2>3, <3>1, <3>2, HeadReaches
  <2> QED
      BY <1>11, <2>1, <2>3, <2>4, <2>6, CopyStays, Moves DEF sent
<1> QED
    BY <1>4, <1>6, <1>9, <1>10, <1>11, Dispatching

LEMMA Binds ==
    ASSUME AppInv, NEW t \in Tasks, Bind(t)
    PROVE  AppInv'
<1> DEFINE running == [at[t] EXCEPT !.stage = "handling", !.ran = TRUE,
                                    !.todo = RouteOf(t).program]
<1>1. /\ at[t].stage = "binding"
      /\ UNCHANGED <<app, clock, keys, disk, jar, bearer, copy, mind>>
      /\ \/ \E exc : Go(t, Fails(at[t], exc))
         \/ Go(t, running)
    BY DEF Bind
<1>2. HasFields(at[t]) /\ Fileless(at[t].response)
    BY <1>1 DEF AppInv, TaskInv
<1>3. /\ HasFields(running) /\ running.stage = "handling"
      /\ running.request = at[t].request /\ Fileless(running.response)
    BY <1>2 DEF HasFields, Idle
<1> HIDE DEF running
<1>4. ASSUME NEW after, Go(t, after), after.request = at[t].request,
             HasFields(after), Fileless(after.response),
             after.stage \in {"binding", "handling", "answering"}
      PROVE  AppInv'
    BY <1>1, <1>4, SameRequest, StillTheOnly, Quietly
<1>5. CASE \E exc : Go(t, Fails(at[t], exc))
    BY <1>2, <1>4, <1>5, Failing DEF Answered
<1> QED
    BY <1>1, <1>3, <1>4, <1>5

LEMMA Handles ==
    ASSUME AppInv, NEW t \in Tasks, Handle(t)
    PROVE  AppInv'
<1> DEFINE task == at[t]
           deed == Head(task.todo)
           goesOn == [task EXCEPT !.todo = Tail(@)]
           session == Only(task.session)
           touched == [goesOn EXCEPT !.session = {Touch(session, deed)},
                                     !.owed = {Retold(task, deed)}]
           issuing(algorithm) ==
               [goesOn EXCEPT !.issued = {Memory(deed)}, !.response.token =
                   {Issue(deed.user, deed.roles, deed.expires, clock, algorithm)}]
           made == [MakeResponse(deed.result, RouteOf(t).status)
                        EXCEPT !.token = task.response.token]
           returning == Answer([task EXCEPT !.returned = Told(task)], FinishAuth(task, made))
<1>1. /\ task.stage = "handling"
      /\ UNCHANGED <<app, clock, keys, disk, jar, bearer, copy, mind>>
      /\ \/ \E exc : Go(t, Fails(task, exc))
         \/ Go(t, touched)
         \/ \E algorithm : Go(t, issuing(algorithm))
         \/ Go(t, returning)
    BY DEF Handle
<1>2. HasFields(task) /\ Fileless(task.response)
    BY <1>1 DEF AppInv, TaskInv
<1>3. HasFields(goesOn) /\ goesOn.stage = "handling" /\ goesOn.request = task.request
      /\ goesOn.response = task.response
    BY <1>1, <1>2 DEF HasFields, Idle
<1>4. ASSUME NEW after, Go(t, after), after.request = at[t].request,
             HasFields(after), Fileless(after.response),
             after.stage \in {"binding", "handling", "answering"}
      PROVE  AppInv'
    BY <1>1, <1>4, SameRequest, StillTheOnly, Quietly
<1>5. CASE \E exc : Go(t, Fails(task, exc))
    BY <1>2, <1>4, <1>5, Failing DEF Answered
<1>6. CASE Go(t, touched)
  <2>1. HasFields(touched) /\ touched.stage = "handling"
        /\ touched.request = task.request /\ touched.response = task.response
    <3> HIDE DEF goesOn
    <3> QED
        BY <1>3 DEF HasFields, Idle
  <2> HIDE DEF touched
  <2> QED
      BY <1>2, <1>4, <1>6, <2>1
<1>7. ASSUME NEW algorithm, Go(t, issuing(algorithm))
      PROVE  AppInv'
  <2> DEFINE token == {Issue(deed.user, deed.roles, deed.expires, clock, algorithm)}
             after == [goesOn EXCEPT !.issued = {Memory(deed)}, !.response.token = token]
  <2>1. HasFields(after) /\ after.stage = "handling" /\ after.request = task.request
        /\ Fileless(after.response)
    <3> HIDE DEF goesOn, token
    <3> QED
        BY <1>2, <1>3 DEF HasFields, Idle, NoResponse, Fileless
  <2>2. Go(t, after)
      BY <1>7
  <2> HIDE DEF after
  <2> QED
      BY <1>4, <2>1, <2>2
<1>8. CASE Go(t, returning)
  <2> DEFINE told == [task EXCEPT !.returned = Told(task)]
             finished == FinishAuth(task, made)
  <2>1. HasFields(told) /\ told.request = task.request
      BY <1>2 DEF HasFields, Idle
  <2>2. DOMAIN made = DOMAIN NoResponse /\ Fileless(made)
      BY MadeHasNoFile DEF NoResponse, Fileless
  <2>3. DOMAIN finished = DOMAIN NoResponse /\ Fileless(finished)
    <3> HIDE DEF made
    <3> QED
        BY <2>2 DEF FinishAuth, NoResponse, Fileless
  <2> HIDE DEF told, finished, made
  <2>4. Answered(Answer(told, finished), told)
      BY <2>1, <2>3, AnsweringWithout
  <2> QED
      BY <1>4, <1>8, <2>1, <2>4 DEF Answered, told, finished, made
<1> QED
    BY <1>1, <1>5, <1>6, <1>7, <1>8

\* A task that is done, or cut off, leaves the copy as it is.
LEMMA DoneIsNoDownload ==
    ASSUME AppInv, NEW t \in Tasks, Go(t, Done)
    PROVE  ~Download(t)' /\ HasFields(Done) /\ Fileless(Done.response)
<1>1. at'[t] = Done
    BY DEF AppInv, Go
<1>2. HasFields(Done) /\ Fileless(Done.response) /\ Done.stage = "done"
    BY DEF HasFields, Fileless, Done, Idle, NoResponse
<1> QED
    BY <1>1, <1>2 DEF Download

LEMMA Cuts ==
    ASSUME AppInv, NEW t \in Tasks, Cut(t)
    PROVE  AppInv'
<1>1. /\ Go(t, Done)
      /\ app' = app /\ clock' = clock /\ disk' = disk /\ copy' = copy
    BY DEF Cut
<1> QED
    BY <1>1, CopyStays, DoneIsNoDownload, Moves
-----------------------------------------------------------------------------
\* The copy is begun again.
LEMMA EmptyCopy ==
    ASSUME AppInv, app' = app, clock' = clock, disk' = disk,
           copy' = NoCopy
    PROVE  CopyInv'
    BY DEF CopyInv, NoCopy

Begun(response) == [NoCopy EXCEPT !.etag = response.etag, !.total = response.length]

LEMMA NewCopy ==
    ASSUME AppInv, app' = app, clock' = clock, disk' = disk,
           NEW response, NEW n, response.status = 200,
           Fileless(response) \/ (app.mounts # {} /\ HeadOf(response, n)),
           copy' = Begun(response)
    PROVE  CopyInv'
<1>1. /\ DOMAIN copy' = DOMAIN NoCopy
      /\ copy'.raced = FALSE /\ copy'.bytes = <<>>
      /\ copy'.etag = response.etag /\ copy'.total = response.length
    BY DEF Begun, NoCopy
<1>2. /\ copy'.raced \in BOOLEAN
      /\ copy'.bytes \in Seq(Nat \X Nat)
      /\ Len(copy'.bytes) = 0
  <2>1. <<>> \in Seq(Nat \X Nat) /\ Len(<<>>) = 0
      BY EmptySeq
  <2> QED
      BY <1>1, <2>1
<1>3. CASE Fileless(response)
  <2>1. copy'.etag = {} /\ copy'.total = 0
      BY <1>1, <1>3 DEF Fileless
  <2> QED
      BY <1>1, <1>2, <2>1 DEF CopyInv
<1>4. CASE app.mounts # {} /\ HeadOf(response, n)
  <2>1. PICK m \in Nat, s \in Nat :
            /\ response.etag = {<<m, s>>}
            /\ n \in DOMAIN disk
            /\ Belongs(<<m, s>>, n)
            /\ response.length = s
      BY <1>4 DEF HeadOf
  <2>2. Belongs(<<m, s>>, n)'
      BY <2>1 DEF Belongs
  <2>3. FromFile(n)'
      BY <1>1 DEF FromFile
  <2>4. /\ copy'.etag = {<<m, copy'.total>>} /\ copy'.total = s
        /\ n \in DOMAIN disk'
      BY <1>1, <2>1
  <2> QED
      BY <1>1, <1>4, <1>2, <2>1, <2>2, <2>3, <2>4 DEF CopyInv
<1> QED
    BY <1>3, <1>4

LEMMA Delivers ==
    ASSUME AppInv, NEW t \in Tasks, Deliver(t)
    PROVE  AppInv'
<1> DEFINE task == at[t]
           response == task.response
           download == Download(t) /\ RequestOf(t).method = "GET"
           opened == [task EXCEPT !.stage = "opening"]
<1>1. /\ task.stage = "answering"
      /\ Go(t, IF HasFile(response) THEN opened ELSE Done)
      /\ copy' = CASE download /\ response.status = 200 ->
                          [NoCopy EXCEPT !.etag = response.etag, !.total = response.length]
                   [] download /\ response.status \in {404, 416} -> NoCopy
                   [] OTHER -> copy
    BY DEF Deliver
<1>2. app' = app /\ clock' = clock /\ disk' = disk
    BY DEF Deliver
<1>3. /\ download /\ response.status = 200 =>
             copy' = [NoCopy EXCEPT !.etag = response.etag, !.total = response.length]
      /\ download /\ response.status # 200 => copy' = NoCopy \/ copy' = copy
      /\ download /\ response.status \notin {200, 404, 416} => copy' = copy
      /\ ~download => copy' = copy
    BY <1>1
<1>4. CopyInv'
  <2>1. CASE download /\ response.status = 200
    <3>1. Fileless(response) \/ (app.mounts # {} /\ HeadOf(response, task.stat))
        BY <2>1 DEF AppInv, TaskInv, DownloadInv
    <3>2. copy' = Begun(response)
        BY <1>3, <2>1 DEF Begun
    <3>3. response.status = 200
        BY <2>1
    <3> HIDE DEF response
    <3> QED
        BY <1>2, <3>1, <3>2, <3>3, NewCopy
  <2>2. CASE ~(download /\ response.status = 200)
      BY <1>2, <1>3, <2>2, EmptyCopy, CopyStays
  <2> QED
      BY <2>1, <2>2
<1>5. CASE ~HasFile(response)
    BY <1>2, <1>1, <1>3, <1>4, <1>5, DoneIsNoDownload, Moves
<1>6. CASE HasFile(response)
  <2>1. /\ HasFields(opened) /\ opened.stage = "opening"
        /\ opened.request = task.request /\ opened.response = response
        /\ opened.stat = task.stat
      BY DEF AppInv, TaskInv, HasFields, Idle
  <2>2. Go(t, opened) /\ at'[t] = opened
      BY <1>1, <1>6 DEF AppInv, Go
  <2>3. ASSUME Download(t)'
        PROVE  /\ DownloadInv(t)'
               /\ \A u \in Tasks : u # t => ~Download(u)
    <3>1. Download(t) /\ DownloadInv(t)
        BY <1>1, <2>1, <2>2, <2>3, SameRequest DEF AppInv, TaskInv
    <3>2. app.mounts # {} /\ HeadOf(response, task.stat)
        BY <1>6, <3>1 DEF DownloadInv, HasFile, Fileless
    <3>3. (response.status = 200 /\ response.start = 0) \/ response.status = 206
        BY <1>6, <3>2 DEF HeadOf, HasFile
    <3>4. HeadOf(at[t].response, at[t].stat)'
        BY <1>2, <2>1, <2>2, <3>2 DEF HeadOf, Belongs
    <3>5. RequestOf(t)' = RequestOf(t)
        BY <2>1, <2>2 DEF RequestOf
    <3>6. ASSUME RequestOf(t).method = "GET"
          PROVE  GoesOn(at[t])'
      <4>1. CASE response.status = 200
        <5>1. copy' = [NoCopy EXCEPT !.etag = response.etag, !.total = response.length]
            BY <1>3, <3>1, <3>6, <4>1
        <5>2. copy'.bytes = <<>> /\ copy'.etag = response.etag
            BY <5>1 DEF NoCopy
        <5> QED
            BY <2>1, <2>2, <3>3, <4>1, <5>2 DEF GoesOn, Sent, FromFile
      <4>2. CASE response.status = 206
        <5>1. copy' = copy
            BY <1>3, <3>1, <3>6, <4>2
        <5>2. GoesOn(task)
            BY <1>1, <1>6, <3>1, <3>6, <4>2 DEF DownloadInv, Appends
        <5>3. Sent(task) = 0 /\ Sent(at'[t]) = 0
            BY <1>1, <2>1, <2>2 DEF Sent
        <5> QED
            BY <2>1, <2>2, <5>1, <5>2, <5>3 DEF GoesOn, FromFile
      <4> QED
          BY <3>3, <4>1, <4>2
    <3>7. DownloadInv(t)'
        BY <1>2, <1>6, <2>1, <2>2, <3>2, <3>4, <3>5, <3>6 DEF DownloadInv
    <3> QED
        BY <3>1, <3>7, StillTheOnly
  <2> HIDE DEF opened
  <2> QED
      BY <1>2, <1>3, <1>4, <2>1, <2>2, <2>3, Moves
<1> QED
    BY <1>5, <1>6

LEMMA RacedCopy ==
    ASSUME AppInv, app' = app, clock' = clock, disk' = disk, NEW race \in BOOLEAN,
           copy' = [copy EXCEPT !.raced = race],
           race = FALSE => copy.raced = FALSE
    PROVE  CopyInv'
<1>1. /\ DOMAIN copy' = DOMAIN copy
      /\ copy'.raced = race
      /\ copy'.etag = copy.etag /\ copy'.bytes = copy.bytes /\ copy'.total = copy.total
    BY DEF AppInv, CopyInv, NoCopy
<1>2. ASSUME NEW n, FromFile(n)
      PROVE  FromFile(n)'
    BY <1>1, <1>2 DEF FromFile
<1>3. ASSUME copy.etag # {}
      PROVE  /\ app'.mounts # {}
             /\ \E m \in Nat, n \in DOMAIN disk' :
                    /\ copy'.etag = {<<m, copy'.total>>}
                    /\ Belongs(<<m, copy.total>>, n)'
                    /\ FromFile(n)'
  <2>1. PICK m \in Nat, n \in DOMAIN disk :
            /\ copy.etag = {<<m, copy.total>>}
            /\ Belongs(<<m, copy.total>>, n)
            /\ FromFile(n)
      BY <1>3 DEF AppInv, CopyInv
  <2>2. Belongs(<<m, copy.total>>, n)'
      BY <1>1, <2>1 DEF Belongs
  <2> QED
      BY <1>1, <1>2, <1>3, <2>1, <2>2 DEF AppInv, CopyInv
<1> QED
    BY <1>1, <1>3 DEF AppInv, CopyInv

LEMMA Opens ==
    ASSUME AppInv, NEW t \in Tasks, Open(t)
    PROVE  AppInv'
<1> DEFINE task == at[t]
           race == copy.raced \/ task.stat # Len(disk)
           read == [task EXCEPT !.stage = "reading", !.inode = Len(disk),
                                !.left = task.response.length]
<1>1. /\ task.stage = "opening"
      /\ Go(t, IF File = Missing THEN Done ELSE read)
      /\ copy' = IF Download(t) THEN [copy EXCEPT !.raced = race] ELSE copy
    BY DEF Open, AppInv, CopyInv, NoCopy
<1>2. app' = app /\ clock' = clock /\ disk' = disk
    BY DEF Open
<1>3. CopyInv'
  <2>1. CASE Download(t)
    <3>1. race \in BOOLEAN /\ (race = FALSE => copy.raced = FALSE)
        BY DEF AppInv, CopyInv
    <3> HIDE DEF race
    <3> QED
        BY <1>1, <1>2, <2>1, <3>1, RacedCopy
  <2>2. CASE ~Download(t)
      BY <1>1, <1>2, <2>2, CopyStays
  <2> QED
      BY <2>1, <2>2
<1>4. copy' = copy \/ Download(t)
    BY <1>1
<1>5. CASE File = Missing
    BY <1>1, <1>2, <1>3, <1>4, <1>5, DoneIsNoDownload, Moves
<1>6. CASE File # Missing
  <2>1. /\ HasFields(read) /\ read.stage = "reading"
        /\ read.request = task.request /\ read.response = task.response
        /\ read.stat = task.stat /\ read.inode = Len(disk)
        /\ read.left = task.response.length
      BY DEF AppInv, TaskInv, HasFields, Idle
  <2>2. Go(t, read) /\ at'[t] = read
      BY <1>1, <1>6 DEF AppInv, Go
  <2>3. ASSUME Download(t)'
        PROVE  /\ DownloadInv(t)'
               /\ \A u \in Tasks : u # t => ~Download(u)
    <3>1. Download(t) /\ DownloadInv(t)
        BY <1>1, <2>1, <2>2, <2>3, SameRequest DEF AppInv, TaskInv
    <3>2. HasFile(task.response) /\ app.mounts # {} /\ HeadOf(task.response, task.stat)
        BY <1>1, <3>1 DEF DownloadInv, HasFile, Fileless
    <3>3. HeadOf(at[t].response, at[t].stat)'
        BY <1>2, <2>1, <2>2, <3>2 DEF HeadOf, Belongs
    <3>4. task.response.length \in Nat \ {0}
        BY <3>2 DEF HeadOf, HasFile
    <3>5. Len(disk) \in DOMAIN disk
        BY DEF AppInv, DiskInv
    <3>6. /\ copy'.etag = copy.etag /\ copy'.bytes = copy.bytes
          /\ copy'.raced = race
      <4> HIDE DEF race
      <4> QED
          BY <1>1, <3>1 DEF AppInv, CopyInv, NoCopy
    <3>7. copy'.raced = FALSE => copy.raced = FALSE /\ task.stat = Len(disk)
        BY <3>6 DEF AppInv, CopyInv
    <3>8. ASSUME RequestOf(t)'.method = "GET"
          PROVE  GoesOn(at[t])'
      <4>1. GoesOn(task)
          BY <1>1, <2>1, <2>2, <3>1, <3>2, <3>8 DEF DownloadInv, Appends, RequestOf
      <4>2. Sent(task) = 0 /\ Sent(at'[t]) = 0
          BY <1>1, <2>1, <2>2, <3>4 DEF Sent
      <4>3. FromFile(at[t].stat)'
          BY <2>1, <2>2, <3>6, <3>7, <4>1 DEF GoesOn, FromFile
      <4> QED
          BY <2>1, <2>2, <3>6, <4>1, <4>2, <4>3 DEF GoesOn
    <3>9. at'[t].left \in 1..at'[t].response.length
        BY <2>1, <2>2, <3>4
    <3>10. DownloadInv(t)'
        BY <1>2, <2>1, <2>2, <3>2, <3>3, <3>5, <3>7, <3>8, <3>9 DEF DownloadInv
    <3> QED
        BY <3>1, <3>10, StillTheOnly
  <2> HIDE DEF read
  <2> QED
      BY <1>2, <1>3, <1>4, <2>1, <2>2, <2>3, Moves
<1> QED
    BY <1>5, <1>6

\* A block that is read is no longer than what is left, wherever the file
\* ends.
LEMMA Block ==
    ASSUME NEW c \in Nat, NEW left \in Nat, NEW rest \in Int
    PROVE  LET n == Max({0, Min({c, left, rest})})
           IN  n \in Nat /\ n <= left
<1>1. PICK least \in {c, left, rest} : \A x \in {c, left, rest} : least <= x
  <2>1. CASE c <= left /\ c <= rest
      BY <2>1
  <2>2. CASE left <= c /\ left <= rest
      BY <2>2
  <2>3. CASE rest <= c /\ rest <= left
      BY <2>3
  <2> QED
      BY <2>1, <2>2, <2>3
<1>2. Min({c, left, rest}) = least
    BY <1>1 DEF Min
<1>3. least \in Int /\ least <= left
    BY <1>1
<1> DEFINE n == Max({0, least})
<1>4. n = IF least >= 0 THEN least ELSE 0
    BY <1>3 DEF Max
<1> QED
    BY <1>2, <1>3, <1>4

BlockOf(inode, from, n) == [i \in 1..n |-> <<inode, from + i>>]

LEMMA WithBlock ==
    ASSUME NEW bytes \in Seq(Nat \X Nat), NEW n \in Nat, NEW inode \in Nat
    PROVE  LET longer == bytes \o BlockOf(inode, Len(bytes), n)
           IN  /\ longer \in Seq(Nat \X Nat)
               /\ Len(longer) = Len(bytes) + n
               /\ (\A i \in DOMAIN bytes : bytes[i] = <<inode, i>>) =>
                      \A i \in DOMAIN longer : longer[i] = <<inode, i>>
<1> DEFINE block == BlockOf(inode, Len(bytes), n)
           longer == bytes \o block
<1>1. block \in Seq(Nat \X Nat) /\ Len(block) = n
      /\ \A i \in 1..n : block[i] = <<inode, Len(bytes) + i>>
  <2>1. \A i \in 1..n : <<inode, Len(bytes) + i>> \in Nat \X Nat
      OBVIOUS
  <2> QED
      BY <2>1 DEF BlockOf
<1> HIDE DEF block
<1>2. /\ longer \in Seq(Nat \X Nat)
      /\ Len(longer) = Len(bytes) + n
      /\ \A i \in 1..Len(longer) :
             longer[i] = IF i <= Len(bytes) THEN bytes[i] ELSE block[i - Len(bytes)]
    BY <1>1, ConcatProperties
<1> HIDE DEF longer
<1>3. ASSUME \A i \in DOMAIN bytes : bytes[i] = <<inode, i>>, NEW i \in DOMAIN longer
      PROVE  longer[i] = <<inode, i>>
  <2>1. i \in 1..Len(bytes) + n /\ Len(bytes) \in Nat
      BY <1>2, <1>3
  <2>2. CASE i <= Len(bytes)
    <3>1. i \in DOMAIN bytes
        BY <2>1, <2>2
    <3>2. longer[i] = bytes[i]
        BY <1>2, <2>1, <2>2
    <3> QED
        BY <1>3, <3>1, <3>2
  <2>3. CASE i > Len(bytes)
    <3>1. i - Len(bytes) \in 1..n /\ Len(bytes) + (i - Len(bytes)) = i
        BY <2>1, <2>3
    <3>2. longer[i] = block[i - Len(bytes)]
        BY <1>2, <2>1, <2>3
    <3> QED
        BY <1>1, <3>1, <3>2
  <2> QED
      BY <2>1, <2>2, <2>3
<1> QED
    BY <1>2, <1>3 DEF longer, block

\* A head with a body: from where it starts on, the rest of the file.
LEMMA HeadOfBody ==
    ASSUME NEW response, NEW k, HeadOf(response, k), HasFile(response)
    PROVE  \E m \in Nat, s \in Nat :
               /\ response.etag = {<<m, s>>}
               /\ k \in DOMAIN disk
               /\ Belongs(<<m, s>>, k)
               /\ response.start \in Nat /\ response.length \in Nat
               /\ response.start + response.length = s
<1>1. PICK m \in Nat, s \in Nat :
          /\ response.etag = {<<m, s>>}
          /\ k \in DOMAIN disk
          /\ Belongs(<<m, s>>, k)
          /\ \/ response.status = 200 /\ response.start = 0 /\ response.length = s
             \/ /\ response.status = 206
                /\ response.start \in Nat /\ response.length \in Nat
                /\ response.start + response.length = s
             \/ response.status \in {304, 416} /\ response.length = 0
    BY DEF HeadOf
<1>2. /\ response.start \in Nat /\ response.length \in Nat
      /\ response.start + response.length = s
    BY <1>1 DEF HasFile
<1> QED
    BY <1>1, <1>2

LEMMA Reads ==
    ASSUME AppInv, NEW t \in Tasks, Read(t)
    PROVE  AppInv'
<1> DEFINE task == at[t]
           response == task.response
           from == response.start + response.length - task.left
           n == Max({0, Min({ChunkSize, task.left, disk[task.inode].size - from})})
           reading == [task EXCEPT !.left = @ - n]
           takes == Download(t) /\ RequestOf(t).method = "GET"
<1>1. /\ task.stage = "reading"
      /\ Go(t, IF n = 0 \/ n = task.left THEN Done ELSE reading)
      /\ copy' = IF takes THEN [copy EXCEPT !.bytes = @ \o BlockOf(task.inode, from, n)]
                 ELSE copy
    BY DEF Read, BlockOf
<1>2. app' = app /\ clock' = clock /\ disk' = disk
    BY DEF Read
<1>3. copy' = copy \/ Download(t)
    BY <1>1
<1>4. /\ HasFields(reading) /\ reading.stage = "reading"
      /\ reading.request = task.request /\ reading.response = response
      /\ reading.stat = task.stat /\ reading.inode = task.inode
      /\ reading.left = task.left - n
    BY <1>1 DEF AppInv, TaskInv, HasFields, Idle
<1>5. ASSUME Download(t)
      PROVE  /\ DownloadInv(t)
             /\ HasFile(response) /\ app.mounts # {} /\ HeadOf(response, task.stat)
             /\ response.start \in Nat /\ response.length \in Nat
             /\ task.left \in 1..response.length
             /\ task.inode \in DOMAIN disk /\ task.inode \in Nat
             /\ from \in Nat /\ n \in Nat /\ n <= task.left
  <2>1. DownloadInv(t)
      BY <1>5 DEF AppInv, TaskInv
  <2>2. HasFile(response) /\ app.mounts # {} /\ HeadOf(response, task.stat)
      BY <1>1, <2>1 DEF DownloadInv, HasFile, Fileless
  <2>3. response.start \in Nat /\ response.length \in Nat
      BY <2>2 DEF HeadOf, HasFile
  <2>4. task.left \in 1..response.length /\ task.inode \in DOMAIN disk
      BY <1>1, <2>1 DEF DownloadInv
  <2>5. from \in Nat
      BY <2>3, <2>4
  <2>6. task.inode \in Nat /\ disk[task.inode].size \in Int
      BY <2>4, DiskHolds
  <2>7. n \in Nat /\ n <= task.left
    <3>1. ChunkSize \in Nat /\ task.left \in Nat /\ disk[task.inode].size - from \in Int
        BY <2>3, <2>4, <2>5, <2>6, AppsAssumption
    <3> QED
        BY <3>1, Block
  <2> HIDE DEF n, from
  <2> QED
      BY <2>1, <2>2, <2>3, <2>4, <2>5, <2>6, <2>7
<1>6. ASSUME takes
      PROVE  /\ GoesOn(task)
             /\ Len(copy.bytes) = from
             /\ copy' = [copy EXCEPT !.bytes = @ \o BlockOf(task.inode, Len(copy.bytes), n)]
  <2>1. GoesOn(task)
      BY <1>1, <1>5, <1>6 DEF DownloadInv, Appends
  <2>2. Len(copy.bytes) = from
    <3>1. Len(copy.bytes) = response.start + (response.length - task.left)
        BY <1>1, <2>1 DEF GoesOn, Sent
    <3> QED
        BY <1>5, <1>6, <3>1
  <2> QED
      BY <1>1, <1>6, <2>1, <2>2
<1> HIDE DEF n, from
<1>7. ASSUME takes
      PROVE  /\ DOMAIN copy' = DOMAIN NoCopy
             /\ copy'.raced = copy.raced /\ copy'.etag = copy.etag
             /\ copy'.total = copy.total
             /\ copy'.bytes \in Seq(Nat \X Nat)
             /\ Len(copy'.bytes) = Len(copy.bytes) + n
             /\ FromFile(at[t].stat) => (copy'.raced = FALSE =>
                    \A i \in DOMAIN copy'.bytes : copy'.bytes[i] = <<at[t].stat, i>>)
  <2> DEFINE longer == copy.bytes \o BlockOf(task.inode, Len(copy.bytes), n)
  <2>1. copy.bytes \in Seq(Nat \X Nat) /\ n \in Nat /\ task.inode \in Nat
      BY <1>5, <1>7 DEF AppInv, CopyInv
  <2>2. /\ longer \in Seq(Nat \X Nat)
        /\ Len(longer) = Len(copy.bytes) + n
        /\ (\A i \in DOMAIN copy.bytes : copy.bytes[i] = <<task.inode, i>>) =>
               \A i \in DOMAIN longer : longer[i] = <<task.inode, i>>
      BY <2>1, WithBlock
  <2>3. copy' = [copy EXCEPT !.bytes = longer]
      BY <1>6, <1>7
  <2> HIDE DEF longer
  <2>4. /\ DOMAIN copy' = DOMAIN NoCopy
        /\ copy'.raced = copy.raced /\ copy'.etag = copy.etag
        /\ copy'.total = copy.total /\ copy'.bytes = longer
      BY <2>3 DEF AppInv, CopyInv, NoCopy
  <2>5. copy.raced = FALSE => task.inode = task.stat
      BY <1>1, <1>5, <1>7 DEF DownloadInv
  <2>6. ASSUME FromFile(at[t].stat), copy'.raced = FALSE
        PROVE  \A i \in DOMAIN copy'.bytes : copy'.bytes[i] = <<at[t].stat, i>>
    <3>1. task.inode = task.stat
        BY <2>4, <2>5, <2>6
    <3>2. \A i \in DOMAIN copy.bytes : copy.bytes[i] = <<task.inode, i>>
        BY <2>4, <2>6, <3>1 DEF FromFile
    <3> QED
        BY <2>2, <2>4, <3>1, <3>2
  <2> QED
      BY <2>2, <2>4, <2>6
<1>8. CopyInv'
  <2>1. CASE ~takes
      BY <1>1, <1>2, <2>1, CopyStays
  <2>2. CASE takes
    <3>1. PICK m \in Nat, s \in Nat :
              /\ response.etag = {<<m, s>>}
              /\ task.stat \in DOMAIN disk
              /\ Belongs(<<m, s>>, task.stat)
              /\ response.start + response.length = s
        BY <1>5, <2>2, HeadOfBody
    <3>2. copy.etag = {<<m, s>>} /\ FromFile(task.stat)
        BY <1>6, <2>2, <3>1 DEF GoesOn
    <3>3. copy.total = s
      <4>1. PICK k \in Nat : copy.etag = {<<k, copy.total>>}
          BY <3>2 DEF AppInv, CopyInv
      <4>2. <<k, copy.total>> = <<m, s>>
          BY <3>2, <4>1
      <4> QED
          BY <4>2
    <3>4. from + n <= s
      <4>1. response.start \in Nat /\ response.length \in Nat /\ task.left \in Nat
            /\ n \in Nat /\ n <= task.left
          BY <1>5, <2>2
      <4> QED
          BY <3>1, <4>1 DEF from
    <3>5. /\ Len(copy'.bytes) <= copy'.total
          /\ copy'.total = s /\ copy'.etag = {<<m, s>>}
          /\ copy'.raced \in BOOLEAN
        BY <1>6, <1>7, <2>2, <3>2, <3>3, <3>4 DEF AppInv, CopyInv
    <3>6. ASSUME NEW k, k = task.stat
          PROVE  Belongs(<<m, s>>, k)' /\ FromFile(k)' /\ k \in DOMAIN disk'
      <4>1. Belongs(<<m, s>>, k)'
          BY <1>2, <3>1, <3>6 DEF Belongs
      <4> QED
          BY <1>2, <1>7, <2>2, <3>1, <3>2, <3>6, <4>1 DEF FromFile
    <3>7. \E k \in DOMAIN disk' : Belongs(<<m, s>>, k)' /\ FromFile(k)'
        BY <3>6
    <3> QED
        BY <1>2, <1>5, <1>7, <2>2, <3>5, <3>7 DEF CopyInv
  <2> QED
      BY <2>1, <2>2
<1>9. CASE n = 0 \/ n = task.left
    BY <1>1, <1>2, <1>3, <1>8, <1>9, DoneIsNoDownload, Moves
<1>10. CASE ~(n = 0 \/ n = task.left)
  <2>1. Go(t, reading) /\ at'[t] = reading
      BY <1>1, <1>10 DEF AppInv, Go
  <2>2. ASSUME Download(t)'
        PROVE  /\ DownloadInv(t)'
               /\ \A u \in Tasks : u # t => ~Download(u)
    <3>1. Download(t)
        BY <1>1, <1>4, <2>1, <2>2, SameRequest
    <3>2. HeadOf(at[t].response, at[t].stat)'
        BY <1>2, <1>4, <1>5, <2>1, <3>1 DEF HeadOf, Belongs
    <3>3. at'[t].left \in 1..at'[t].response.length
        BY <1>4, <1>5, <1>10, <2>1, <3>1
    <3>4. copy'.raced = FALSE => at'[t].inode = at'[t].stat
      <4>1. copy'.raced = copy.raced
          BY <1>1, <1>7
      <4> QED
          BY <1>1, <1>4, <1>5, <2>1, <3>1, <4>1 DEF DownloadInv
    <3>5. ASSUME RequestOf(t)'.method = "GET"
          PROVE  GoesOn(at[t])'
      <4>1. takes
          BY <1>4, <2>1, <3>1, <3>5 DEF RequestOf
      <4>2. Len(copy'.bytes) = at'[t].response.start + Sent(at'[t])
        <5>1. Sent(at'[t]) = response.length - (task.left - n)
            BY <1>4, <2>1 DEF Sent
        <5>2. Len(copy'.bytes) = from + n
            BY <1>6, <1>7, <4>1
        <5>3. response.start \in Nat /\ response.length \in Nat
              /\ task.left \in Nat /\ n \in Nat
            BY <1>5, <3>1
        <5>4. from + n = response.start + (response.length - (task.left - n))
            BY <5>3 DEF from
        <5>5. at'[t].response = response
            BY <1>4, <2>1
        <5> HIDE DEF response
        <5> QED
            BY <5>1, <5>2, <5>4, <5>5
      <4>3. FromFile(at[t].stat)'
          BY <1>4, <1>6, <1>7, <2>1, <4>1 DEF GoesOn, FromFile
      <4> QED
          BY <1>4, <1>6, <1>7, <2>1, <4>1, <4>2, <4>3 DEF GoesOn
    <3>6. DownloadInv(t)'
        BY <1>2, <1>4, <1>5, <2>1, <3>1, <3>2, <3>3, <3>4, <3>5 DEF DownloadInv
    <3> QED
        BY <3>1, <3>6, StillTheOnly
  <2> HIDE DEF reading
  <2> QED
      BY <1>2, <1>3, <1>4, <1>8, <2>1, <2>2, Moves
<1> QED
    BY <1>9, <1>10
-----------------------------------------------------------------------------
\* Nothing but the time and the files change, and what ETags belong to does
\* not.
LEMMA Elsewhere ==
    ASSUME AppInv, app' = app, at' = at, copy' = copy, DiskInv',
           DOMAIN disk \subseteq DOMAIN disk',
           app.mounts # {} =>
               \A m \in Nat, s \in Nat, n \in DOMAIN disk :
                   Belongs(<<m, s>>, n) => Belongs(<<m, s>>, n)'
    PROVE  AppInv'
<1>1. CopyInv'
  <2>1. ASSUME copy.etag # {}
        PROVE  /\ app'.mounts # {}
               /\ \E m \in Nat, n \in DOMAIN disk' :
                      /\ copy'.etag = {<<m, copy'.total>>}
                      /\ Belongs(<<m, copy.total>>, n)'
                      /\ FromFile(n)'
    <3>1. /\ app.mounts # {} /\ copy.total \in Nat
          /\ \E m \in Nat, n \in DOMAIN disk :
                 /\ copy.etag = {<<m, copy.total>>}
                 /\ Belongs(<<m, copy.total>>, n)
                 /\ FromFile(n)
        BY <2>1 DEF AppInv, CopyInv
    <3>2. PICK m \in Nat, n \in DOMAIN disk :
              /\ copy.etag = {<<m, copy.total>>}
              /\ Belongs(<<m, copy.total>>, n)
              /\ FromFile(n)
        BY <3>1
    <3>3. ASSUME NEW s \in Nat, s = copy.total
          PROVE  Belongs(<<m, s>>, n)'
        BY <3>1, <3>2, <3>3
    <3>4. FromFile(n)'
        BY <3>2 DEF FromFile
    <3>5. Belongs(<<m, copy.total>>, n)'
        BY <3>1, <3>3 DEF Belongs
    <3> QED
        BY <3>1, <3>2, <3>4, <3>5
  <2> QED
      BY <2>1 DEF AppInv, CopyInv
<1>2. ASSUME NEW t \in Tasks
      PROVE  TaskInv(t)'
  <2>1. Download(t)' = Download(t) /\ RequestOf(t)' = RequestOf(t)
      BY DEF Download, RequestOf
  <2>2. ASSUME Download(t)
        PROVE  DownloadInv(t)'
    <3>1. DownloadInv(t)
        BY <2>2 DEF AppInv, TaskInv
    <3>2. app.mounts # {} /\ HeadOf(at[t].response, at[t].stat) =>
              HeadOf(at[t].response, at[t].stat)'
      <4>1. SUFFICES ASSUME app.mounts # {}, HeadOf(at[t].response, at[t].stat)
                     PROVE  HeadOf(at[t].response, at[t].stat)'
          OBVIOUS
      <4>2. PICK m \in Nat, s \in Nat :
                /\ at[t].response.etag = {<<m, s>>}
                /\ at[t].stat \in DOMAIN disk
                /\ Belongs(<<m, s>>, at[t].stat)
                /\ \/ at[t].response.status = 200 /\ at[t].response.start = 0
                          /\ at[t].response.length = s
                   \/ /\ at[t].response.status = 206
                      /\ at[t].response.start \in Nat /\ at[t].response.length \in Nat
                      /\ at[t].response.start + at[t].response.length = s
                   \/ at[t].response.status \in {304, 416} /\ at[t].response.length = 0
          BY <4>1 DEF HeadOf
      <4>3. ASSUME NEW n \in DOMAIN disk, n = at[t].stat
            PROVE  Belongs(<<m, s>>, n)'
          BY <4>1, <4>2, <4>3
      <4>4. ASSUME NEW r, r = at[t].response, NEW n, n = at[t].stat
            PROVE  HeadOf(r, n)'
        <5>1. r.etag = {<<m, s>>} /\ n \in DOMAIN disk' /\ Belongs(<<m, s>>, n)'
            BY <4>2, <4>3, <4>4
        <5>2. \/ r.status = 200 /\ r.start = 0 /\ r.length = s
              \/ /\ r.status = 206
                 /\ r.start \in Nat /\ r.length \in Nat
                 /\ r.start + r.length = s
              \/ r.status \in {304, 416} /\ r.length = 0
            BY <4>2, <4>4
        <5> QED
            BY <5>1, <5>2 DEF HeadOf
      <4> QED
          BY <4>4
    <3>3. GoesOn(at[t]) => GoesOn(at[t])'
        BY DEF GoesOn, FromFile, Sent
    <3> QED
        BY <2>1, <3>1, <3>2, <3>3 DEF DownloadInv, Appends
  <2> QED
      BY <2>1, <2>2 DEF AppInv, TaskInv
<1>3. OneDownload'
    BY DEF AppInv, OneDownload, Download, RequestOf
<1> QED
    BY <1>1, <1>2, <1>3 DEF AppInv

LEMMA Ticks ==
    ASSUME AppInv, Tick
    PROVE  AppInv'
<1>1. /\ app' = app /\ at' = at /\ copy' = copy /\ disk' = disk
      /\ clock' \in {clock - 1, clock + 1} /\ clock' \in 1..app.horizon
      /\ clock' < clock => app.mounts = {}
    BY DEF Tick
<1>2. clock \in Nat /\ app.horizon \in Nat
    BY AppsAssumption DEF AppInv, DiskInv
<1>3. clock' \in Nat \ {0} /\ (app.mounts # {} => clock' = clock + 1)
    BY <1>1, <1>2
<1>4. app.mounts # {} => \A i \in DOMAIN disk' : disk'[i].mtime <= clock'
  <2>1. ASSUME app.mounts # {}, NEW i \in DOMAIN disk
        PROVE  disk[i].mtime <= clock'
    <3>1. disk[i].mtime <= clock /\ disk[i].mtime \in Nat
        BY <2>1, DiskHolds DEF AppInv, DiskInv
    <3> QED
        BY <1>2, <1>3, <2>1, <3>1
  <2> QED
      BY <1>1, <2>1
<1>5. DiskInv'
    BY <1>1, <1>3, <1>4 DEF AppInv, DiskInv
<1>6. ASSUME app.mounts # {}, NEW m \in Nat, NEW s \in Nat, NEW n \in DOMAIN disk,
             Belongs(<<m, s>>, n)
      PROVE  Belongs(<<m, s>>, n)'
  <2>1. m <= clock /\ \A i \in DOMAIN disk : Etag(disk[i]) = <<m, s>> => i = n
      BY <1>6 DEF Belongs
  <2>2. m <= clock' /\ m # clock'
      BY <1>2, <1>3, <1>6, <2>1
  <2> QED
      BY <1>1, <2>1, <2>2 DEF Belongs
<1> QED
    BY <1>1, <1>5, <1>6, Elsewhere

\* Another file has the name, or the one that had it is another now: of this
\* second and with an ETag no other has, unless there is none.
LEMMA FileChanges ==
    ASSUME AppInv, app' = app, at' = at, copy' = copy, clock' = clock,
           NEW k \in Nat, NEW file,
           file.mtime \in Nat, file.size \in Int,
           disk' \in Seq([mtime : Nat, size : Int]), disk' # <<>>,
           DOMAIN disk' = DOMAIN disk \union {k},
           disk'[k] = file,
           \A i \in DOMAIN disk : i # k => disk'[i] = disk[i],
           k \in DOMAIN disk => disk[k].mtime < clock,
           \/ file = Missing
           \/ /\ file.mtime = clock /\ file.size \in Nat
              /\ \A i \in DOMAIN disk : Etag(disk[i]) # Etag(file)
    PROVE  AppInv'
<1> USE DEF Etag
<1>1. /\ clock \in Nat \ {0} /\ app \in Apps
      /\ app.mounts # {} => \A i \in DOMAIN disk : disk[i].mtime <= clock
      /\ \A i \in DOMAIN disk : disk[i] = Missing \/ disk[i].size \in Nat
      /\ \A i, j \in DOMAIN disk :
             disk[i] # Missing /\ Etag(disk[i]) = Etag(disk[j]) => i = j
    BY DEF AppInv, DiskInv
<1>2. Missing.mtime = 0 /\ Missing.size = -1
    BY DEF Missing
<1>3. file.mtime <= clock /\ (file = Missing \/ file.size \in Nat)
    BY <1>1, <1>2
<1>4. app.mounts # {} => \A i \in DOMAIN disk' : disk'[i].mtime <= clock
    BY <1>1, <1>3
<1>5. \A i \in DOMAIN disk' : disk'[i] = Missing \/ disk'[i].size \in Nat
    BY <1>1, <1>3
<1>6. ASSUME NEW i \in DOMAIN disk', NEW j \in DOMAIN disk',
             disk'[i] # Missing, Etag(disk'[i]) = Etag(disk'[j])
      PROVE  i = j
  <2>1. CASE i # k /\ j # k
      BY <1>1, <1>6, <2>1
  <2>2. CASE i = k /\ j # k
      BY <1>6, <2>2
  <2>3. CASE i # k /\ j = k
    <3>1. disk'[i] = disk[i] /\ i \in DOMAIN disk /\ disk'[j] = file
        BY <2>3
    <3>2. CASE file = Missing
      <4>1. disk[i].size \in Nat
          BY <1>1, <1>6, <3>1
      <4>2. disk[i].size = file.size
          BY <1>6, <3>1
      <4> QED
          BY <1>2, <3>2, <4>1, <4>2
    <3>3. CASE file # Missing
        BY <1>6, <3>1, <3>3
    <3> QED
        BY <3>2, <3>3
  <2> QED
      BY <2>1, <2>2, <2>3
<1>7. DiskInv'
    BY <1>1, <1>4, <1>5, <1>6 DEF DiskInv
<1>8. ASSUME NEW m \in Nat, NEW s \in Nat, NEW n \in DOMAIN disk,
             Belongs(<<m, s>>, n)
      PROVE  Belongs(<<m, s>>, n)'
  <2>1. /\ m <= clock
        /\ \A i \in DOMAIN disk : Etag(disk[i]) = <<m, s>> => i = n
        /\ m = clock => Etag(disk[n]) = <<m, s>>
      BY <1>8 DEF Belongs
  <2>2. m = clock => n # k /\ Etag(disk'[n]) = <<m, s>>
    <3>1. SUFFICES ASSUME m = clock
                   PROVE  n # k /\ Etag(disk'[n]) = <<m, s>>
        OBVIOUS
    <3>2. disk[n].mtime = clock
        BY <2>1, <3>1
    <3>3. n # k
        BY <1>1, <3>2
    <3> QED
        BY <2>1, <3>1, <3>3
  <2>3. Etag(file) # <<m, s>>
    <3>1. CASE file = Missing
        BY <1>2, <3>1
    <3>2. CASE file # Missing
      <4>1. file.mtime = clock /\ \A i \in DOMAIN disk : Etag(disk[i]) # Etag(file)
          BY <3>2
      <4>2. CASE m = clock
          BY <2>1, <4>1, <4>2
      <4>3. CASE m # clock
          BY <4>1, <4>3
      <4> QED
          BY <4>2, <4>3
    <3> QED
        BY <3>1, <3>2
  <2>4. ASSUME NEW i \in DOMAIN disk', Etag(disk'[i]) = <<m, s>>
        PROVE  i = n
      BY <2>1, <2>3, <2>4
  <2> QED
      BY <2>1, <2>2, <2>4 DEF Belongs
<1> QED
    BY <1>7, <1>8, Elsewhere

LEMMA Rewrites ==
    ASSUME AppInv, Rewrite
    PROVE  AppInv'
<1>1. /\ app' = app /\ at' = at /\ copy' = copy /\ clock' = clock
    BY DEF Rewrite
<1> DEFINE Stat == [mtime : Nat, size : Int]
<1>2. PICK size \in app.sizes :
          LET file == [mtime |-> clock, size |-> size]
          IN  /\ \A i \in DOMAIN disk : Etag(disk[i]) # Etag(file)
              /\ \/ disk' = Append(disk, file)
                 \/ /\ size < File.size /\ clock > File.mtime
                    /\ disk' = [disk EXCEPT ![Len(disk)] = file]
    BY DEF Rewrite
<1> DEFINE file == [mtime |-> clock, size |-> size]
<1>3. clock \in Nat /\ disk \in Seq(Stat) /\ disk # <<>> /\ size \in Nat
    BY <1>2, AppsAssumption DEF AppInv, DiskInv
<1>4. /\ file \in Stat /\ file.mtime = clock /\ file.size \in Nat /\ file.mtime \in Nat
      /\ \A i \in DOMAIN disk : Etag(disk[i]) # Etag(file)
      /\ \/ disk' = Append(disk, file)
         \/ clock > File.mtime /\ disk' = [disk EXCEPT ![Len(disk)] = file]
    BY <1>2, <1>3
<1> HIDE DEF file
<1>5. CASE disk' = Append(disk, file)
  <2> DEFINE k == Len(disk) + 1
  <2> HIDE DEF Stat
  <2>1. /\ disk' \in Seq(Stat) /\ disk' # <<>>
        /\ k \in Nat /\ DOMAIN disk' = DOMAIN disk \union {k} /\ disk'[k] = file
        /\ \A i \in DOMAIN disk : i # k => disk'[i] = disk[i]
        /\ k \notin DOMAIN disk
      BY <1>3, <1>4, <1>5, AppendProperties
  <2> HIDE DEF k
  <2> QED
      BY <1>1, <1>4, <2>1, FileChanges DEF Stat
<1>6. CASE clock > File.mtime /\ disk' = [disk EXCEPT ![Len(disk)] = file]
  <2> DEFINE k == Len(disk)
  <2> HIDE DEF Stat
  <2>1. k \in DOMAIN disk /\ k \in Nat /\ File = disk[k]
      BY <1>3 DEF File, Last
  <2>2. disk' \in Seq(Stat) /\ Len(disk') = Len(disk)
      BY <1>3, <1>4, <1>6, <2>1, ExceptSeq
  <2>3. /\ disk' # <<>>
        /\ DOMAIN disk' = DOMAIN disk \union {k} /\ disk'[k] = file
        /\ \A i \in DOMAIN disk : i # k => disk'[i] = disk[i]
      BY <1>3, <1>6, <2>1, <2>2
  <2>4. disk[k].mtime < clock
      BY <1>6, <2>1, <1>3, DiskHolds
  <2> HIDE DEF k
  <2> QED
      BY <1>1, <1>3, <1>4, <2>1, <2>2, <2>3, <2>4, FileChanges DEF Stat
<1> QED
    BY <1>4, <1>5, <1>6

LEMMA Unlinks ==
    ASSUME AppInv, Unlink
    PROVE  AppInv'
<1> DEFINE Stat == [mtime : Nat, size : Int]
           k == Len(disk) + 1
<1>1. /\ app' = app /\ at' = at /\ copy' = copy /\ clock' = clock
      /\ disk' = Append(disk, Missing)
    BY DEF Unlink
<1>2. disk \in Seq(Stat) /\ disk # <<>>
    BY DEF AppInv, DiskInv
<1>3. Missing \in Stat /\ Missing.mtime \in Nat /\ Missing.size \in Int
    BY DEF Missing
<1> HIDE DEF Stat
<1>4. /\ disk' \in Seq(Stat) /\ disk' # <<>>
      /\ k \in Nat /\ DOMAIN disk' = DOMAIN disk \union {k} /\ disk'[k] = Missing
      /\ \A i \in DOMAIN disk : i # k => disk'[i] = disk[i]
      /\ k \notin DOMAIN disk
    BY <1>1, <1>2, <1>3, AppendProperties
<1> HIDE DEF k
<1> QED
    BY <1>1, <1>3, <1>4, FileChanges DEF Stat
-----------------------------------------------------------------------------
LEMMA StartsWithout ==
    ASSUME Init
    PROVE  AppInv
<1>0. PICK size \in app.sizes : disk = <<[mtime |-> 1, size |-> size]>>
    BY DEF Init
<1>1. /\ app \in Apps /\ clock = 1 /\ size \in Nat
      /\ copy = NoCopy /\ at = [t \in Tasks |-> Idle]
    BY <1>0, AppsAssumption DEF Init
<1>2. DiskInv
  <2>1. disk \in Seq([mtime : Nat, size : Int]) /\ disk # <<>> /\ DOMAIN disk = {1}
        /\ disk[1].mtime = 1 /\ disk[1].size \in Nat
      BY <1>0, <1>1
  <2>2. \A i \in DOMAIN disk : i = 1
      BY <2>1
  <2>3. /\ \A i \in DOMAIN disk : disk[i].mtime <= clock /\ disk[i].size \in Nat
        /\ clock \in Nat \ {0}
      BY <1>1, <2>1, <2>2
  <2> QED
      BY <1>1, <2>1, <2>2, <2>3 DEF DiskInv
<1>3. CopyInv
  <2>1. <<>> \in Seq(Nat \X Nat) /\ Len(<<>>) = 0
      BY EmptySeq
  <2>2. /\ copy.raced = FALSE /\ copy.total = 0
        /\ copy.bytes = <<>> /\ copy.etag = {}
      BY <1>1 DEF NoCopy
  <2>3. DOMAIN copy = DOMAIN NoCopy /\ copy.raced \in BOOLEAN
      BY <1>1, <2>2
  <2>4. copy.bytes \in Seq(Nat \X Nat) /\ Len(copy.bytes) <= copy.total
      BY <2>1, <2>2
  <2> QED
      BY <2>2, <2>3, <2>4 DEF CopyInv
<1>4. ASSUME NEW t \in Tasks
      PROVE  TaskInv(t) /\ ~Download(t)
  <2>1. HasFields(Idle) /\ Fileless(Idle.response) /\ Idle.stage = "idle"
      BY DEF HasFields, Fileless, Idle, NoResponse
  <2> QED
      BY <1>1, <2>1 DEF TaskInv, Download
<1>5. OneDownload
    BY <1>4 DEF OneDownload
<1> QED
    BY <1>1, <1>2, <1>3, <1>4, <1>5 DEF AppInv

LEMMA StutterKeepsApp ==
    ASSUME AppInv, app' = app, clock' = clock, disk' = disk, copy' = copy, at' = at
    PROVE  AppInv'
<1>1. DiskInv'
    BY DEF AppInv, DiskInv
<1>2. \A m \in Nat, s \in Nat, n \in DOMAIN disk :
          Belongs(<<m, s>>, n) => Belongs(<<m, s>>, n)'
    BY DEF Belongs
<1> QED
    BY <1>1, <1>2, Elsewhere

\* Whatever the applications and their middlewares are, and however many
\* requests are on their way: what holds of files, tasks and the copy holds in
\* every state (app.py, staticfiles.py, response.py).
THEOREM AppInvariant == Spec => []AppInv
<1>1. Init => AppInv
    BY StartsWithout
<1>2. AppInv /\ [Next]_vars => AppInv'
  <2> SUFFICES ASSUME AppInv, [Next]_vars
               PROVE  AppInv'
      OBVIOUS
  <2>1. ASSUME NEW t \in Tasks, Ask(t) PROVE AppInv'
      BY <2>1, Asks
  <2>2. ASSUME NEW t \in Tasks, Bind(t) PROVE AppInv'
      BY <2>2, Binds
  <2>3. ASSUME NEW t \in Tasks, Handle(t) PROVE AppInv'
      BY <2>3, Handles
  <2>4. ASSUME NEW t \in Tasks, Deliver(t) PROVE AppInv'
      BY <2>4, Delivers
  <2>5. ASSUME NEW t \in Tasks, Open(t) PROVE AppInv'
      BY <2>5, Opens
  <2>6. ASSUME NEW t \in Tasks, Read(t) PROVE AppInv'
      BY <2>6, Reads
  <2>7. ASSUME NEW t \in Tasks, Cut(t) PROVE AppInv'
      BY <2>7, Cuts
  <2>8. CASE Tick
      BY <2>8, Ticks
  <2>9. CASE Rotate
      BY <2>9, StutterKeepsApp DEF Rotate
  <2>10. CASE Rewrite
      BY <2>10, Rewrites
  <2>11. CASE Unlink
      BY <2>11, Unlinks
  <2>12. CASE UNCHANGED vars
      BY <2>12, StutterKeepsApp DEF vars
  <2> QED
      BY <2>1, <2>2, <2>3, <2>4, <2>5, <2>6, <2>7, <2>8, <2>9, <2>10, <2>11, <2>12
         DEF Next
<1> QED
    BY <1>1, <1>2, PTL DEF Spec

\* However often a download is cut and taken up again while other files take
\* the name, the copy is one file without a gap, unless the file changed
\* between the stat() of its head and the open() of its body
\* (response.py:488).
THEOREM CopyIsOneFileHolds == Spec => []CopyIsOneFile
<1>1. AppInv => CopyIsOneFile
  <2> SUFFICES ASSUME AppInv, ~copy.raced
               PROVE  OneFileIn(copy)
      BY DEF CopyIsOneFile
  <2>1. copy.raced = FALSE /\ Len(copy.bytes) <= copy.total
      BY DEF AppInv, CopyInv
  <2>2. \E n \in DOMAIN disk : \A i \in DOMAIN copy.bytes : copy.bytes[i] = <<n, i>>
    <3>1. CASE copy.etag = {}
      <4>1. copy.bytes = <<>>
          BY <3>1 DEF AppInv, CopyInv
      <4>2. DOMAIN copy.bytes = {} /\ 1 \in DOMAIN disk
          BY <4>1 DEF AppInv, DiskInv
      <4> QED
          BY <4>2
    <3>2. CASE copy.etag # {}
      <4>1. \E n \in DOMAIN disk : FromFile(n)
          BY <3>2 DEF AppInv, CopyInv
      <4> QED
          BY <2>1, <4>1 DEF FromFile
    <3> QED
        BY <3>1, <3>2
  <2> QED
      BY <2>1, <2>2 DEF OneFileIn
<1> QED
    BY <1>1, AppInvariant, PTL
-----------------------------------------------------------------------------
(***************************************************************************)
(* The session.  The cookie the browser has is the one that goes with what *)
(* it was last told (SameJar); a request's session is what the browser was *)
(* told when it asked, with the deeds done so far, and knows whether there *)
(* were any (Holds); and a response brings a cookie just when it tells the *)
(* browser something new, the two again going together (Brings).  Keys and *)
(* the clock are looked at alike by both sides, whatever they are then.    *)
(***************************************************************************)
Life == Min({MaxAge, MaxReasonable})

SameJar(cookies, told) ==
    IF cookies = Absent THEN told = {}
    ELSE \E c \in cookies :
             /\ cookies = {c} /\ c.stamp \in Nat /\ c.key \in Nat \ {0}
             /\ told = {[data |-> c.data, from |-> c.stamp,
                         until |-> {c.stamp + Life}, key |-> c.key]}

Brings(cookie, returned) ==
    IF cookie = {} THEN returned = {}
    ELSE \E j \in cookie, m \in returned :
             cookie = {j} /\ returned = {m} /\ SameJar(j, m)

Holds(task) ==
    IF task.session = {} THEN task.owed = {}
    ELSE \E s \in task.session :
             /\ task.session = {s}
             /\ s.data = IF task.owed = {} THEN task.held ELSE Only(task.owed)
             /\ s.modified = IF task.owed = {} THEN FALSE ELSE TRUE

\* What is left to do ends, and touches a session only if there is one.
EndsWell(task) ==
    LET deeds == ToSet(app.routes[task.route].program)
    IN  /\ task.todo \in Seq(deeds) /\ task.todo # <<>>
        /\ Last(task.todo).do \in {"return", "raise"}
        /\ task.session = {} => \A deed \in deeds : deed.do \notin Touches

Fresh(task) == task.session = {} /\ task.owed = {} /\ task.returned = {}

SessionTask(task) ==
    /\ task.stage = "idle" => Fresh(task)
    /\ task.stage = "binding" => task.route \in DOMAIN app.routes /\ Holds(task)
    /\ task.stage = "handling" => Holds(task) /\ EndsWell(task)
    /\ task.stage = "answering" => Brings(task.response.cookie, task.returned)

SessionInv ==
    app.auth = "session" =>
        /\ keys \in Seq(Nat \ {0}) /\ keys # <<>>
        /\ SameJar(jar, mind)
        /\ \A t \in Tasks : SessionTask(at[t])
-----------------------------------------------------------------------------
LEMMA ErrorHasNoCookie ==
    ASSUME NEW exc, NEW local
    PROVE  ErrorResponse(exc, local).cookie = {}
<1>1. \/ ErrorResponse(exc, local) = Fallback(exc)
      \/ \E status : ErrorResponse(exc, local) = Plain(status)
    BY DEF ErrorResponse
<1>2. Fallback(exc).cookie = {} /\ \A status : Plain(status).cookie = {}
    BY DEF Fallback, Plain, NoResponse
<1> QED
    BY <1>1, <1>2

LEMMA PassesOrNoCookie ==
    ASSUME NEW response, NEW r, NEW depth
    PROVE  \/ Passes(response, r, depth) = response
           \/ Passes(response, r, depth).cookie = {}
<1>1. \/ Passes(response, r, depth) = response
      \/ Passes(response, r, depth) = ErrorResponse(Error("RuntimeError", 500), NoHandlers)
    BY DEF Passes
<1> QED
    BY <1>1, ErrorHasNoCookie

\* What tells the browser something does so on its way out, too, or is
\* replaced by what tells it nothing.
LEMMA AnswerBrings ==
    ASSUME NEW task, NEW response, HasFields(task),
           Brings(response.cookie, task.returned)
    PROVE  LET after == Answer(task, response)
           IN  after.stage = "answering" /\ Brings(after.response.cookie, after.returned)
<1> DEFINE r == Only(task.request)
           out == Passes(response, r, Len(Chain) + 1)
           returned == IF out = response THEN task.returned ELSE {}
<1>1. out = response \/ out.cookie = {}
    BY PassesOrNoCookie
<1>2. /\ Answer(task, response).stage = "answering"
      /\ Answer(task, response).response = out
      /\ Answer(task, response).returned = returned
  <2>1. Answer(task, response) =
          [task EXCEPT !.stage = "answering", !.response = out, !.todo = <<>>, !.session = {},
                       !.returned = IF out = response THEN @ ELSE {}]
      BY DEF Answer
  <2> HIDE DEF out
  <2> QED
      BY <2>1 DEF HasFields, Idle
<1> HIDE DEF out
<1>3. Brings(out.cookie, returned)
  <2>1. CASE out = response
      BY <2>1
  <2>2. CASE out # response
      BY <1>1, <2>2 DEF Brings
  <2> QED
      BY <2>1, <2>2
<1> QED
    BY <1>2, <1>3

LEMMA TellsNothing ==
    ASSUME NEW task, NEW response, HasFields(task),
           response.cookie = {}, task.returned = {}
    PROVE  LET after == Answer(task, response)
           IN  after.stage = "answering" /\ Brings(after.response.cookie, after.returned)
    BY AnswerBrings DEF Brings

LEMMA FailsBrings ==
    ASSUME NEW task, NEW exc, HasFields(task)
    PROVE  LET after == Fails(task, exc)
           IN  after.stage = "answering" /\ Brings(after.response.cookie, after.returned)
<1> DEFINE failed == [task EXCEPT !.cause = {exc}, !.returned = {}]
           response == ErrorResponse(exc, IF task.route = 0 THEN NoHandlers
                                          ELSE app.routes[task.route].errors)
<1>1. HasFields(failed) /\ failed.returned = {}
    BY DEF HasFields, Idle
<1>2. response.cookie = {}
    BY ErrorHasNoCookie
<1>3. Fails(task, exc) = Answer(failed, response)
    BY DEF Fails
<1> HIDE DEF failed, response
<1> QED
    BY <1>1, <1>2, <1>3, TellsNothing
-----------------------------------------------------------------------------
\* The cookie and what the browser was told are taken for valid alike.
LEMMA JarRemembers ==
    ASSUME keys \in Seq(Nat \ {0}), clock \in Nat, SameJar(jar, mind)
    PROVE  Load(keys, jar, clock).data = UNION {m.data : m \in Genuine}
<1>1. CASE jar = Absent
  <2>1. mind = {} /\ Genuine = {}
      BY <1>1 DEF SameJar, Genuine
  <2> QED
      BY <1>1, <2>1 DEF Load, NewSession
<1>2. CASE jar # Absent
  <2>1. PICK c \in jar :
            /\ jar = {c} /\ c.stamp \in Nat /\ c.key \in Nat \ {0}
            /\ mind = {[data |-> c.data, from |-> c.stamp,
                        until |-> {c.stamp + Life}, key |-> c.key]}
      BY <1>2 DEF SameJar
  <2> DEFINE m == [data |-> c.data, from |-> c.stamp, until |-> {c.stamp + Life}, key |-> c.key]
             valid == /\ m.key = 0 \/ Contains(keys, m.key)
                      /\ m.from <= clock /\ \A end \in m.until : clock <= end
  <2>2. Genuine = IF valid THEN {m} ELSE {}
      BY <2>1 DEF Genuine
  <2>3. MaxAge \in Nat /\ MaxReasonable \in Nat
      BY CredentialsAssumption
  <2>4. Life = IF MaxAge <= MaxReasonable THEN MaxAge ELSE MaxReasonable
      BY <2>3, LeastOfTwo DEF Life
  <2>5. CheckAge(c.stamp, clock)
            <=> m.from <= clock /\ \A end \in m.until : clock <= end
    <3>1. m.from = c.stamp /\ m.until = {c.stamp + Life}
        OBVIOUS
    <3> HIDE DEF m
    <3> QED
        BY <2>1, <2>3, <2>4, <3>1 DEF CheckAge
  <2>6. (\E i \in DOMAIN keys : keys[i] = c.key) <=> m.key = 0 \/ Contains(keys, m.key)
    <3>1. DOMAIN keys = 1..Len(keys) /\ m.key = c.key /\ c.key # 0
        BY <2>1
    <3> HIDE DEF m
    <3> QED
        BY <3>1 DEF Contains
  <2>7. Unsigns(keys, c, clock) <=> valid
      BY <2>5, <2>6 DEF Unsigns
  <2>8. m.data = c.data /\ Only(jar) = c
      BY <2>1, OnlyOne
  <2> HIDE DEF m, valid
  <2>9. Load(keys, jar, clock).data = IF valid THEN c.data ELSE {}
      BY <1>2, <2>7, <2>8 DEF Load, NewSession
  <2> QED
      BY <2>2, <2>8, <2>9
<1> QED
    BY <1>1, <1>2
-----------------------------------------------------------------------------
LEMMA HasAnswered ==
    ASSUME NEW task, task.stage = "answering", Brings(task.response.cookie, task.returned)
    PROVE  SessionTask(task)
    BY DEF SessionTask

LEMMA MountTellsNothing ==
    ASSUME NEW task, NEW mount, HasFields(task), task.returned = {}
    PROVE  SessionTask(Mounted(task, mount))
<1> DEFINE path == Only(task.request).path
           relative == SubSeq(path, Len(mount.prefix) + 1, Len(path))
           answer == FileResponse(File, Only(task.request).conditions)
           found == [task EXCEPT !.stat = Len(disk)]
           response == [Plain(answer.status) EXCEPT !.start = answer.start,
                            !.length = answer.length, !.etag = answer.etag]
<1>1. Mounted(task, mount) = IF mount.files THEN ServeFile(task, relative)
                             ELSE Answer(task, Plain(200))
    BY DEF Mounted
<1>2. \/ \E exc : ServeFile(task, relative) = Fails(task, exc)
      \/ ServeFile(task, relative) = Answer(found, response)
    BY DEF ServeFile
<1>3. HasFields(found) /\ found.returned = {}
    BY DEF HasFields, Idle
<1>4. response.cookie = {} /\ Plain(200).cookie = {}
    BY DEF Plain, NoResponse
<1> HIDE DEF relative, found, response
<1>5. SessionTask(Answer(task, Plain(200)))
    BY <1>4, TellsNothing, HasAnswered
<1>6. SessionTask(Answer(found, response))
    BY <1>3, <1>4, TellsNothing, HasAnswered
<1>7. \A exc : SessionTask(Fails(task, exc))
    BY FailsBrings, HasAnswered
<1> QED
    BY <1>1, <1>2, <1>5, <1>6, <1>7

\* What a request knows of its caller is what the browser was told.
LEMMA AuthenticateHolds ==
    ASSUME app.auth = "session", NEW task, NEW route, HasFields(task), Fresh(task),
           task.route \in DOMAIN app.routes,
           Load(keys, jar, clock).data = task.held
    PROVE  SessionTask(Authenticate(task, route))
<1> DEFINE session == Load(keys, jar, clock)
           known == [task EXCEPT !.identity = Identity(task), !.session = Session(task)]
           bound == [known EXCEPT !.stage = "binding"]
<1>1. Session(task) = {session} /\ session.modified = FALSE
    BY DEF Session, Load, NewSession
<1>2. /\ HasFields(known)
      /\ bound.stage = "binding" /\ bound.route = task.route /\ bound.session = {session}
      /\ bound.owed = {} /\ bound.held = task.held
    BY <1>1 DEF HasFields, Idle, Fresh
<1>3. \/ \E exc : Authenticate(task, route) = Fails(task, exc)
      \/ \E exc : Authenticate(task, route) = Fails(known, exc)
      \/ Authenticate(task, route) = bound
    BY DEF Authenticate
<1> HIDE DEF session, known, bound
<1>4. SessionTask(bound)
  <2>1. Holds(bound)
      BY <1>1, <1>2 DEF Holds, session
  <2> QED
      BY <1>2, <2>1 DEF SessionTask
<1>5. \A exc : SessionTask(Fails(task, exc)) /\ SessionTask(Fails(known, exc))
    BY <1>2, FailsBrings, HasAnswered
<1> QED
    BY <1>3, <1>4, <1>5

\* What the router finds are routes, whatever its search makes of them.
LEMMA FoundAreRoutes ==
    ASSUME NEW path, NEW method
    PROVE  EndpointFor(Resolve(app.routes, path), method) \subseteq DOMAIN app.routes
<1>1. Resolve(app.routes, path) \subseteq DOMAIN app.routes
    BY DEF Resolve, StaticAt, TreeAt
<1> QED
    BY <1>1 DEF EndpointFor, ForMethod

LEMMA DispatchHolds ==
    ASSUME app.auth = "session", NEW task, HasFields(task), Fresh(task),
           Load(keys, jar, clock).data = task.held
    PROVE  SessionTask(Dispatch(task))
<1> DEFINE r == Only(task.request)
           found == Resolve(app.routes, r.path)
           endpoint == EndpointFor(found, r.method)
           chosen == [task EXCEPT !.route = Only(endpoint)]
           bound == [chosen EXCEPT !.stage = "binding"]
<1>1. \/ \E mount : Dispatch(task) = Mounted(task, mount)
      \/ \E exc : Dispatch(task) = Fails(task, exc)
      \/ endpoint # {} /\ \E route : Dispatch(task) = Authenticate(chosen, route)
      \/ endpoint # {} /\ Dispatch(task) = bound
  <2>1. CASE MountOf(r.path) # {}
      BY <2>1 DEF Dispatch
  <2>2. CASE MountOf(r.path) = {} /\ found = {}
      BY <2>2 DEF Dispatch
  <2>3. CASE MountOf(r.path) = {} /\ found # {} /\ endpoint = {}
      BY <2>3 DEF Dispatch
  <2>4. CASE MountOf(r.path) = {} /\ found # {} /\ endpoint # {}
      BY <2>4 DEF Dispatch
  <2> QED
      BY <2>1, <2>2, <2>3, <2>4
<1>2. endpoint # {} => Only(endpoint) \in DOMAIN app.routes
    BY FoundAreRoutes DEF Only
<1>3. /\ HasFields(chosen) /\ Fresh(chosen) /\ chosen.held = task.held
      /\ chosen.route = Only(endpoint)
      /\ bound.stage = "binding" /\ bound.route = Only(endpoint)
      /\ bound.session = {} /\ bound.owed = {}
    BY DEF HasFields, Idle, Fresh
<1> HIDE DEF chosen, bound, endpoint, found
<1>4. CASE \E mount : Dispatch(task) = Mounted(task, mount)
    BY <1>4, MountTellsNothing DEF Fresh
<1>5. CASE \E exc : Dispatch(task) = Fails(task, exc)
    BY <1>5, FailsBrings, HasAnswered
<1>6. CASE endpoint # {} /\ \E route : Dispatch(task) = Authenticate(chosen, route)
    BY <1>2, <1>3, <1>6, AuthenticateHolds
<1>7. CASE endpoint # {} /\ Dispatch(task) = bound
    BY <1>2, <1>3, <1>7 DEF SessionTask, Holds
<1> QED
    BY <1>1, <1>4, <1>5, <1>6, <1>7
-----------------------------------------------------------------------------
\* A step of one task that leaves cookie, keys and clock alone.
LEMMA TaskSteps ==
    ASSUME AppInv, SessionInv, app.auth = "session", NEW t \in Tasks, NEW after, Go(t, after),
           SessionTask(after), app' = app, keys' = keys, SameJar(jar', mind')
    PROVE  SessionInv'
<1>1. at'[t] = after /\ \A u \in Tasks : u # t => at'[u] = at[u]
    BY DEF AppInv, Go
<1>2. ASSUME NEW u \in Tasks
      PROVE  SessionTask(at[u])'
  <2>1. CASE u = t
      BY <1>1, <2>1 DEF SessionTask, EndsWell
  <2>2. CASE u # t
      BY <1>1, <2>2 DEF SessionInv, SessionTask, EndsWell
  <2> QED
      BY <2>1, <2>2
<1> QED
    BY <1>2 DEF SessionInv, SameJar

LEMMA AskHolds ==
    ASSUME AppInv, SessionInv, app.auth = "session", NEW t \in Tasks, Ask(t)
    PROVE  SessionInv'
<1>1. PICK r \in app.offers[t] :
        LET asked == [at[t] EXCEPT !.request = {[r EXCEPT !.conditions = Conditions(r)]},
                                   !.held = UNION {m.data : m \in Genuine}]
            stop == Min(Stops(r))
        IN  /\ at[t].stage = "idle"
            /\ Go(t, CASE Stops(r) = {} -> Dispatch(asked)
                       [] Stops(r) # {} /\ Chain[stop].kind = "cors" ->
                              [asked EXCEPT !.stage = "answering",
                                            !.response = Passes(Plain(204), r, stop)]
                       [] OTHER ->
                              [asked EXCEPT !.stage = "answering", !.response =
                                   ErrorResponse(HTTPError(403), NoHandlers)])
            /\ UNCHANGED <<app, clock, keys, disk, jar, bearer, copy, mind>>
    BY DEF Ask
<1> DEFINE asked == [at[t] EXCEPT !.request = {[r EXCEPT !.conditions = Conditions(r)]},
                                  !.held = UNION {m.data : m \in Genuine}]
           stop == Min(Stops(r))
           passed == Passes(Plain(204), r, stop)
           error == ErrorResponse(HTTPError(403), NoHandlers)
           preflight == [asked EXCEPT !.stage = "answering", !.response = passed]
           refused == [asked EXCEPT !.stage = "answering", !.response = error]
<1>2. /\ UNCHANGED <<app, clock, keys, disk, jar, bearer, copy, mind>>
      /\ \/ Go(t, Dispatch(asked)) \/ Go(t, preflight) \/ Go(t, refused)
    BY <1>1
<1>3. Fresh(at[t]) /\ HasFields(at[t])
    BY <1>1 DEF AppInv, TaskInv, SessionInv, SessionTask
<1>4. /\ HasFields(asked) /\ Fresh(asked)
      /\ asked.held = UNION {m.data : m \in Genuine}
    BY <1>3 DEF HasFields, Idle, Fresh
<1>5. passed.cookie = {} /\ error.cookie = {}
    BY PassesOrNoCookie, ErrorHasNoCookie DEF Plain, NoResponse
<1> HIDE DEF asked, passed, error
<1>6. /\ preflight.stage = "answering" /\ preflight.response = passed /\ preflight.returned = {}
      /\ refused.stage = "answering" /\ refused.response = error /\ refused.returned = {}
    BY <1>4 DEF HasFields, Idle, Fresh
<1> HIDE DEF preflight, refused
<1>7. SessionTask(preflight) /\ SessionTask(refused)
    BY <1>5, <1>6, HasAnswered DEF Brings
<1>8. Load(keys, jar, clock).data = asked.held
    BY <1>4, JarRemembers DEF SessionInv, AppInv, DiskInv
<1>9. SessionTask(Dispatch(asked))
    BY <1>4, <1>8, DispatchHolds
<1>10. SameJar(jar', mind')
    BY <1>2 DEF SessionInv
<1> QED
    BY <1>2, <1>7, <1>9, <1>10, TaskSteps
-----------------------------------------------------------------------------
\* Who asks for a session that there is not is refused.
LEMMA NoneWithout ==
    ASSUME NEW task, NEW S, app.routes[task.route].binder \in Seq(S),
           NEW j \in DOMAIN app.routes[task.route].binder,
           app.routes[task.route].binder[j].kind = "session", task.session = {}
    PROVE  Build(task) # {}
<1> DEFINE binder == app.routes[task.route].binder
           raising == {i \in DOMAIN binder : Raises(binder[i], task) # {}}
<1>1. Raises(binder[j], task) # {}
    BY DEF Raises
<1>2. raising # {} /\ raising \subseteq Nat
  <2>1. DOMAIN binder \subseteq Nat /\ j \in DOMAIN binder
      OBVIOUS
  <2> HIDE DEF binder
  <2> QED
      BY <1>1, <2>1 DEF binder
<1>3. Min(raising) \in raising
    BY <1>2, Least
<1>4. Build(task) = Raises(binder[Min(raising)], task)
    BY <1>2 DEF Build
<1> QED
    BY <1>3, <1>4

LEMMA BindHolds ==
    ASSUME AppInv, SessionInv, app.auth = "session", NEW t \in Tasks, Bind(t)
    PROVE  SessionInv'
<1> DEFINE program == RouteOf(t).program
           running == [at[t] EXCEPT !.stage = "handling", !.ran = TRUE, !.todo = program]
<1>1. /\ at[t].stage = "binding"
      /\ UNCHANGED <<app, clock, keys, disk, jar, bearer, copy, mind>>
      /\ \/ \E exc : Go(t, Fails(at[t], exc))
         \/ Build(at[t]) = {} /\ Go(t, running)
    BY DEF Bind
<1>2. HasFields(at[t]) /\ Holds(at[t]) /\ at[t].route \in DOMAIN app.routes
    BY <1>1 DEF AppInv, TaskInv, SessionInv, SessionTask
<1>3. SameJar(jar', mind')
    BY <1>1 DEF SessionInv
<1>4. CASE \E exc : Go(t, Fails(at[t], exc))
    BY <1>1, <1>2, <1>3, <1>4, FailsBrings, HasAnswered, TaskSteps
<1>5. CASE Build(at[t]) = {} /\ Go(t, running)
  <2>1. /\ program \in Seq(ToSet(program)) /\ program # <<>>
        /\ Last(program).do \in {"return", "raise"}
        /\ RouteOf(t).binder \in Seq(ToSet(RouteOf(t).binder))
        /\ (\E deed \in ToSet(program) : deed.do \in Touches) =>
               \E j \in DOMAIN RouteOf(t).binder : RouteOf(t).binder[j].kind = "session"
      BY <1>2, HandlersAssumption DEF AppInv, DiskInv, RouteOf
  <2>2. at[t].session = {} => \A deed \in ToSet(program) : deed.do \notin Touches
      BY <1>5, <2>1, NoneWithout DEF RouteOf
  <2>3. /\ running.stage = "handling" /\ running.todo = program
        /\ running.session = at[t].session /\ running.owed = at[t].owed
        /\ running.held = at[t].held /\ running.route = at[t].route
      BY <1>2 DEF HasFields, Idle
  <2>4. program = app.routes[running.route].program
      BY <2>3 DEF RouteOf
  <2> HIDE DEF running, program
  <2>5. Holds(running)
      BY <1>2, <2>3 DEF Holds
  <2>6. EndsWell(running)
      BY <2>1, <2>2, <2>3, <2>4 DEF EndsWell
  <2>7. SessionTask(running)
      BY <2>3, <2>5, <2>6 DEF SessionTask
  <2> QED
      BY <1>1, <1>3, <1>5, <2>7, TaskSteps
<1> QED
    BY <1>1, <1>4, <1>5
-----------------------------------------------------------------------------
\* A deed does to the session what it does to what the browser is told.
LEMMA TouchRetells ==
    ASSUME NEW s, NEW task, NEW deed, deed.do \in Touches,
           s.data = IF task.owed = {} THEN task.held ELSE Only(task.owed),
           deed.do = "drop" => Lookup(s.data, deed.key) # {}
    PROVE  Touch(s, deed).data = Retold(task, deed) /\ Touch(s, deed).modified = TRUE
<1>1. CASE deed.do = "put"
    BY <1>1 DEF Touch, Retold, SetItem, Without
<1>2. CASE deed.do = "drop"
    BY <1>2 DEF Touch, Retold, DelItem, Without, Absent
<1>3. CASE deed.do = "logout"
    BY <1>3 DEF Touch, Retold, Logout, Clear
<1>4. CASE deed.do = "login"
  <2> DEFINE d == s.data
             once == {i \in d : i[1] # "user"} \union {<<"user", deed.user>>}
             twice == {i \in once : i[1] # "roles"} \union {<<"roles", deed.roles>>}
  <2>1. Touch(s, deed).data = twice /\ Touch(s, deed).modified = TRUE
      BY <1>4 DEF Touch, Login, SetItem, Without
  <2>2. Retold(task, deed) =
            {i \in d : i[1] \notin {"user", "roles"}}
                \union {<<"user", deed.user>>, <<"roles", deed.roles>>}
      BY <1>4 DEF Retold
  <2>3. <<"user", deed.user>>[1] = "user" /\ <<"roles", deed.roles>>[1] = "roles"
      OBVIOUS
  <2>4. twice = {i \in d : i[1] \notin {"user", "roles"}}
                    \union {<<"user", deed.user>>, <<"roles", deed.roles>>}
      BY <2>3
  <2> QED
      BY <2>1, <2>2, <2>4
<1> QED
    BY <1>1, <1>2, <1>3, <1>4 DEF Touches

\* What is left after a deed that is not the last one.
LEMMA RestEndsWell ==
    ASSUME NEW D, NEW todo \in Seq(D), todo # <<>>, Last(todo).do \in {"return", "raise"}
    PROVE  /\ Head(todo) \in D
           /\ Head(todo).do \notin {"return", "raise"} =>
                  /\ Tail(todo) \in Seq(D) /\ Tail(todo) # <<>>
                  /\ Last(Tail(todo)).do \in {"return", "raise"}
<1>1. /\ Head(todo) \in D /\ Tail(todo) \in Seq(D) /\ Len(Tail(todo)) = Len(todo) - 1
      /\ \A i \in 1..Len(Tail(todo)) : Tail(todo)[i] = todo[i + 1]
    BY HeadTailProperties
<1>2. Len(todo) \in Nat \ {0} /\ Head(todo) = todo[1] /\ Last(todo) = todo[Len(todo)]
    BY DEF Last
<1> DEFINE rest == Tail(todo)
<1> HIDE DEF rest
<1>3. ASSUME Head(todo).do \notin {"return", "raise"}
      PROVE  rest # <<>> /\ Last(rest) = Last(todo)
  <2>1. Len(todo) # 1
      BY <1>2, <1>3
  <2>2. Len(rest) \in Nat \ {0} /\ Len(rest) + 1 = Len(todo)
      BY <1>1, <1>2, <2>1 DEF rest
  <2>3. rest[Len(rest)] = todo[Len(todo)]
      BY <1>1, <2>2 DEF rest
  <2> QED
      BY <1>2, <2>2, <2>3, EmptySeq DEF Last
<1> QED
    BY <1>1, <1>3 DEF rest

\* A handler that returns saves what it tells.
LEMMA ReturnBrings ==
    ASSUME app.auth = "session", keys \in Seq(Nat \ {0}), keys # <<>>, clock \in Nat,
           NEW task, NEW response, HasFields(task), Holds(task),
           DOMAIN response = DOMAIN NoResponse
    PROVE  Brings(FinishAuth(task, response).cookie, Told(task))
<1> DEFINE s == Only(task.session)
           cookie == IF task.session = {} THEN {} ELSE Save(keys, s, clock)
<1>1. FinishAuth(task, response).cookie = cookie
    BY DEF FinishAuth, NoResponse
<1>2. CASE task.owed = {}
  <2>1. Told(task) = {}
      BY <1>2 DEF Told
  <2>2. task.session # {} => s.modified = FALSE
      BY <1>2, OnlyOne DEF Holds
  <2>3. cookie = {}
      BY <2>2 DEF Save
  <2> QED
      BY <1>1, <2>1, <2>3 DEF Brings
<1>3. CASE task.owed # {}
  <2> DEFINE data == Only(task.owed)
             told == [data |-> data, from |-> clock, until |-> {clock + Life}, key |-> keys[1]]
             signed == [data |-> data, stamp |-> clock, key |-> keys[1]]
  <2>1. task.session # {} /\ s.modified = TRUE /\ s.data = data
      BY <1>3, OnlyOne DEF Holds
  <2>2. Told(task) = {IF data = {} THEN {} ELSE {told}}
      BY <1>3 DEF Told, Life
  <2>3. cookie = IF data = {} THEN {Absent} ELSE {{signed}}
      BY <2>1 DEF Save, Sign
  <2>4. keys[1] \in Nat \ {0}
      BY ElementOfSeq
  <2>5. SameJar({signed}, {told})
      BY <2>4 DEF SameJar, Absent
  <2>6. SameJar(Absent, {})
      BY DEF SameJar
  <2> HIDE DEF data, told, signed, cookie
  <2>7. CASE data = {}
      BY <1>1, <2>2, <2>3, <2>6, <2>7 DEF Brings
  <2>8. CASE data # {}
      BY <1>1, <2>2, <2>3, <2>5, <2>8 DEF Brings
  <2> QED
      BY <2>7, <2>8
<1> QED
    BY <1>2, <1>3

LEMMA HandleHolds ==
    ASSUME AppInv, SessionInv, app.auth = "session", NEW t \in Tasks, Handle(t)
    PROVE  SessionInv'
<1> DEFINE task == at[t]
           deed == Head(task.todo)
           deeds == ToSet(app.routes[task.route].program)
           goesOn == [task EXCEPT !.todo = Tail(@)]
           session == Only(task.session)
           touched == [goesOn EXCEPT !.session = {Touch(session, deed)},
                                     !.owed = {Retold(task, deed)}]
           made == [MakeResponse(deed.result, RouteOf(t).status)
                        EXCEPT !.token = task.response.token]
           told == [task EXCEPT !.returned = Told(task)]
           issued(token) == [goesOn EXCEPT !.issued = {Memory(deed)}, !.response.token = token]
<1>1. /\ task.stage = "handling"
      /\ UNCHANGED <<app, clock, keys, disk, jar, bearer, copy, mind>>
      /\ \/ \E exc : Go(t, Fails(task, exc))
         \/ /\ deed.do \in Touches
            /\ deed.do = "drop" => Lookup(session.data, deed.key) # {}
            /\ Go(t, touched)
         \/ deed.do = "issue" /\ \E token : Go(t, issued(token))
         \/ Go(t, Answer(told, FinishAuth(task, made)))
    BY DEF Handle
<1>2. HasFields(task) /\ Holds(task) /\ EndsWell(task)
    BY <1>1 DEF AppInv, TaskInv, SessionInv, SessionTask
<1>3. SameJar(jar', mind')
    BY <1>1 DEF SessionInv
<1>4. /\ deed \in deeds
      /\ task.session = {} => \A d \in deeds : d.do \notin Touches
      /\ deed.do \notin {"return", "raise"} =>
             /\ Tail(task.todo) \in Seq(deeds) /\ Tail(task.todo) # <<>>
             /\ Last(Tail(task.todo)).do \in {"return", "raise"}
  <2> DEFINE todo == task.todo
  <2>1. /\ todo \in Seq(deeds) /\ todo # <<>> /\ Last(todo).do \in {"return", "raise"}
        /\ task.session = {} => \A d \in deeds : d.do \notin Touches
      BY <1>2 DEF EndsWell
  <2> HIDE DEF todo, deeds
  <2> QED
      BY <2>1, RestEndsWell DEF todo
<1>5. /\ HasFields(goesOn) /\ goesOn.stage = "handling" /\ goesOn.todo = Tail(task.todo)
      /\ goesOn.session = task.session /\ goesOn.owed = task.owed
      /\ goesOn.held = task.held /\ goesOn.route = task.route
    BY <1>1, <1>2 DEF HasFields, Idle
<1> HIDE DEF goesOn
<1>6. ASSUME NEW after, Go(t, after), Holds(after), deed.do \notin {"return", "raise"},
             after.stage = "handling", after.todo = goesOn.todo, after.route = task.route,
             after.session = {} => task.session = {}
      PROVE  SessionInv'
  <2>1. EndsWell(after)
      BY <1>4, <1>5, <1>6 DEF EndsWell
  <2>2. SessionTask(after)
      BY <1>6, <2>1 DEF SessionTask
  <2> QED
      BY <1>1, <1>3, <1>6, <2>2, TaskSteps
<1>7. CASE \E exc : Go(t, Fails(task, exc))
    BY <1>1, <1>2, <1>3, <1>7, FailsBrings, HasAnswered, TaskSteps
<1>8. CASE /\ deed.do \in Touches
           /\ deed.do = "drop" => Lookup(session.data, deed.key) # {}
           /\ Go(t, touched)
  <2> DEFINE now == Touch(session, deed)
             owed == Retold(task, deed)
  <2>1. task.session # {}
      BY <1>4, <1>8
  <2>2. session.data = IF task.owed = {} THEN task.held ELSE Only(task.owed)
      BY <1>2, <2>1, OnlyOne DEF Holds
  <2>3. now.data = owed /\ now.modified = TRUE
      BY <1>8, <2>2, TouchRetells
  <2>4. touched = [goesOn EXCEPT !.session = {now}, !.owed = {owed}]
      OBVIOUS
  <2> HIDE DEF now, owed, touched
  <2>5. /\ touched.session = {now} /\ touched.owed = {owed}
        /\ touched.stage = "handling" /\ touched.todo = goesOn.todo
        /\ touched.route = task.route
      BY <1>5, <2>4 DEF HasFields, Idle
  <2>6. Holds(touched)
      BY <2>3, <2>5, OnlyOne DEF Holds
  <2>7. deed.do \notin {"return", "raise"}
      BY <1>8 DEF Touches
  <2> QED
      BY <1>6, <1>8, <2>5, <2>6, <2>7
<1>9. ASSUME deed.do = "issue", NEW token, Go(t, issued(token))
      PROVE  SessionInv'
  <2> DEFINE after == issued(token)
  <2>1. /\ after.stage = "handling" /\ after.todo = goesOn.todo /\ after.route = task.route
        /\ after.session = task.session /\ after.owed = task.owed /\ after.held = task.held
      BY <1>5 DEF HasFields, Idle
  <2>2. Go(t, after)
      BY <1>9
  <2> HIDE DEF after
  <2>3. Holds(after)
      BY <1>2, <2>1 DEF Holds
  <2> QED
      BY <1>6, <1>9, <2>1, <2>2, <2>3
<1>10. CASE Go(t, Answer(told, FinishAuth(task, made)))
  <2>1. DOMAIN made = DOMAIN NoResponse
      BY MadeHasNoFile DEF NoResponse
  <2>2. HasFields(told) /\ told.returned = Told(task)
      BY <1>2 DEF HasFields, Idle
  <2> DEFINE finished == FinishAuth(task, made)
  <2> HIDE DEF made, told
  <2>3. keys \in Seq(Nat \ {0}) /\ keys # <<>> /\ clock \in Nat
      BY DEF SessionInv, AppInv, DiskInv
  <2>4. Brings(finished.cookie, Told(task))
      BY <1>2, <2>1, <2>3, ReturnBrings
  <2> HIDE DEF finished
  <2>5. SessionTask(Answer(told, finished))
      BY <2>2, <2>4, AnswerBrings, HasAnswered
  <2> QED
      BY <1>1, <1>3, <1>10, <2>5, TaskSteps DEF finished
<1> QED
    BY <1>1, <1>7, <1>8, <1>9, <1>10

LEMMA DeliverHolds ==
    ASSUME AppInv, SessionInv, app.auth = "session", NEW t \in Tasks, Deliver(t)
    PROVE  SessionInv'
<1> DEFINE response == at[t].response
           after == IF HasFile(response) THEN [at[t] EXCEPT !.stage = "opening"] ELSE Done
<1>1. /\ at[t].stage = "answering" /\ Go(t, after)
      /\ jar' = IF response.cookie = {} THEN jar ELSE Only(response.cookie)
      /\ mind' = IF at[t].returned = {} THEN mind ELSE Only(at[t].returned)
      /\ app' = app /\ keys' = keys
    BY DEF Deliver
<1>2. HasFields(at[t]) /\ Brings(response.cookie, at[t].returned) /\ SameJar(jar, mind)
    BY <1>1 DEF AppInv, TaskInv, SessionInv, SessionTask
<1>3. SameJar(jar', mind')
  <2>1. CASE response.cookie = {}
      BY <1>1, <1>2, <2>1 DEF Brings
  <2>2. CASE response.cookie # {}
    <3>1. PICK j \in response.cookie, m \in at[t].returned :
              response.cookie = {j} /\ at[t].returned = {m} /\ SameJar(j, m)
        BY <1>2, <2>2 DEF Brings
    <3>2. Only(response.cookie) = j /\ Only(at[t].returned) = m
        BY <3>1, OnlyOne
    <3>3. jar' = j /\ mind' = m
        BY <1>1, <3>1, <3>2
    <3> QED
        BY <3>1, <3>3
  <2> QED
      BY <2>1, <2>2
<1>4. after.stage \in {"opening", "done"}
    BY <1>2 DEF HasFields, Done, Idle
<1> HIDE DEF after
<1>5. SessionTask(after)
    BY <1>4 DEF SessionTask
<1> QED
    BY <1>1, <1>3, <1>5, TaskSteps

\* While a file is sent, and when the connection is lost.
LEMMA SendsOn ==
    ASSUME AppInv, NEW t \in Tasks, Open(t) \/ Read(t) \/ Cut(t)
    PROVE  \E after : Go(t, after) /\ after.stage \in {"done", "reading"}
<1>1. HasFields(at[t]) /\ Done.stage = "done"
    BY DEF AppInv, TaskInv, Done, Idle
<1>2. CASE Open(t)
  <2> DEFINE opened == [at[t] EXCEPT !.stage = "reading", !.inode = Len(disk),
                                     !.left = at[t].response.length]
  <2>1. Go(t, Done) \/ Go(t, opened)
      BY <1>2 DEF Open
  <2>2. opened.stage = "reading"
      BY <1>1 DEF HasFields, Idle
  <2> HIDE DEF opened
  <2> QED
      BY <1>1, <2>1, <2>2
<1>3. CASE Read(t)
  <2> DEFINE less(n) == [at[t] EXCEPT !.left = @ - n]
  <2>1. at[t].stage = "reading" /\ (Go(t, Done) \/ \E n : Go(t, less(n)))
      BY <1>3 DEF Read
  <2>2. \A n : less(n).stage = "reading"
      BY <1>1, <2>1 DEF HasFields, Idle
  <2> HIDE DEF less
  <2> QED
      BY <1>1, <2>1, <2>2
<1>4. CASE Cut(t)
    BY <1>1, <1>4 DEF Cut
<1> QED
    BY <1>2, <1>3, <1>4

\* While a file is sent, and when the connection is lost, nothing is told.
LEMMA SendingHolds ==
    ASSUME AppInv, SessionInv, app.auth = "session", NEW t \in Tasks,
           Open(t) \/ Read(t) \/ Cut(t)
    PROVE  SessionInv'
<1>1. UNCHANGED <<app, keys, jar, mind>>
    BY DEF Open, Read, Cut
<1>2. PICK after : Go(t, after) /\ after.stage \in {"done", "reading"}
    BY SendsOn
<1>3. SessionTask(after)
    BY <1>2 DEF SessionTask
<1>4. SameJar(jar', mind')
    BY <1>1 DEF SessionInv
<1> QED
    BY <1>1, <1>2, <1>3, <1>4, TaskSteps

LEMMA OthersHold ==
    ASSUME SessionInv, app' = app, at' = at, jar' = jar, mind' = mind,
           (keys' \in Seq(Nat \ {0}) /\ keys' # <<>>) \/ keys' = keys
    PROVE  SessionInv'
<1>1. \A t \in Tasks : SessionTask(at[t]) => SessionTask(at[t])'
    BY DEF SessionTask, EndsWell
<1>2. SameJar(jar, mind) => SameJar(jar', mind')
    OBVIOUS
<1> QED
    BY <1>1, <1>2 DEF SessionInv, SameJar

LEMMA SessionStarts ==
    ASSUME Init
    PROVE  SessionInv
<1>1. keys = <<1>> /\ jar = Absent /\ mind = {} /\ at = [t \in Tasks |-> Idle]
    BY DEF Init
<1>2. \A t \in Tasks : SessionTask(at[t])
  <2>1. Idle.stage = "idle" /\ Fresh(Idle)
      BY DEF Fresh, Idle
  <2> QED
      BY <1>1, <2>1 DEF SessionTask
<1>3. keys \in Seq(Nat \ {0}) /\ keys # <<>>
    BY <1>1
<1>4. SameJar(jar, mind)
    BY <1>1 DEF SameJar
<1> QED
    BY <1>2, <1>3, <1>4 DEF SessionInv

\* However many requests of a browser overlap, secrets are rotated, time passes
\* in either direction and responses are lost, for all applications: the session
\* it presents is what it was last told (session.py:71).
THEOREM SessionRemembersHolds == Spec => []SessionRemembers
<1>1. Init => SessionInv
    BY SessionStarts
<1>2. AppInv /\ SessionInv /\ [Next]_vars => SessionInv'
  <2> SUFFICES ASSUME AppInv, SessionInv, [Next]_vars
               PROVE  SessionInv'
      OBVIOUS
  <2>1. app' = app
      BY DEF Next, vars, Ask, Bind, Handle, Deliver, Open, Read, Cut, Tick, Rotate,
             Rewrite, Unlink
  <2>2. CASE app.auth # "session"
      BY <2>1, <2>2 DEF SessionInv
  <2>3. CASE app.auth = "session"
    <3>1. ASSUME NEW t \in Tasks, Ask(t) PROVE SessionInv'
        BY <2>3, <3>1, AskHolds
    <3>2. ASSUME NEW t \in Tasks, Bind(t) PROVE SessionInv'
        BY <2>3, <3>2, BindHolds
    <3>3. ASSUME NEW t \in Tasks, Handle(t) PROVE SessionInv'
        BY <2>3, <3>3, HandleHolds
    <3>4. ASSUME NEW t \in Tasks, Deliver(t) PROVE SessionInv'
        BY <2>3, <3>4, DeliverHolds
    <3>5. ASSUME NEW t \in Tasks, Open(t) \/ Read(t) \/ Cut(t) PROVE SessionInv'
        BY <2>3, <3>5, SendingHolds
    <3>6. CASE Rotate
      <4>1. keys' = <<keys[1] + 1, keys[1]>> /\ UNCHANGED <<app, jar, at, mind>>
          BY <3>6 DEF Rotate
      <4>2. keys[1] \in Nat \ {0}
          BY <2>3, ElementOfSeq DEF SessionInv
      <4>3. keys' \in Seq(Nat \ {0}) /\ keys' # <<>>
          BY <4>1, <4>2
      <4> QED
          BY <4>1, <4>3, OthersHold
    <3>7. CASE Tick \/ Rewrite \/ Unlink \/ UNCHANGED vars
        BY <3>7, OthersHold DEF Tick, Rewrite, Unlink, vars
    <3> QED
        BY <3>1, <3>2, <3>3, <3>4, <3>5, <3>6, <3>7 DEF Next
  <2> QED
      BY <2>2, <2>3
<1>3. AppInv /\ SessionInv => SessionRemembers
  <2> SUFFICES ASSUME AppInv, SessionInv, app.auth = "session"
               PROVE  Load(keys, jar, clock).data = UNION {m.data : m \in Genuine}
      BY DEF SessionRemembers
  <2> QED
      BY JarRemembers DEF SessionInv, AppInv, DiskInv
<1> QED
    BY <1>1, <1>2, <1>3, AppInvariant, PTL DEF Spec
-----------------------------------------------------------------------------
(***************************************************************************)
(* RangesAsNamed.  What a request is about, which its steps leave alone    *)
(* (CaseInv), is shared with the two properties that follow.               *)
(***************************************************************************)
\* The offsets that _parse_range() answers are the ones a range names.
LEMMA OffsetsAreNamed ==
    ASSUME NEW range, IsRange({range}), range.single, range.first \union range.last # {},
           NEW size \in Nat
    PROVE  \E part : /\ ParseRange({range}, size) = {part}
                     /\ part = Nothing => NamedBy(range, size) = {}
                     /\ part # Nothing => /\ part.start \in Nat /\ part.end \in Nat
                                          /\ part.start..part.end = NamedBy(range, size)
<1> DEFINE start == IF range.first = {} THEN Max({size - Max(range.last), 0})
                    ELSE Max(range.first)
           end == IF range.first = {} \/ range.last = {} THEN size - 1 ELSE Max(range.last)
           none == \/ range.first = {} /\ (Max(range.last) <= 0 \/ size = 0)
                   \/ start >= size \/ start > end
           part == IF none THEN Nothing ELSE [start |-> start, end |-> Clip(end, size)]
<1>1. ParseRange({range}, size) = {part}
  <2> DEFINE offsets(r) ==
                 LET s == IF r.first = {} THEN Max({size - Max(r.last), 0}) ELSE Max(r.first)
                     e == IF r.first = {} \/ r.last = {} THEN size - 1 ELSE Max(r.last)
                 IN  IF \/ r.first = {} /\ (Max(r.last) <= 0 \/ size = 0)
                        \/ s >= size \/ s > e
                     THEN Nothing ELSE [start |-> s, end |-> Clip(e, size)]
  <2>1. ParseRange({range}, size) =
            {offsets(r) : r \in {r \in {range} : r.single /\ r.first \union r.last # {}}}
      BY DEF ParseRange
  <2>2. {r \in {range} : r.single /\ r.first \union r.last # {}} = {range}
      OBVIOUS
  <2>3. offsets(range) = part
      OBVIOUS
  <2> HIDE DEF offsets, part
  <2> QED
      BY <2>1, <2>2, <2>3
<1>2. /\ range.first # {} => \E a \in Nat : range.first = {a} /\ Max(range.first) = a
      /\ range.last # {} => \E b \in Nat : range.last = {b} /\ Max(range.last) = b
  <2>1. /\ range.first \subseteq Nat /\ range.last \subseteq Nat
        /\ AtMostOne(range.first) /\ AtMostOne(range.last)
      BY DEF IsRange
  <2>2. ASSUME NEW S \in SUBSET Nat, AtMostOne(S), S # {}
        PROVE  \E a \in Nat : S = {a} /\ Max(S) = a
    <3>1. PICK a \in S : S = {a}
        BY <2>2 DEF AtMostOne
    <3> QED
        BY <3>1, MaxOfOne
  <2> QED
      BY <2>1, <2>2
<1>3. \A k \in Int : Max({k, 0}) = IF k >= 0 THEN k ELSE 0
    BY DEF Max
<1>4. \A e \in Int : Clip(e, size) = IF e <= size - 1 THEN e ELSE size - 1
    BY LeastOfTwo DEF Clip
<1>5. CASE range.first = {}
  <2>1. PICK b \in Nat : range.last = {b} /\ Max(range.last) = b
      BY <1>2, <1>5
  <2>2. start = (IF size - b >= 0 THEN size - b ELSE 0) /\ end = size - 1
      BY <1>3, <1>5, <2>1
  <2>3. none <=> b = 0 \/ size = 0
      BY <1>5, <2>1, <2>2
  <2>4. NamedBy(range, size) = {o \in 0..(size - 1) : o >= size - b}
      BY <1>5, <2>1 DEF NamedBy
  <2>5. CASE none
    <3>1. part = Nothing
        BY <2>5
    <3>2. NamedBy(range, size) = {}
        BY <2>3, <2>4, <2>5
    <3> QED
        BY <1>1, <3>1, <3>2
  <2>6. CASE ~none
    <3>1. part.start = start /\ part.end = size - 1 /\ part # Nothing
      <4>1. Clip(end, size) = size - 1 /\ size - 1 # -1
          BY <1>4, <2>2, <2>3, <2>6
      <4>2. part = [start |-> start, end |-> size - 1]
          BY <2>6, <4>1
      <4> QED
          BY <4>1, <4>2 DEF Nothing
    <3> HIDE DEF part, start, end, none
    <3>2. start..(size - 1) = NamedBy(range, size)
        BY <2>2, <2>3, <2>4, <2>6
    <3> QED
      <4>1. size - 1 \in Nat /\ start \in Nat
          BY <2>2, <2>3, <2>6
      <4> QED
          BY <1>1, <3>1, <3>2, <4>1
  <2> QED
      BY <2>5, <2>6
<1>6. CASE range.first # {}
  <2>1. PICK a \in Nat : range.first = {a} /\ Max(range.first) = a
      BY <1>2, <1>6
  <2>2. start = a /\ end \in Int
      BY <1>2, <1>6, <2>1
  <2>3. none <=> a >= size \/ a > end
      BY <1>6, <2>2
  <2>4. NamedBy(range, size) = {o \in 0..(size - 1) : a <= o /\ o <= end}
    <3>1. \A o \in 0..(size - 1) : (\A n \in range.last : o <= n) <=> o <= end
        BY <1>2, <1>6
    <3> QED
        BY <1>6, <2>1, <3>1 DEF NamedBy
  <2>5. CASE none
    <3>1. part = Nothing
        BY <2>5
    <3> HIDE DEF part, none, end, start
    <3>2. NamedBy(range, size) = {}
        BY <2>2, <2>3, <2>4, <2>5
    <3> QED
        BY <1>1, <3>1, <3>2
  <2>6. CASE ~none
    <3>1. /\ Clip(end, size) = IF end <= size - 1 THEN end ELSE size - 1
          /\ part = [start |-> a, end |-> Clip(end, size)]
        BY <1>4, <2>2, <2>6
    <3> HIDE DEF part, none, end, start
    <3>2. part.start = a /\ part.end = Clip(end, size) /\ part.end >= a
        BY <2>2, <2>3, <2>6, <3>1
    <3>3. a..part.end = NamedBy(range, size)
        BY <2>2, <2>4, <3>1, <3>2
    <3>4. part # Nothing /\ part.end \in Nat
        BY <2>2, <3>1, <3>2 DEF Nothing
    <3> QED
        BY <1>1, <3>2, <3>3, <3>4
  <2> QED
      BY <2>5, <2>6
<1> QED
    BY <1>5, <1>6

LEMMA RangeAnswer ==
    ASSUME NEW stat, stat.size \in Nat, NEW conditions, IsRange(conditions.range),
           NEW range \in conditions.range
    PROVE  LET answer == FileResponse(stat, conditions)
           IN  answer.etag = {Etag(stat)} /\ AsNamed(answer, range, stat.size)
<1> DEFINE size == stat.size
           answer == FileResponse(stat, conditions)
           whole == [status |-> 200, start |-> 0, length |-> size, etag |-> {Etag(stat)}]
<1>1. conditions.range = {range} /\ IsRange({range}) /\ size \in Nat
  <2>1. conditions.range = {range}
      BY DEF IsRange, AtMostOne
  <2> QED
      BY <2>1
<1>2. CASE IsFresh(conditions, stat)
  <2>1. answer = [whole EXCEPT !.status = 304, !.length = 0]
      BY <1>2 DEF FileResponse
  <2> QED
      BY <2>1 DEF AsNamed
<1>3. CASE ~IsFresh(conditions, stat) /\ ~(range.single /\ range.first \union range.last # {})
  <2>1. ParseRange({range}, size) = {}
      BY <1>3 DEF ParseRange
  <2>2. answer = whole
      BY <1>1, <1>3, <2>1 DEF FileResponse
  <2> QED
      BY <2>2 DEF AsNamed
<1>4. CASE ~IsFresh(conditions, stat) /\ range.single /\ range.first \union range.last # {}
  <2>1. PICK part : /\ ParseRange({range}, size) = {part}
                    /\ part = Nothing => NamedBy(range, size) = {}
                    /\ part # Nothing => /\ part.start \in Nat /\ part.end \in Nat
                                         /\ part.start..part.end = NamedBy(range, size)
    <3> HIDE DEF size
    <3> QED
        BY <1>1, <1>4, OffsetsAreNamed
  <2>2. \/ answer = whole
        \/ part = Nothing /\ answer = [whole EXCEPT !.status = 416, !.length = 0]
        \/ /\ part # Nothing
           /\ answer = [whole EXCEPT !.status = 206, !.start = part.start,
                                     !.length = part.end - part.start + 1]
    <3>1. ParseRange(conditions.range, stat.size) = {part}
        BY <1>1, <2>1
    <3>2. {part} # {} /\ (CHOOSE r \in {part} : TRUE) = part
        OBVIOUS
    <3>3. answer = CASE part = Nothing -> [whole EXCEPT !.status = 416, !.length = 0]
                     [] part # Nothing /\ ~RangeApplies(conditions, stat) -> whole
                     [] OTHER -> [whole EXCEPT !.status = 206, !.start = part.start,
                                               !.length = part.end - part.start + 1]
        BY <1>4, <3>1, <3>2 DEF FileResponse
    <3> HIDE DEF answer, whole
    <3> QED
        BY <3>3
  <2> HIDE DEF answer
  <2>3. ASSUME answer = whole PROVE answer.etag = {Etag(stat)} /\ AsNamed(answer, range, size)
      BY <2>3 DEF AsNamed
  <2>4. ASSUME part = Nothing, answer = [whole EXCEPT !.status = 416, !.length = 0]
        PROVE  answer.etag = {Etag(stat)} /\ AsNamed(answer, range, size)
      BY <2>1, <2>4 DEF AsNamed
  <2>5. ASSUME part # Nothing,
               answer = [whole EXCEPT !.status = 206, !.start = part.start,
                                      !.length = part.end - part.start + 1]
        PROVE  answer.etag = {Etag(stat)} /\ AsNamed(answer, range, size)
    <3>1. /\ answer.start = part.start /\ answer.length = part.end - part.start + 1
          /\ answer.status = 206 /\ answer.etag = {Etag(stat)}
        BY <2>5
    <3>2. answer.start + answer.length - 1 = part.end
        BY <2>1, <2>5, <3>1
    <3> QED
        BY <2>1, <2>5, <3>1, <3>2 DEF AsNamed
  <2> QED
      BY <2>2, <2>3, <2>4, <2>5 DEF answer
<1> QED
    BY <1>2, <1>3, <1>4

\* What a request is about, which the steps behind its dispatch leave alone.
SameCase(after, task) ==
    /\ after.request = task.request /\ after.route = task.route
    /\ after.held = task.held /\ after.ran = task.ran

\* Nothing has been decided yet; and a handler runs only while it is handling.
Undecided(task) == task.cause = {} /\ task.ran = FALSE
CaseTask(task) ==
    /\ task.stage \in {"idle", "binding"} => Undecided(task)
    /\ task.stage = "handling" => task.ran = TRUE
CaseInv == \A t \in Tasks : CaseTask(at[t])

Disconnected == Error("ClientDisconnected", 400)

\* What a step of a request that was asked leaves of it: nothing, the response
\* on its way, a handler that runs or is done with, or a refusal.
Refused(after, task, exc) ==
    /\ after.stage = "answering" /\ SameCase(after, task)
    /\ after.cause = {exc} /\ after.response.etag = {}
Runs(after, task) ==
    /\ task.stage = "binding" /\ Build(task) = {}
    /\ after.stage = "handling" /\ after.ran = TRUE
    /\ after.request = task.request /\ after.route = task.route /\ after.held = task.held
    /\ after.response.etag = {}
Handled(after, task) ==
    /\ task.stage = "handling" /\ after.stage \in {"handling", "answering"}
    /\ SameCase(after, task) /\ after.response.etag = {}
Sending(after, task) ==
    /\ after.stage \in {"opening", "reading"} /\ SameCase(after, task)
    /\ after.cause = task.cause /\ after.response = task.response
Moved(after, task) ==
    \/ after = Done
    \/ Sending(after, task)
    \/ Runs(after, task)
    \/ Handled(after, task)
    \/ /\ task.stage = "binding"
       /\ \E exc \in Build(task) \union {Disconnected} : Refused(after, task, exc)

LEMMA AnswerKeeps ==
    ASSUME NEW task, NEW response, HasFields(task)
    PROVE  LET after == Answer(task, response)
           IN  after.stage = "answering" /\ SameCase(after, task) /\ after.cause = task.cause
<1> DEFINE out == Passes(response, Only(task.request), Len(Chain) + 1)
<1>1. Answer(task, response) =
        [task EXCEPT !.stage = "answering", !.response = out, !.todo = <<>>, !.session = {},
                     !.returned = IF out = response THEN @ ELSE {}]
    BY DEF Answer
<1> HIDE DEF out
<1> QED
    BY <1>1 DEF HasFields, Idle, SameCase

LEMMA FailsRefuses ==
    ASSUME NEW task, NEW exc, HasFields(task)
    PROVE  Refused(Fails(task, exc), task, exc)
<1> DEFINE failed == [task EXCEPT !.cause = {exc}, !.returned = {}]
           response == ErrorResponse(exc, IF task.route = 0 THEN NoHandlers
                                          ELSE app.routes[task.route].errors)
<1>1. HasFields(failed) /\ SameCase(failed, task) /\ failed.cause = {exc}
    BY DEF HasFields, Idle, SameCase
<1>2. Fails(task, exc) = Answer(failed, response)
    BY DEF Fails
<1> HIDE DEF failed, response
<1>3. LET after == Answer(failed, response)
      IN  /\ after.stage = "answering" /\ SameCase(after, failed)
          /\ after.cause = failed.cause
    BY <1>1, AnswerKeeps
<1>4. Fails(task, exc).response.etag = {}
    BY Failing DEF Answered, Fileless
<1> QED
    BY <1>1, <1>2, <1>3, <1>4 DEF Refused, SameCase

LEMMA BindMoves ==
    ASSUME AppInv, CaseInv, NEW t \in Tasks, Bind(t)
    PROVE  \E after : Go(t, after) /\ app' = app /\ CaseTask(after) /\ Moved(after, at[t])
<1> DEFINE task == at[t]
           running == [task EXCEPT !.stage = "handling", !.ran = TRUE,
                                   !.todo = RouteOf(t).program]
<1>1. /\ task.stage = "binding" /\ app' = app
      /\ \/ Build(task) # {} /\ Go(t, Fails(task, Only(Build(task))))
         \/ Build(task) = {} /\ Go(t, running)
         \/ Go(t, Fails(task, Disconnected))
    BY DEF Bind, Disconnected
<1>2. HasFields(task) /\ task.response.etag = {}
    BY <1>1 DEF AppInv, TaskInv, Fileless
<1>3. ASSUME NEW exc \in Build(task) \union {Disconnected}, Go(t, Fails(task, exc))
      PROVE  \E after : Go(t, after) /\ CaseTask(after) /\ Moved(after, task)
  <2>1. Refused(Fails(task, exc), task, exc)
      BY <1>2, FailsRefuses
  <2> QED
      BY <1>1, <1>3, <2>1 DEF Refused, CaseTask, Moved
<1>4. CASE Build(task) = {} /\ Go(t, running)
  <2>1. Runs(running, task)
      BY <1>1, <1>2, <1>4 DEF HasFields, Idle, Runs
  <2> HIDE DEF running
  <2> QED
      BY <1>1, <1>4, <2>1 DEF Runs, CaseTask, Moved
<1>5. Build(task) # {} => Only(Build(task)) \in Build(task)
    BY DEF Only
<1> QED
    BY <1>1, <1>3, <1>4, <1>5

LEMMA HandleMoves ==
    ASSUME AppInv, CaseInv, NEW t \in Tasks, Handle(t)
    PROVE  \E after : Go(t, after) /\ app' = app /\ CaseTask(after) /\ Moved(after, at[t])
<1> DEFINE task == at[t]
           deed == Head(task.todo)
           goesOn == [task EXCEPT !.todo = Tail(@)]
           touched == [goesOn EXCEPT !.session = {Touch(Only(task.session), deed)},
                                     !.owed = {Retold(task, deed)}]
           issued(token) == [goesOn EXCEPT !.issued = {Memory(deed)}, !.response.token = token]
           made == [MakeResponse(deed.result, RouteOf(t).status)
                        EXCEPT !.token = task.response.token]
           told == [task EXCEPT !.returned = Told(task)]
           finished == FinishAuth(task, made)
<1>1. /\ task.stage = "handling" /\ app' = app
      /\ \/ \E exc : Go(t, Fails(task, exc))
         \/ Go(t, touched)
         \/ \E token : Go(t, issued(token))
         \/ Go(t, Answer(told, finished))
    BY DEF Handle
<1>2. HasFields(task) /\ task.response.etag = {} /\ task.ran = TRUE
    BY <1>1 DEF AppInv, TaskInv, Fileless, CaseInv, CaseTask
<1>3. ASSUME NEW after, Go(t, after), Handled(after, task)
      PROVE  \E x : Go(t, x) /\ CaseTask(x) /\ Moved(x, task)
    BY <1>2, <1>3 DEF Handled, CaseTask, Moved, SameCase
<1>4. ASSUME NEW exc, Go(t, Fails(task, exc))
      PROVE  \E x : Go(t, x) /\ CaseTask(x) /\ Moved(x, task)
  <2>1. Refused(Fails(task, exc), task, exc)
      BY <1>2, FailsRefuses
  <2>2. Handled(Fails(task, exc), task)
      BY <1>1, <2>1 DEF Refused, Handled
  <2> QED
      BY <1>3, <1>4, <2>2
<1>5. CASE Go(t, touched)
  <2>1. HasFields(goesOn) /\ SameCase(goesOn, task) /\ goesOn.stage = "handling"
        /\ goesOn.response = task.response
      BY <1>1, <1>2 DEF HasFields, Idle, SameCase
  <2> HIDE DEF goesOn
  <2>2. Handled(touched, task)
      BY <1>1, <1>2, <2>1 DEF HasFields, Idle, Handled, SameCase
  <2> HIDE DEF touched
  <2> QED
      BY <1>1, <1>3, <1>5, <2>2
<1>6. ASSUME NEW token, Go(t, issued(token))
      PROVE  \E x : Go(t, x) /\ CaseTask(x) /\ Moved(x, task)
  <2>1. HasFields(goesOn) /\ SameCase(goesOn, task) /\ goesOn.stage = "handling"
        /\ goesOn.response = task.response
      BY <1>1, <1>2 DEF HasFields, Idle, SameCase
  <2> HIDE DEF goesOn
  <2>2. Handled(issued(token), task)
      BY <1>1, <1>2, <2>1 DEF HasFields, Idle, NoResponse, Handled, SameCase
  <2> HIDE DEF issued
  <2> QED
      BY <1>3, <1>6, <2>2
<1>7. CASE Go(t, Answer(told, finished))
  <2>1. HasFields(told) /\ SameCase(told, task)
      BY <1>2 DEF HasFields, Idle, SameCase
  <2>2. DOMAIN made = DOMAIN NoResponse /\ Fileless(made)
      BY MadeHasNoFile DEF NoResponse, Fileless
  <2>3. DOMAIN finished = DOMAIN NoResponse /\ Fileless(finished)
    <3> HIDE DEF made
    <3> QED
        BY <2>2 DEF FinishAuth, NoResponse, Fileless
  <2> HIDE DEF told, finished, made
  <2>4. Answered(Answer(told, finished), told)
      BY <2>1, <2>3, AnsweringWithout
  <2>5. SameCase(Answer(told, finished), told)
      BY <2>1, AnswerKeeps
  <2>6. Handled(Answer(told, finished), task)
      BY <1>1, <2>1, <2>4, <2>5 DEF Answered, Fileless, Handled, SameCase
  <2> QED
      BY <1>1, <1>3, <1>7, <2>6
<1> QED
    BY <1>1, <1>4, <1>5, <1>6, <1>7

LEMMA SendMoves ==
    ASSUME AppInv, CaseInv, NEW t \in Tasks, Deliver(t) \/ Open(t) \/ Read(t) \/ Cut(t)
    PROVE  \E after : Go(t, after) /\ app' = app /\ CaseTask(after) /\ Moved(after, at[t])
<1> DEFINE opening == [at[t] EXCEPT !.stage = "opening"]
           opened == [at[t] EXCEPT !.stage = "reading", !.inode = Len(disk),
                                   !.left = at[t].response.length]
           less(n) == [at[t] EXCEPT !.left = @ - n]
<1>1. /\ app' = app
      /\ \/ Go(t, Done)
         \/ Go(t, opening)
         \/ Go(t, opened)
         \/ at[t].stage = "reading" /\ \E n : Go(t, less(n))
    BY DEF Deliver, Open, Read, Cut
<1>2. HasFields(at[t])
    BY DEF AppInv, TaskInv
<1>3. CaseTask(Done)
    BY DEF CaseTask, Done, Idle
<1>4. Sending(opening, at[t]) /\ Sending(opened, at[t])
    BY <1>2 DEF HasFields, Idle, Sending, SameCase
<1>5. at[t].stage = "reading" => \A n : Sending(less(n), at[t])
    BY <1>2 DEF HasFields, Idle, Sending, SameCase
<1> HIDE DEF opening, opened, less
<1>6. \A after : Sending(after, at[t]) => CaseTask(after) /\ Moved(after, at[t])
    BY DEF Sending, CaseTask, Moved
<1> QED
    BY <1>1, <1>3, <1>4, <1>5, <1>6 DEF Moved

\* What the browser asks, and that it is dispatched or answered by a layer.
Asked(t, r, asked, after) ==
    /\ Go(t, after) /\ app' = app
    /\ asked = [at[t] EXCEPT !.request = {[r EXCEPT !.conditions = Conditions(r)]},
                             !.held = UNION {m.data : m \in Genuine}]
    /\ HasFields(asked) /\ Undecided(asked) /\ asked.stage = "idle"
    /\ asked.response.etag = {} /\ Fileless(asked.response)
    /\ asked.request = {[r EXCEPT !.conditions = Conditions(r)]}
    /\ asked.held = UNION {m.data : m \in Genuine}
    /\ \/ after = Dispatch(asked)
       \/ /\ after.stage = "answering" /\ SameCase(after, asked)
          /\ after.cause = {} /\ after.response.etag = {}

LEMMA AskMoves ==
    ASSUME AppInv, CaseInv, NEW t \in Tasks, Ask(t)
    PROVE  \E r \in app.offers[t] : \E asked, after : Asked(t, r, asked, after)
<1>1. PICK r \in app.offers[t] :
        LET asked == [at[t] EXCEPT !.request = {[r EXCEPT !.conditions = Conditions(r)]},
                                   !.held = UNION {m.data : m \in Genuine}]
            stop == Min(Stops(r))
        IN  /\ at[t].stage = "idle"
            /\ Go(t, CASE Stops(r) = {} -> Dispatch(asked)
                       [] Stops(r) # {} /\ Chain[stop].kind = "cors" ->
                              [asked EXCEPT !.stage = "answering",
                                            !.response = Passes(Plain(204), r, stop)]
                       [] OTHER ->
                              [asked EXCEPT !.stage = "answering", !.response =
                                   ErrorResponse(HTTPError(403), NoHandlers)])
            /\ UNCHANGED <<app, clock, keys, disk, jar, bearer, copy, mind>>
    BY DEF Ask
<1> DEFINE now == [r EXCEPT !.conditions = Conditions(r)]
           held == UNION {m.data : m \in Genuine}
           asked == [at[t] EXCEPT !.request = {now}, !.held = held]
           stop == Min(Stops(r))
           passed == Passes(Plain(204), r, stop)
           error == ErrorResponse(HTTPError(403), NoHandlers)
           preflight == [asked EXCEPT !.stage = "answering", !.response = passed]
           refused == [asked EXCEPT !.stage = "answering", !.response = error]
<1>2. /\ app' = app
      /\ \/ Go(t, Dispatch(asked)) \/ Go(t, preflight) \/ Go(t, refused)
    BY <1>1
<1>3. /\ HasFields(at[t]) /\ Undecided(at[t]) /\ at[t].stage = "idle"
      /\ Fileless(at[t].response)
    BY <1>1 DEF AppInv, TaskInv, CaseInv, CaseTask
<1> HIDE DEF now, held, passed, error
<1>4. /\ HasFields(asked) /\ Undecided(asked) /\ asked.stage = "idle"
      /\ asked.request = {now} /\ asked.held = held
      /\ asked.response.etag = {} /\ Fileless(asked.response)
    BY <1>3 DEF HasFields, Idle, Undecided, Fileless
<1>5. passed.etag = {} /\ error.etag = {}
    BY PassesOrError, PlainHasNoFile, ErrorHasNoFile DEF passed, error, Fileless
<1>6. asked = [at[t] EXCEPT !.request = {now}, !.held = held]
    OBVIOUS
<1> HIDE DEF asked
<1>7. \A after \in {preflight, refused} :
          /\ after.stage = "answering" /\ SameCase(after, asked)
          /\ after.cause = {} /\ after.response.etag = {}
    BY <1>4, <1>5 DEF HasFields, Idle, Undecided, SameCase
<1> HIDE DEF preflight, refused
<1>8. \E after : /\ Go(t, after)
                 /\ \/ after = Dispatch(asked)
                    \/ /\ after.stage = "answering" /\ SameCase(after, asked)
                       /\ after.cause = {} /\ after.response.etag = {}
    BY <1>2, <1>7
<1> QED
    BY <1>2, <1>4, <1>6, <1>8 DEF now, held, Asked

-----------------------------------------------------------------------------
\* The strategy lets a request wait for its body, or refuses it.
Verdict(after, task, route) ==
    LET refused == app.auth = "jwt" /\ TokenRefused(bearer, clock)
        identity == Identity(task)
        check == IF route.guard.needed THEN Check(route.guard, identity) ELSE ""
    IN  \/ app.auth = "none" /\ Refused(after, task, Error("RuntimeError", 500))
        \/ refused /\ Refused(after, task, Unauthenticated)
        \/ /\ app.auth # "none" /\ ~refused
           /\ \/ check = "unauthenticated" /\ Refused(after, task, Unauthenticated)
              \/ check = "forbidden" /\ Refused(after, task, Forbidden)
              \/ /\ check = "" /\ after.identity = identity
                 /\ after.stage = "binding" /\ SameCase(after, task)
                 /\ after.cause = task.cause /\ after.response = task.response

LEMMA AuthenticateMoves ==
    ASSUME NEW task, NEW route, HasFields(task)
    PROVE  Verdict(Authenticate(task, route), task, route)
<1> DEFINE known == [task EXCEPT !.identity = Identity(task), !.session = Session(task)]
           bound == [known EXCEPT !.stage = "binding"]
           refused == app.auth = "jwt" /\ TokenRefused(bearer, clock)
           check == IF route.guard.needed THEN Check(route.guard, Identity(task)) ELSE ""
           after == Authenticate(task, route)
<1>1. /\ HasFields(known) /\ SameCase(known, task) /\ known.identity = Identity(task)
      /\ bound.stage = "binding" /\ SameCase(bound, task)
      /\ bound.identity = Identity(task)
      /\ bound.cause = task.cause /\ bound.response = task.response
    BY DEF HasFields, Idle, SameCase
<1>2. /\ app.auth = "none" => after = Fails(task, Error("RuntimeError", 500))
      /\ refused => after = Fails(task, Unauthenticated)
      /\ app.auth # "none" /\ ~refused =>
             /\ check = "unauthenticated" => after = Fails(known, Unauthenticated)
             /\ check = "forbidden" => after = Fails(known, Forbidden)
             /\ check \notin {"unauthenticated", "forbidden"} => after = bound
  <2>1. known.identity = Identity(task)
      BY <1>1
  <2> HIDE DEF known
  <2> QED
      BY <2>1 DEF Authenticate, known
<1>3. check \in {"", "unauthenticated", "forbidden"}
    BY DEF Check
<1> HIDE DEF known, bound, after
<1>4. \A exc : /\ Refused(Fails(task, exc), task, exc)
               /\ Refused(Fails(known, exc), task, exc)
  <2>1. \A exc : Refused(Fails(known, exc), known, exc)
      BY <1>1, FailsRefuses
  <2> QED
      BY <1>1, <2>1, FailsRefuses DEF Refused, SameCase
<1>5. CASE app.auth = "none"
    BY <1>2, <1>4, <1>5 DEF Verdict, after
<1>6. CASE refused
    BY <1>2, <1>4, <1>6 DEF Verdict, after
<1>7. CASE app.auth # "none" /\ ~refused
    BY <1>1, <1>2, <1>3, <1>4, <1>7 DEF Verdict, after
<1> QED
    BY <1>5, <1>6, <1>7

\* A file, another application, or the router and the strategy decide.
OfMount(after, task) ==
    /\ after.stage = "answering" /\ SameCase(after, task)
    /\ \A exc \in after.cause : exc.status \in {404, 405}
    /\ after.response.etag = {} \/ Served(after, task)
OfRouter(after, task) ==
    LET r == Only(task.request)
        found == Resolve(app.routes, r.path)
        endpoint == EndpointFor(found, r.method)
    IN  \/ found = {} /\ Refused(after, task, HTTPError(404))
        \/ /\ found # {} /\ endpoint = {}
           /\ Refused(after, task, [HTTPError(405) EXCEPT !.allow = AllowedBy(found)])
        \/ /\ endpoint # {} /\ after.route = Only(endpoint)
           /\ \E chosen :
                  /\ SameCase(after, chosen) /\ chosen.request = task.request
                  /\ chosen.held = task.held /\ chosen.ran = task.ran
                  /\ chosen.cause = task.cause /\ chosen.response = task.response
                  /\ LET route == app.routes[after.route]
                     IN  IF Authenticates(route) THEN Verdict(after, chosen, route)
                         ELSE /\ after.stage = "binding" /\ after.cause = task.cause
                              /\ after.response = task.response

LEMMA MountMoves ==
    ASSUME NEW task, NEW mount, HasFields(task), Undecided(task), app.mounts # {},
           Fileless(task.response)
    PROVE  OfMount(Mounted(task, mount), task)
<1> DEFINE path == Only(task.request).path
           relative == SubSeq(path, Len(mount.prefix) + 1, Len(path))
           answer == FileResponse(File, Only(task.request).conditions)
           found == [task EXCEPT !.stat = Len(disk)]
           response == [Plain(answer.status) EXCEPT !.start = answer.start,
                            !.length = answer.length, !.etag = answer.etag]
           after == Mounted(task, mount)
           errors == {HTTPError(404), [HTTPError(405) EXCEPT !.allow = {"GET", "HEAD"}]}
<1>1. \/ \E exc \in errors : after = Fails(task, exc)
      \/ after = Answer(found, response)
      \/ after = Answer(task, Plain(200))
    BY DEF Mounted, ServeFile
<1>2. HasFields(found) /\ SameCase(found, task) /\ found.cause = {}
    BY DEF HasFields, Idle, SameCase, Undecided
<1>3. Answered(after, task) \/ Served(after, task)
    BY Mounting
<1>4. \A exc \in errors : exc.status \in {404, 405}
    BY DEF HTTPError, Error
<1> HIDE DEF found, response, errors, after
<1>5. CASE \E exc \in errors : after = Fails(task, exc)
    BY <1>4, <1>5, FailsRefuses DEF Refused, OfMount, after
<1>6. CASE after = Answer(found, response)
  <2>1. after.stage = "answering" /\ SameCase(after, found) /\ after.cause = {}
      BY <1>2, <1>6, AnswerKeeps
  <2> QED
      BY <1>2, <1>3, <2>1 DEF SameCase, Answered, Fileless, OfMount, after
<1>7. CASE after = Answer(task, Plain(200))
  <2>1. after.stage = "answering" /\ SameCase(after, task) /\ after.cause = {}
      BY <1>7, AnswerKeeps DEF Undecided
  <2> QED
      BY <1>3, <2>1 DEF Answered, Fileless, OfMount, after
<1> QED
    BY <1>1, <1>5, <1>6, <1>7

LEMMA DispatchMoves ==
    ASSUME NEW task, HasFields(task), Undecided(task), Fileless(task.response)
    PROVE  IF MountOf(Only(task.request).path) # {} THEN OfMount(Dispatch(task), task)
           ELSE OfRouter(Dispatch(task), task)
<1> DEFINE r == Only(task.request)
           found == Resolve(app.routes, r.path)
           endpoint == EndpointFor(found, r.method)
           chosen == [task EXCEPT !.route = Only(endpoint)]
           bound == [chosen EXCEPT !.stage = "binding"]
           after == Dispatch(task)
           other == [HTTPError(405) EXCEPT !.allow = AllowedBy(found)]
<1>1. /\ HasFields(chosen) /\ chosen.route = Only(endpoint)
      /\ chosen.request = task.request /\ chosen.held = task.held /\ chosen.ran = task.ran
      /\ chosen.cause = task.cause /\ chosen.response = task.response
      /\ SameCase(bound, chosen) /\ bound.route = Only(endpoint) /\ bound.stage = "binding"
      /\ bound.cause = task.cause /\ bound.response = task.response
    BY DEF HasFields, Idle, SameCase
<1>2. /\ MountOf(r.path) # {} => after = Mounted(task, Only(MountOf(r.path)))
      /\ MountOf(r.path) = {} /\ found = {} => after = Fails(task, HTTPError(404))
      /\ MountOf(r.path) = {} /\ found # {} /\ endpoint = {} => after = Fails(task, other)
      /\ MountOf(r.path) = {} /\ found # {} /\ endpoint # {} =>
             after = IF Authenticates(app.routes[chosen.route])
                     THEN Authenticate(chosen, app.routes[chosen.route]) ELSE bound
    BY DEF Dispatch
<1>3. endpoint # {} => found # {}
    BY DEF EndpointFor, ForMethod
<1>4. MountOf(r.path) # {} => app.mounts # {}
    BY DEF MountOf
<1>5. Only(task.request) = r
    OBVIOUS
<1> HIDE DEF chosen, bound, after, other
<1>6. CASE MountOf(r.path) # {}
    BY <1>2, <1>4, <1>6, MountMoves DEF after
<1>7. CASE MountOf(r.path) = {} /\ found = {}
    BY <1>2, <1>7, FailsRefuses DEF OfRouter, after
<1>8. CASE MountOf(r.path) = {} /\ found # {} /\ endpoint = {}
    BY <1>2, <1>8, FailsRefuses DEF OfRouter, after, other
<1>9. CASE MountOf(r.path) = {} /\ found # {} /\ endpoint # {}
  <2> DEFINE route == app.routes[chosen.route]
  <2>1. CASE Authenticates(route)
    <3>1. after = Authenticate(chosen, route)
        BY <1>2, <1>9, <2>1
    <3>2. Verdict(after, chosen, route)
        BY <1>1, <3>1, AuthenticateMoves
    <3>3. SameCase(after, chosen)
        BY <3>2 DEF Verdict, Refused
    <3>4. route = app.routes[after.route] /\ after.route = Only(endpoint)
        BY <1>1, <3>3 DEF SameCase
    <3> HIDE DEF route
    <3> QED
        BY <1>1, <1>9, <2>1, <3>2, <3>3, <3>4 DEF OfRouter, after
  <2>2. CASE ~Authenticates(route)
    <3>1. after = bound
        BY <1>2, <1>9, <2>2
    <3> QED
        BY <1>1, <1>9, <2>2, <3>1 DEF OfRouter, after
  <2> QED
      BY <2>1, <2>2
<1> QED
    BY <1>6, <1>7, <1>8, <1>9

\* Nothing the router decides has a file.
LEMMA RouterHasNoFile ==
    ASSUME NEW after, NEW task, OfRouter(after, task), task.response.etag = {}
    PROVE  after.response.etag = {} /\ after.request = task.request
    BY DEF OfRouter, Verdict, Refused, SameCase

\* The steps of one task, and those of none, keep CaseInv.
LEMMA CaseSteps ==
    ASSUME AppInv, CaseInv, NEW t \in Tasks, NEW after, Go(t, after), CaseTask(after)
    PROVE  CaseInv'
<1>1. at'[t] = after /\ \A u \in Tasks : u # t => at'[u] = at[u]
    BY DEF AppInv, Go
<1> QED
    BY <1>1 DEF CaseInv, CaseTask, Undecided

LEMMA DispatchedCase ==
    ASSUME NEW after, NEW task, Undecided(task),
           OfMount(after, task) \/ OfRouter(after, task)
    PROVE  CaseTask(after)
<1>1. OfMount(after, task) => after.stage = "answering"
    BY DEF OfMount
<1>2. OfRouter(after, task) => after.stage \in {"answering", "binding"}
    BY DEF OfRouter, Verdict, Refused
<1>3. ASSUME OfRouter(after, task), after.stage = "binding"
      PROVE  Undecided(after)
    BY <1>3 DEF OfRouter, Verdict, Refused, SameCase, Undecided
<1> QED
    BY <1>1, <1>2, <1>3 DEF CaseTask

LEMMA CaseStep ==
    ASSUME AppInv, CaseInv, [Next]_vars
    PROVE  CaseInv'
<1>1. ASSUME NEW t \in Tasks, Ask(t) PROVE CaseInv'
  <2>0. PICK r \in app.offers[t] : \E asked, after : Asked(t, r, asked, after)
      BY <1>1, AskMoves
  <2>3. PICK asked, after : Asked(t, r, asked, after)
      BY <2>0
  <2>1. /\ Go(t, after) /\ HasFields(asked) /\ Undecided(asked) /\ Fileless(asked.response)
        /\ after = Dispatch(asked) \/ after.stage = "answering"
      BY <2>3 DEF Asked
  <2>2. CaseTask(after)
    <3>1. after.stage = "answering" => CaseTask(after)
        BY DEF CaseTask
    <3> QED
        BY <2>1, <3>1, DispatchMoves, DispatchedCase
  <2> QED
      BY <2>1, <2>2, CaseSteps
<1>2. ASSUME NEW t \in Tasks, Bind(t) \/ Handle(t) \/ Deliver(t) \/ Open(t) \/ Read(t) \/ Cut(t)
      PROVE  CaseInv'
  <2>1. PICK after : Go(t, after) /\ CaseTask(after)
      BY <1>2, BindMoves, HandleMoves, SendMoves
  <2> QED
      BY <2>1, CaseSteps
<1>3. CASE Tick \/ Rotate \/ Rewrite \/ Unlink \/ UNCHANGED vars
    BY <1>3 DEF Tick, Rotate, Rewrite, Unlink, vars, CaseInv, CaseTask, Undecided
<1> QED
    BY <1>1, <1>2, <1>3 DEF Next

LEMMA CaseStarts ==
    ASSUME Init
    PROVE  CaseInv
    BY DEF Init, CaseInv, CaseTask, Undecided, Idle
-----------------------------------------------------------------------------
RangeTask(task) ==
    task.request # {} =>
        \A etag \in task.response.etag, range \in Only(task.request).conditions.range :
            AsNamed(task.response, range, etag[2])

LEMMA RangeSteps ==
    ASSUME AppInv, RangesAsNamed, NEW t \in Tasks, NEW after, Go(t, after), RangeTask(after)
    PROVE  RangesAsNamed'
<1>1. at'[t] = after /\ \A u \in Tasks : u # t => at'[u] = at[u]
    BY DEF AppInv, Go
<1>2. \A u \in Tasks : u # t => RangeTask(at[u])
    BY DEF RangesAsNamed, RangeTask, RequestOf
<1>3. \A u \in Tasks : RangeTask(at'[u])
    BY <1>1, <1>2
<1> QED
    BY <1>3 DEF RangesAsNamed, RangeTask, RequestOf

LEMMA AsksForRange ==
    ASSUME AppInv, NEW t \in Tasks, NEW r \in app.offers[t]
    PROVE  IsRange([r EXCEPT !.conditions = Conditions(r)].conditions.range)
<1>1. /\ "conditions" \in DOMAIN r /\ IsRange(r.conditions.range)
      /\ r.kind \in {"plain", "fetch", "resume", "revalidate"}
    BY AppsAssumption DEF AppInv, DiskInv
<1>2. [r EXCEPT !.conditions = Conditions(r)].conditions = Conditions(r)
    BY <1>1
<1>3. CASE r.kind = "plain"
    BY <1>1, <1>2, <1>3 DEF Conditions
<1>4. CASE r.kind = "resume"
  <2> DEFINE rest == [first |-> {Len(copy.bytes)}, last |-> {}, single |-> TRUE]
  <2>1. Len(copy.bytes) \in Nat
      BY DEF AppInv, CopyInv
  <2>2. Conditions(r).range = {rest}
      BY <1>4 DEF Conditions, Unconditional
  <2> QED
    <3>1. IsRange({rest})
        BY <2>1 DEF IsRange, AtMostOne
    <3> QED
        BY <1>2, <2>2, <3>1
<1>5. CASE r.kind \in {"fetch", "revalidate"}
  <2>1. Conditions(r).range = {}
      BY <1>5 DEF Conditions, Unconditional
  <2> QED
      BY <1>2, <2>1 DEF IsRange, AtMostOne
<1> QED
    BY <1>1, <1>3, <1>4, <1>5

LEMMA AskRanges ==
    ASSUME AppInv, CaseInv, RangesAsNamed, NEW t \in Tasks, Ask(t)
    PROVE  RangesAsNamed'
<1>0. PICK r \in app.offers[t] : \E asked, after : Asked(t, r, asked, after)
    BY AskMoves
<1>6. PICK asked, after : Asked(t, r, asked, after)
    BY <1>0
<1>1. /\ Go(t, after) /\ HasFields(asked) /\ Undecided(asked) /\ Fileless(asked.response)
      /\ asked.response.etag = {}
      /\ asked.request = {[r EXCEPT !.conditions = Conditions(r)]}
      /\ after = Dispatch(asked) \/ after.response.etag = {}
    BY <1>6 DEF Asked
<1> DEFINE conditions == Only(asked.request).conditions
<1>2. IsRange(conditions.range)
    BY <1>1, AsksForRange, OnlyOne
<1>3. after.response.etag = {} \/ Served(after, asked)
    BY <1>1, DispatchMoves, RouterHasNoFile DEF OfMount
<1>4. CASE after.response.etag = {}
    BY <1>1, <1>4, RangeSteps DEF RangeTask
<1>5. CASE Served(after, asked)
  <2> DEFINE answer == FileResponse(File, conditions)
  <2>1. /\ after.request = asked.request /\ File # Missing
        /\ after.response.status = answer.status /\ after.response.start = answer.start
        /\ after.response.length = answer.length /\ after.response.etag = answer.etag
      BY <1>5 DEF Served
  <2>2. File.size \in Nat
    <3>1. File = disk[Len(disk)] /\ Len(disk) \in DOMAIN disk
        BY DEF File, Last, AppInv, DiskInv
    <3> QED
        BY <2>1, <3>1 DEF AppInv, DiskInv
  <2> HIDE DEF conditions, answer
  <2>3. ASSUME NEW range \in conditions.range
        PROVE  answer.etag = {Etag(File)} /\ AsNamed(answer, range, File.size)
      BY <1>2, <2>2, RangeAnswer DEF answer
  <2>4. \A range \in conditions.range :
            answer.etag = {Etag(File)} /\ AsNamed(after.response, range, File.size)
      BY <2>1, <2>3 DEF AsNamed
  <2>5. Etag(File)[2] = File.size
      BY DEF Etag
  <2>6. RangeTask(after)
      BY <2>1, <2>4, <2>5 DEF RangeTask, conditions
  <2> QED
      BY <1>1, <2>6, RangeSteps
<1> QED
    BY <1>3, <1>4, <1>5

\* For all applications, conditions and files, of whatever sizes they are, the
\* empty one included: a partial answer announces what the range names in the
\* file that was found, and 416 that this is nothing (response.py:510), whatever
\* happens to the file meanwhile.
THEOREM RangesAsNamedHolds == Spec => []RangesAsNamed
<1>1. Init => CaseInv /\ RangesAsNamed
  <2>1. ASSUME Init PROVE RangesAsNamed
      BY <2>1 DEF Init, Idle, RangesAsNamed
  <2> QED
      BY <2>1, CaseStarts
<1>2. AppInv /\ CaseInv /\ RangesAsNamed /\ [Next]_vars => CaseInv' /\ RangesAsNamed'
  <2> SUFFICES ASSUME AppInv, CaseInv, RangesAsNamed, [Next]_vars
               PROVE  RangesAsNamed'
      BY CaseStep
  <2>1. ASSUME NEW t \in Tasks, Ask(t) PROVE RangesAsNamed'
      BY <2>1, AskRanges
  <2>2. ASSUME NEW t \in Tasks,
               Bind(t) \/ Handle(t) \/ Deliver(t) \/ Open(t) \/ Read(t) \/ Cut(t)
        PROVE  RangesAsNamed'
    <3>1. PICK after : Go(t, after) /\ Moved(after, at[t])
        BY <2>2, BindMoves, HandleMoves, SendMoves
    <3>2. RangeTask(at[t])
        BY DEF RangesAsNamed, RangeTask, RequestOf
    <3>3. CASE after = Done
        BY <3>1, <3>3, RangeSteps DEF RangeTask, Done, Idle
    <3>4. CASE Sending(after, at[t])
        BY <3>1, <3>2, <3>4, RangeSteps DEF RangeTask, Sending, SameCase
    <3>5. CASE after.response.etag = {}
        BY <3>1, <3>5, RangeSteps DEF RangeTask
    <3> QED
        BY <3>1, <3>3, <3>4, <3>5 DEF Moved, Runs, Handled, Refused
  <2>3. CASE Tick \/ Rotate \/ Rewrite \/ Unlink \/ UNCHANGED vars
      BY <2>3 DEF Tick, Rotate, Rewrite, Unlink, vars, RangesAsNamed, RequestOf
  <2> QED
      BY <2>1, <2>2, <2>3 DEF Next
<1> QED
    BY <1>1, <1>2, AppInvariant, PTL DEF Spec
-----------------------------------------------------------------------------
(***************************************************************************)
(* RoutedAsDeclared.                                                       *)
(***************************************************************************)
RoutesFitting(path) == {i \in DOMAIN app.routes : Fits(app.routes[i].path, path)}
Serves(i, method) ==
    app.routes[i].method = method \/ (method = "HEAD" /\ app.routes[i].method = "GET")

\* From its dispatch on, a request has a route that fits, or was refused since
\* there is none.
RightRoute(i, r) == i \in RoutesFitting(r.path) /\ Serves(i, r.method)
RightRefusal(e, r) ==
    /\ e.status = 404 => RoutesFitting(r.path) = {}
    /\ e.status = 405 =>
           /\ RoutesFitting(r.path) # {} /\ r.method \notin e.allow
           /\ \A m \in e.allow : \E i \in RoutesFitting(r.path) : Serves(i, m)
RouteTask(task) ==
    /\ task.stage = "binding" => task.route \in DOMAIN app.routes
    /\ Agree(app.routes) /\ task.request # {} =>
           LET r == Only(task.request)
           IN  /\ task.stage = "binding" \/ task.ran => RightRoute(task.route, r)
               /\ MountOf(r.path) = {} /\ ~task.ran => \A e \in task.cause : RightRefusal(e, r)
RouteInv == \A t \in Tasks : RouteTask(at[t])

\* The binder refuses nothing as not found, not allowed or forbidden.
BadArguments(task) ==
    LET binder == app.routes[task.route].binder
    IN  {binder[i].name : i \in {j \in DOMAIN binder : Invalid(binder[j], Only(task.request))}}

LEMMA BuildRefuses ==
    ASSUME NEW task, NEW S, app.routes[task.route].binder \in Seq(S)
    PROVE  /\ Build(task) = {} => BadArguments(task) = {}
           /\ \A e \in Build(task) :
                  /\ e.status \notin {403, 404, 405}
                  /\ e.status = 401 =>
                         /\ task.identity = Absent
                         /\ \E i \in DOMAIN app.routes[task.route].binder :
                                app.routes[task.route].binder[i].kind = "identity"
                  /\ e.status = 422 => BadArguments(task) # {} /\ e.fields = BadArguments(task)
<1> DEFINE binder == app.routes[task.route].binder
           raising == {i \in DOMAIN binder : Raises(binder[i], task) # {}}
           invalid == BadArguments(task)
<1>1. Build(task) =
        CASE raising # {} -> Raises(binder[Min(raising)], task)
          [] raising = {} /\ invalid # {} ->
                 {[Error("ValidationError", 422) EXCEPT !.fields = invalid]}
          [] OTHER -> {}
    BY DEF Build, BadArguments
<1>2. \A instruction : \A e \in Raises(instruction, task) :
          /\ e.status \notin {403, 404, 405, 422}
          /\ e.status = 401 => task.identity = Absent /\ instruction.kind = "identity"
    BY DEF Raises, Unauthenticated, HTTPError, Error
<1> DEFINE error == [Error("ValidationError", 422) EXCEPT !.fields = invalid]
<1>3. error.status = 422 /\ error.fields = invalid
    BY DEF Error
<1>4. CASE raising # {}
  <2>1. Build(task) = Raises(binder[Min(raising)], task)
      BY <1>1, <1>4
  <2>2. raising \subseteq Nat
    <3>1. DOMAIN binder \subseteq Nat
        BY LenProperties
    <3> QED
        BY <3>1
  <2>3. Min(raising) \in raising
    <3> HIDE DEF raising
    <3> QED
        BY <1>4, <2>2, Least
  <2>4. PICK i \in DOMAIN binder : Build(task) = Raises(binder[i], task) /\ Build(task) # {}
      BY <2>1, <2>3
  <2>5. \A e \in Build(task) :
            /\ e.status \notin {403, 404, 405, 422}
            /\ e.status = 401 => task.identity = Absent /\ binder[i].kind = "identity"
      BY <1>2, <2>4
  <2> QED
      BY <2>4, <2>5
<1>5. CASE raising = {}
  <2>1. \/ invalid # {} /\ Build(task) = {error}
        \/ invalid = {} /\ Build(task) = {}
      BY <1>1, <1>5
  <2> HIDE DEF error
  <2>2. \A e \in Build(task) : e.status = 422 /\ e.fields = invalid /\ invalid # {}
      BY <1>3, <2>1
  <2>3. Build(task) = {} => invalid = {}
      BY <2>1
  <2>4. \A e \in Build(task) : e.status \notin {401, 403, 404, 405}
      BY <2>2
  <2> QED
      BY <2>2, <2>3, <2>4
<1> QED
    BY <1>4, <1>5

LEMMA RouteTaskOf ==
    ASSUME NEW task, NEW r, task.request = {r},
           task.stage = "binding" => task.route \in DOMAIN app.routes,
           Agree(app.routes) =>
               /\ task.stage = "binding" \/ task.ran => RightRoute(task.route, r)
               /\ MountOf(r.path) = {} /\ ~task.ran => \A e \in task.cause : RightRefusal(e, r)
    PROVE  RouteTask(task)
<1>1. Only(task.request) = r
    BY OnlyOne
<1> QED
    BY <1>1 DEF RouteTask

LEMMA AppRoutes ==
    ASSUME AppInv
    PROVE  AreRoutes(app.routes) /\ app \in Apps
    BY RoutesAssumption DEF AppInv, DiskInv, AreRoutes, Registers

\* What the router decides is right.
LEMMA DispatchRoutes ==
    ASSUME AppInv, NEW task, Undecided(task), NEW r, task.request = {r}, NEW S, r.path \in Seq(S),
           MountOf(r.path) = {}, NEW after, OfRouter(after, task)
    PROVE  RouteTask(after)
<1> DEFINE found == Resolve(app.routes, r.path)
           endpoint == EndpointFor(found, r.method)
           other == [HTTPError(405) EXCEPT !.allow = AllowedBy(found)]
<1>0. Only(task.request) = r
    BY OnlyOne
<1>1. \/ found = {} /\ Refused(after, task, HTTPError(404))
      \/ found # {} /\ endpoint = {} /\ Refused(after, task, other)
      \/ /\ endpoint # {} /\ after.route = Only(endpoint)
         /\ after.request = task.request /\ after.ran = FALSE
         /\ \A e \in after.cause : e.status \in {500, 401, 403}
  <2>1. ASSUME NEW chosen, NEW route, Verdict(after, chosen, route), chosen.cause = {}
        PROVE  SameCase(after, chosen) /\ \A e \in after.cause : e.status \in {500, 401, 403}
    <3>1. \A exc \in {Error("RuntimeError", 500), Unauthenticated, Forbidden} :
              exc.status \in {500, 401, 403}
        BY DEF Error, Unauthenticated, Forbidden
    <3>2. \/ \E exc \in {Error("RuntimeError", 500), Unauthenticated, Forbidden} :
                 Refused(after, chosen, exc)
          \/ SameCase(after, chosen) /\ after.cause = {}
        BY <2>1 DEF Verdict
    <3> QED
        BY <3>1, <3>2 DEF Refused
  <2>2. CASE endpoint # {}
    <3>1. PICK chosen :
            /\ after.route = Only(endpoint)
            /\ SameCase(after, chosen) /\ chosen.request = task.request
            /\ chosen.ran = FALSE /\ chosen.cause = {}
            /\ \/ Verdict(after, chosen, app.routes[after.route])
               \/ after.cause = {}
      <4>1. found # {}
          BY <2>2 DEF EndpointFor, ForMethod
      <4> HIDE DEF found, endpoint
      <4>2. PICK chosen :
              /\ after.route = Only(endpoint)
              /\ SameCase(after, chosen) /\ chosen.request = task.request
              /\ chosen.ran = task.ran /\ chosen.cause = task.cause
              /\ IF Authenticates(app.routes[after.route])
                 THEN Verdict(after, chosen, app.routes[after.route])
                 ELSE after.cause = task.cause
          BY <1>0, <2>2, <4>1 DEF OfRouter, found, endpoint
      <4> QED
          BY <4>2 DEF Undecided
    <3>2. \A e \in after.cause : e.status \in {500, 401, 403}
        BY <2>1, <3>1
    <3> QED
        BY <2>2, <3>1, <3>2 DEF SameCase
  <2>3. CASE endpoint = {}
      BY <1>0, <2>3 DEF OfRouter
  <2> QED
      BY <2>2, <2>3
<1>2. Agree(app.routes) => /\ found \subseteq RoutesFitting(r.path)
                           /\ found = {} => RoutesFitting(r.path) = {}
    BY AppRoutes, ResolveFits DEF RoutesFitting
<1>3. found \subseteq DOMAIN app.routes
    BY DEF Resolve, StaticAt, TreeAt
<1> HIDE DEF found
<1>4. CASE found = {} /\ Refused(after, task, HTTPError(404))
  <2>1. after.stage = "answering" /\ after.request = {r} /\ after.ran = FALSE
        /\ after.cause = {HTTPError(404)}
      BY <1>4 DEF Refused, SameCase, Undecided
  <2>2. HTTPError(404).status = 404
      BY DEF HTTPError, Error
  <2> QED
      BY <1>2, <1>4, <2>1, <2>2, RouteTaskOf DEF RightRefusal
<1>5. CASE found # {} /\ endpoint = {} /\ Refused(after, task, other)
  <2>1. after.stage = "answering" /\ after.request = {r} /\ after.ran = FALSE
        /\ after.cause = {other}
      BY <1>5 DEF Refused, SameCase, Undecided
  <2>2. other.status = 405 /\ other.allow = AllowedBy(found)
      BY DEF HTTPError, Error
  <2>3. r.method \notin AllowedBy(found)
      BY <1>5 DEF AllowedBy, EndpointFor, ForMethod
  <2>4. \A m \in AllowedBy(found) : \E i \in found : Serves(i, m)
      BY DEF AllowedBy, Serves
  <2> HIDE DEF other, endpoint
  <2>5. Agree(app.routes) => RightRefusal(other, r)
      BY <1>2, <1>5, <2>2, <2>3, <2>4 DEF RightRefusal
  <2> QED
      BY <2>1, <2>5, RouteTaskOf
<1>6. CASE /\ endpoint # {} /\ after.route = Only(endpoint)
           /\ after.request = task.request /\ after.ran = FALSE
           /\ \A e \in after.cause : e.status \in {500, 401, 403}
  <2>1. after.route \in endpoint
      BY <1>6 DEF Only
  <2>2. after.route \in found /\ Serves(after.route, r.method)
      BY <2>1 DEF EndpointFor, ForMethod, Serves
  <2> HIDE DEF endpoint
  <2>3. \A e \in after.cause : RightRefusal(e, r)
      BY <1>6 DEF RightRefusal
  <2>4. Agree(app.routes) => RightRoute(after.route, r)
      BY <1>2, <2>2 DEF RightRoute
  <2> QED
      BY <1>3, <1>6, <2>2, <2>3, <2>4, RouteTaskOf
<1> QED
    BY <1>1, <1>4, <1>5, <1>6

LEMMA RouteSteps ==
    ASSUME AppInv, RouteInv, NEW t \in Tasks, NEW after, Go(t, after), RouteTask(after), app' = app
    PROVE  RouteInv'
<1>1. at'[t] = after /\ \A u \in Tasks : u # t => at'[u] = at[u]
    BY DEF AppInv, Go
<1>2. \A u \in Tasks : RouteTask(at'[u])
    BY <1>1 DEF RouteInv
<1> QED
    BY <1>2 DEF RouteInv, RouteTask, RightRoute, RightRefusal, RoutesFitting, Serves, MountOf

LEMMA AskRoutes ==
    ASSUME AppInv, CaseInv, RouteInv, NEW t \in Tasks, Ask(t)
    PROVE  RouteInv'
<1>1. PICK r \in app.offers[t] : \E asked, after : Asked(t, r, asked, after)
    BY AskMoves
<1>2. PICK asked, after : Asked(t, r, asked, after)
    BY <1>1
<1> DEFINE now == [r EXCEPT !.conditions = Conditions(r)]
<1>3. /\ Go(t, after) /\ app' = app /\ HasFields(asked) /\ Undecided(asked)
      /\ Fileless(asked.response) /\ asked.request = {now}
      /\ \/ after = Dispatch(asked)
         \/ after.stage = "answering" /\ SameCase(after, asked) /\ after.cause = {}
    BY <1>2 DEF Asked
<1>4. now.path = r.path /\ r.path \in Seq(ToSet(r.path))
    BY AppRoutes, AppsAssumption
<1> HIDE DEF now
<1>5. Only(asked.request) = now /\ now.path \in Seq(ToSet(r.path))
    BY <1>3, <1>4, OnlyOne
<1>6. CASE after.stage = "answering" /\ SameCase(after, asked) /\ after.cause = {}
  <2>1. RouteTask(after)
      BY <1>3, <1>6 DEF SameCase, Undecided, RouteTask
  <2> QED
      BY <1>3, <2>1, RouteSteps
<1>7. CASE after = Dispatch(asked) /\ MountOf(now.path) = {}
  <2>1. OfRouter(after, asked)
      BY <1>3, <1>5, <1>7, DispatchMoves
  <2>2. RouteTask(after)
      BY <1>3, <1>5, <1>7, <2>1, DispatchRoutes
  <2> QED
      BY <1>3, <2>2, RouteSteps
<1>8. CASE after = Dispatch(asked) /\ MountOf(now.path) # {}
  <2>1. OfMount(after, asked)
      BY <1>3, <1>5, <1>8, DispatchMoves
  <2>2. after.stage = "answering" /\ after.ran = FALSE /\ after.request = {now}
      BY <1>3, <2>1 DEF OfMount, SameCase, Undecided
  <2>3. RouteTask(after)
      BY <1>8, <2>2, RouteTaskOf
  <2> QED
      BY <1>3, <2>3, RouteSteps
<1> QED
    BY <1>3, <1>6, <1>7, <1>8

\* The steps behind the dispatch.
LEMMA MovedRoutes ==
    ASSUME AppInv, NEW task, NEW after, CaseTask(task), RouteTask(task), CaseTask(after),
           Moved(after, task)
    PROVE  RouteTask(after)
<1>1. ASSUME after.request = task.request, after.route = task.route,
             after.stage = "binding" => task.stage = "binding",
             after.ran => task.ran \/ task.stage = "binding",
             \A r : ~after.ran => ~task.ran /\ \A e \in after.cause :
                                    e \in task.cause \/ RightRefusal(e, r)
      PROVE  RouteTask(after)
    BY <1>1 DEF RouteTask
<1>2. CASE after = Done
    BY <1>2 DEF Done, Idle, RouteTask
<1>3. CASE Sending(after, task)
    BY <1>1, <1>3 DEF Sending, SameCase
<1>4. CASE Runs(after, task)
    BY <1>1, <1>4 DEF Runs
<1>5. CASE Handled(after, task)
    BY <1>1, <1>5 DEF Handled, SameCase, CaseTask
<1>6. ASSUME task.stage = "binding", NEW exc \in Build(task) \union {Disconnected},
             Refused(after, task, exc)
      PROVE  RouteTask(after)
  <2>1. app.routes[task.route].binder \in Seq(ToSet(app.routes[task.route].binder))
      BY <1>6, AppRoutes, HandlersAssumption DEF RouteTask
  <2>2. exc.status \notin {403, 404, 405}
      BY <2>1, BuildRefuses DEF Disconnected, Error
  <2>3. \A r : RightRefusal(exc, r)
      BY <2>2 DEF RightRefusal
  <2> QED
      BY <1>1, <1>6, <2>3 DEF Refused, SameCase
<1> QED
    BY <1>2, <1>3, <1>4, <1>5, <1>6 DEF Moved

LEMMA RouteStarts ==
    ASSUME Init
    PROVE  RouteInv
    BY DEF Init, Idle, RouteInv, RouteTask

LEMMA RouteStep ==
    ASSUME AppInv, CaseInv, RouteInv, [Next]_vars
    PROVE  RouteInv'
<1>1. ASSUME NEW t \in Tasks, Ask(t) PROVE RouteInv'
    BY <1>1, AskRoutes
<1>2. ASSUME NEW t \in Tasks,
             Bind(t) \/ Handle(t) \/ Deliver(t) \/ Open(t) \/ Read(t) \/ Cut(t)
      PROVE  RouteInv'
  <2>1. PICK after : Go(t, after) /\ app' = app /\ CaseTask(after) /\ Moved(after, at[t])
      BY <1>2, BindMoves, HandleMoves, SendMoves
  <2>2. CaseTask(at[t]) /\ RouteTask(at[t])
      BY DEF CaseInv, RouteInv
  <2> QED
      BY <2>1, <2>2, MovedRoutes, RouteSteps
<1>3. CASE Tick \/ Rotate \/ Rewrite \/ Unlink \/ UNCHANGED vars
  <2>1. app' = app /\ at' = at
      BY <1>3 DEF Tick, Rotate, Rewrite, Unlink, vars
  <2> QED
      BY <2>1 DEF RouteInv, RouteTask, RightRoute, RightRefusal, RoutesFitting, Serves, MountOf
<1> QED
    BY <1>1, <1>2, <1>3 DEF Next

\* For all applications and requests: a handler runs only if its pattern fits
\* the path and serves the method, and 404 and 405 say of the routes what
\* README.md:209 and app.py make them say; the search of the tree, which goes
\* back from a branch that leads nowhere (routing.py:152), misses nothing.
THEOREM RoutedAsDeclaredHolds == Spec => []RoutedAsDeclared
<1>1. Init => CaseInv /\ RouteInv
    BY CaseStarts, RouteStarts
<1>2. AppInv /\ CaseInv /\ RouteInv /\ [Next]_vars => CaseInv' /\ RouteInv'
    BY CaseStep, RouteStep
<1>3. RouteInv => RoutedAsDeclared
  <2> SUFFICES ASSUME RouteInv, Agree(app.routes), NEW t \in Tasks, at[t].request # {}
               PROVE  LET task == at[t]
                          r == RequestOf(t)
                          fitting == RoutesFitting(r.path)
                      IN  /\ task.ran => task.route \in fitting /\ Serves(task.route, r.method)
                          /\ \A e \in task.cause : ~task.ran /\ MountOf(r.path) = {} =>
                                 /\ e.status = 404 => fitting = {}
                                 /\ e.status = 405 =>
                                        /\ fitting # {} /\ r.method \notin e.allow
                                        /\ \A m \in e.allow : \E i \in fitting : Serves(i, m)
      BY DEF RoutedAsDeclared, RoutesFitting, Serves
  <2> QED
      BY DEF RouteInv, RouteTask, RightRoute, RightRefusal, RequestOf
<1> QED
    BY <1>1, <1>2, <1>3, AppInvariant, PTL DEF Spec
-----------------------------------------------------------------------------
(***************************************************************************)
(* AdmittedAsDeclared.  First the tokens, for which TokenInv says what     *)
(* SessionInv says for cookies.                                            *)
(***************************************************************************)
\* A token and what the browser was told with it: the same caller, for as long
\* as the claims say.
Vouches(token, m) ==
    /\ token.parts /\ token.alg \in Jwt.algorithms /\ Verifies(token)
    /\ \E user : /\ token.claims.sub = {user}
                 /\ m.data = {<<"user", user>>, <<"roles", token.claims.roles>>}
    /\ m.key = 0
    /\ \A now : CheckClaims(token.claims, now)
                    <=> m.from <= now /\ \A end \in m.until : now <= end

SameToken(tokens, told) ==
    IF tokens = Absent THEN told = {}
    ELSE \E token \in tokens, m \in told :
             tokens = {token} /\ told = {m} /\ Vouches(token, m)

BringsToken(tokens, returned) ==
    IF returned = {} THEN tokens = {}
    ELSE \E told \in returned : returned = {told} /\ tokens # {} /\ SameToken(tokens, told)

Tokenless(task) == task.response.token = {} /\ task.issued = {} /\ task.returned = {}

TokenTask(task) ==
    /\ task.stage \in {"idle", "binding"} => Tokenless(task)
    /\ task.stage = "handling" => SameToken(task.response.token, task.issued)
    /\ task.stage = "answering" => BringsToken(task.response.token, task.returned)

TokenInv ==
    app.auth = "jwt" => SameToken(bearer, mind) /\ \A t \in Tasks : TokenTask(at[t])

LEMMA IssueVouches ==
    ASSUME NEW deed, NEW algorithm \in Jwt.algorithms
    PROVE  Vouches(Issue(deed.user, deed.roles, deed.expires, clock, algorithm), Memory(deed))
<1> DEFINE exp == {clock + e : e \in deed.expires}
           claims == [sub |-> {deed.user}, roles |-> deed.roles, iat |-> {clock}, nbf |-> Absent,
                      exp |-> exp, iss |-> Jwt.issuer, aud |-> Jwt.audience]
           token == Encode(claims, Jwt.signing, algorithm)
           m == Memory(deed)
           until == {clock + e + Jwt.leeway : e \in deed.expires}
<1>1. Issue(deed.user, deed.roles, deed.expires, clock, algorithm) = token
    BY DEF Issue
<1>2. /\ token.parts = TRUE /\ token.alg = algorithm /\ token.key = Jwt.signing
      /\ token.claims = claims
    BY DEF Encode
<1>3. Verifies(token)
  <2>1. Verifies(Encode(Absent, Jwt.signing, algorithm))
      BY CredentialsAssumption
  <2>2. Encode(Absent, Jwt.signing, algorithm).alg = algorithm
        /\ Encode(Absent, Jwt.signing, algorithm).key = Jwt.signing
      BY DEF Encode
  <2> HIDE DEF token
  <2> QED
      BY <1>2, <2>1, <2>2 DEF Verifies
<1>4. /\ m.data = {<<"user", deed.user>>, <<"roles", deed.roles>>}
      /\ m.key = 0 /\ m.from = clock - Jwt.leeway /\ m.until = until
    BY DEF Memory
<1>5. /\ claims.sub = {deed.user} /\ claims.roles = deed.roles /\ claims.iat = {clock}
      /\ claims.nbf = {} /\ claims.exp = exp /\ claims.iss = Jwt.issuer
      /\ claims.aud = Jwt.audience
    BY DEF Absent
<1> HIDE DEF token, claims, m
<1>6. ASSUME NEW now
      PROVE  CheckClaims(claims, now) <=> m.from <= now /\ \A end \in m.until : now <= end
  <2>1. (\A e \in claims.exp : now <= e + Jwt.leeway) <=> \A end \in m.until : now <= end
      BY <1>4, <1>5
  <2>2. (\A i \in claims.iat : now >= i - Jwt.leeway) <=> m.from <= now
      BY <1>4, <1>5
  <2> QED
      BY <1>5, <2>1, <2>2 DEF CheckClaims
<1>7. \E user : /\ claims.sub = {user}
                /\ m.data = {<<"user", user>>, <<"roles", claims.roles>>}
    BY <1>4, <1>5
<1>8. Vouches(token, m)
    BY <1>2, <1>3, <1>4, <1>6, <1>7 DEF Vouches
<1> QED
    BY <1>1, <1>8 DEF m
-----------------------------------------------------------------------------
LEMMA ErrorHasNoToken ==
    ASSUME NEW exc, NEW local
    PROVE  ErrorResponse(exc, local).token = {}
<1>1. \/ ErrorResponse(exc, local) = Fallback(exc)
      \/ \E status : ErrorResponse(exc, local) = Plain(status)
    BY DEF ErrorResponse
<1>2. Fallback(exc).token = {} /\ \A status : Plain(status).token = {}
    BY DEF Fallback, Plain, NoResponse
<1> QED
    BY <1>1, <1>2

LEMMA PassesOrNoToken ==
    ASSUME NEW response, NEW r, NEW depth
    PROVE  \/ Passes(response, r, depth) = response
           \/ Passes(response, r, depth).token = {}
<1>1. \/ Passes(response, r, depth) = response
      \/ Passes(response, r, depth) = ErrorResponse(Error("RuntimeError", 500), NoHandlers)
    BY DEF Passes
<1> QED
    BY <1>1, ErrorHasNoToken

LEMMA AnswerBringsToken ==
    ASSUME NEW task, NEW response, HasFields(task),
           BringsToken(response.token, task.returned)
    PROVE  TokenTask(Answer(task, response))
<1> DEFINE r == Only(task.request)
           out == Passes(response, r, Len(Chain) + 1)
           returned == IF out = response THEN task.returned ELSE {}
           after == Answer(task, response)
<1>1. out = response \/ out.token = {}
    BY PassesOrNoToken
<1>2. after.stage = "answering" /\ after.response = out /\ after.returned = returned
  <2>1. after =
          [task EXCEPT !.stage = "answering", !.response = out, !.todo = <<>>, !.session = {},
                       !.returned = IF out = response THEN @ ELSE {}]
      BY DEF Answer
  <2> HIDE DEF out, after
  <2> QED
      BY <2>1 DEF HasFields, Idle
<1> HIDE DEF out, after
<1>3. BringsToken(out.token, returned)
  <2>1. CASE out = response
      BY <2>1
  <2>2. CASE out # response
      BY <1>1, <2>2 DEF BringsToken
  <2> QED
      BY <2>1, <2>2
<1>4. TokenTask(after)
    BY <1>2, <1>3 DEF TokenTask
<1> QED
    BY <1>4 DEF after

LEMMA FailsBringsToken ==
    ASSUME NEW task, NEW exc, HasFields(task)
    PROVE  TokenTask(Fails(task, exc))
<1> DEFINE failed == [task EXCEPT !.cause = {exc}, !.returned = {}]
           response == ErrorResponse(exc, IF task.route = 0 THEN NoHandlers
                                          ELSE app.routes[task.route].errors)
<1>1. HasFields(failed) /\ failed.returned = {}
    BY DEF HasFields, Idle
<1>2. response.token = {}
    BY ErrorHasNoToken
<1>3. Fails(task, exc) = Answer(failed, response)
    BY DEF Fails
<1> HIDE DEF failed, response
<1>4. BringsToken(response.token, failed.returned)
    BY <1>1, <1>2 DEF BringsToken
<1> QED
    BY <1>1, <1>3, <1>4, AnswerBringsToken

LEMMA DispatchToken ==
    ASSUME NEW task, HasFields(task), Tokenless(task)
    PROVE  TokenTask(Dispatch(task))
<1> DEFINE r == Only(task.request)
           answer == FileResponse(File, r.conditions)
           found == [task EXCEPT !.stat = Len(disk)]
           response == [Plain(answer.status) EXCEPT !.start = answer.start,
                            !.length = answer.length, !.etag = answer.etag]
           chosen == [task EXCEPT !.route = Only(EndpointFor(Resolve(app.routes, r.path), r.method))]
           known == [chosen EXCEPT !.identity = Identity(chosen), !.session = Session(chosen)]
           bound(x) == [x EXCEPT !.stage = "binding"]
           after == Dispatch(task)
<1>1. \/ \E exc : \E x \in {task, chosen, known} : after = Fails(x, exc)
      \/ after = Answer(task, Plain(200))
      \/ after = Answer(found, response)
      \/ after = bound(chosen)
      \/ after = bound(known)
  <2>1. \/ \E mount : after = Mounted(task, mount)
        \/ \E exc : after = Fails(task, exc)
        \/ \E route : after = Authenticate(chosen, route)
        \/ after = bound(chosen)
      BY DEF Dispatch
  <2>2. \A mount : \/ \E exc : Mounted(task, mount) = Fails(task, exc)
                   \/ Mounted(task, mount) = Answer(task, Plain(200))
                   \/ Mounted(task, mount) = Answer(found, response)
      BY DEF Mounted, ServeFile
  <2>3. \A route : \/ \E exc : \E x \in {chosen, known} : Authenticate(chosen, route) = Fails(x, exc)
                   \/ Authenticate(chosen, route) = bound(known)
      BY DEF Authenticate
  <2> HIDE DEF after, found, response, chosen, known, bound
  <2> QED
      BY <2>1, <2>2, <2>3
<1>2. /\ HasFields(chosen) /\ Tokenless(chosen)
      /\ HasFields(found) /\ Tokenless(found)
    BY DEF HasFields, Idle, Tokenless
<1>3. response.token = {} /\ Plain(200).token = {}
    BY DEF Plain, NoResponse
<1> HIDE DEF chosen, found, response
<1>4. HasFields(known) /\ Tokenless(known)
    BY <1>2 DEF HasFields, Idle, Tokenless
<1> HIDE DEF known
<1>5. TokenTask(bound(chosen)) /\ TokenTask(bound(known))
  <2>1. \A x : HasFields(x) /\ Tokenless(x) => Tokenless(bound(x)) /\ bound(x).stage = "binding"
      BY DEF HasFields, Idle, Tokenless
  <2> HIDE DEF bound
  <2> QED
      BY <1>2, <1>4, <2>1 DEF TokenTask
<1>6. TokenTask(Answer(task, Plain(200))) /\ TokenTask(Answer(found, response))
    BY <1>2, <1>3, AnswerBringsToken DEF Tokenless, BringsToken
<1>7. \A exc : \A x \in {task, chosen, known} : TokenTask(Fails(x, exc))
    BY <1>2, <1>4, FailsBringsToken
<1> HIDE DEF after, bound
<1>8. TokenTask(after)
    BY <1>1, <1>5, <1>6, <1>7
<1> QED
    BY <1>8 DEF after
-----------------------------------------------------------------------------
\* A step of one task that leaves the browser's token alone.
LEMMA TokenSteps ==
    ASSUME AppInv, TokenInv, app.auth = "jwt", NEW t \in Tasks, NEW after, Go(t, after),
           TokenTask(after), app' = app, SameToken(bearer', mind')
    PROVE  TokenInv'
<1>1. at'[t] = after /\ \A u \in Tasks : u # t => at'[u] = at[u]
    BY DEF AppInv, Go
<1>2. \A u \in Tasks : TokenTask(at'[u])
    BY <1>1 DEF TokenInv
<1> QED
    BY <1>2 DEF TokenInv, TokenTask, Tokenless

LEMMA AskToken ==
    ASSUME AppInv, CaseInv, TokenInv, app.auth = "jwt", NEW t \in Tasks, Ask(t)
    PROVE  TokenInv'
<1>1. PICK r \in app.offers[t] :
        LET asked == [at[t] EXCEPT !.request = {[r EXCEPT !.conditions = Conditions(r)]},
                                   !.held = UNION {m.data : m \in Genuine}]
            stop == Min(Stops(r))
        IN  /\ at[t].stage = "idle"
            /\ Go(t, CASE Stops(r) = {} -> Dispatch(asked)
                       [] Stops(r) # {} /\ Chain[stop].kind = "cors" ->
                              [asked EXCEPT !.stage = "answering",
                                            !.response = Passes(Plain(204), r, stop)]
                       [] OTHER ->
                              [asked EXCEPT !.stage = "answering", !.response =
                                   ErrorResponse(HTTPError(403), NoHandlers)])
            /\ UNCHANGED <<app, clock, keys, disk, jar, bearer, copy, mind>>
    BY DEF Ask
<1> DEFINE asked == [at[t] EXCEPT !.request = {[r EXCEPT !.conditions = Conditions(r)]},
                                  !.held = UNION {m.data : m \in Genuine}]
           stop == Min(Stops(r))
           passed == Passes(Plain(204), r, stop)
           error == ErrorResponse(HTTPError(403), NoHandlers)
           preflight == [asked EXCEPT !.stage = "answering", !.response = passed]
           refused == [asked EXCEPT !.stage = "answering", !.response = error]
<1>2. /\ UNCHANGED <<app, bearer, mind>>
      /\ \/ Go(t, Dispatch(asked)) \/ Go(t, preflight) \/ Go(t, refused)
    BY <1>1
<1>3. Tokenless(at[t]) /\ HasFields(at[t])
    BY <1>1 DEF AppInv, TaskInv, TokenInv, TokenTask
<1>4. HasFields(asked) /\ Tokenless(asked)
    BY <1>3 DEF HasFields, Idle, Tokenless
<1>5. passed.token = {} /\ error.token = {}
    BY PassesOrNoToken, ErrorHasNoToken DEF Plain, NoResponse
<1> HIDE DEF asked, passed, error
<1>6. /\ preflight.stage = "answering" /\ preflight.response = passed /\ preflight.returned = {}
      /\ refused.stage = "answering" /\ refused.response = error /\ refused.returned = {}
    BY <1>4 DEF HasFields, Idle, Tokenless
<1> HIDE DEF preflight, refused
<1>7. TokenTask(preflight) /\ TokenTask(refused)
    BY <1>5, <1>6 DEF TokenTask, BringsToken
<1>8. TokenTask(Dispatch(asked))
    BY <1>4, DispatchToken
<1>9. SameToken(bearer', mind')
    BY <1>2 DEF TokenInv
<1> QED
    BY <1>2, <1>7, <1>8, <1>9, TokenSteps

LEMMA BindToken ==
    ASSUME AppInv, TokenInv, app.auth = "jwt", NEW t \in Tasks, Bind(t)
    PROVE  TokenInv'
<1> DEFINE running == [at[t] EXCEPT !.stage = "handling", !.ran = TRUE,
                                    !.todo = RouteOf(t).program]
<1>1. /\ at[t].stage = "binding" /\ UNCHANGED <<app, bearer, mind>>
      /\ (\E exc : Go(t, Fails(at[t], exc))) \/ Go(t, running)
    BY DEF Bind
<1>2. HasFields(at[t]) /\ Tokenless(at[t])
    BY <1>1 DEF AppInv, TaskInv, TokenInv, TokenTask
<1>3. SameToken(bearer', mind')
    BY <1>1 DEF TokenInv
<1>4. TokenTask(running)
  <2>1. running.stage = "handling" /\ running.response.token = {} /\ running.issued = {}
      BY <1>2 DEF HasFields, Idle, Tokenless
  <2> HIDE DEF running
  <2> QED
      BY <2>1 DEF TokenTask, SameToken, Absent
<1> HIDE DEF running
<1> QED
    BY <1>1, <1>2, <1>3, <1>4, FailsBringsToken, TokenSteps

LEMMA HandleToken ==
    ASSUME AppInv, TokenInv, app.auth = "jwt", NEW t \in Tasks, Handle(t)
    PROVE  TokenInv'
<1> DEFINE task == at[t]
           deed == Head(task.todo)
           goesOn == [task EXCEPT !.todo = Tail(@)]
           touched == [goesOn EXCEPT !.session = {Touch(Only(task.session), deed)},
                                     !.owed = {Retold(task, deed)}]
           token(a) == Issue(deed.user, deed.roles, deed.expires, clock, a)
           issued(a) == [goesOn EXCEPT !.issued = {Memory(deed)}, !.response.token = {token(a)}]
           made == [MakeResponse(deed.result, RouteOf(t).status)
                        EXCEPT !.token = task.response.token]
           told == [task EXCEPT !.returned = Told(task)]
           finished == FinishAuth(task, made)
<1>1. /\ task.stage = "handling" /\ UNCHANGED <<app, bearer, mind>>
      /\ \/ \E exc : Go(t, Fails(task, exc))
         \/ Go(t, touched)
         \/ \E a \in Jwt.algorithms : Go(t, issued(a))
         \/ Go(t, Answer(told, finished))
    BY DEF Handle
<1>2. HasFields(task) /\ SameToken(task.response.token, task.issued)
    BY <1>1 DEF AppInv, TaskInv, TokenInv, TokenTask
<1>3. SameToken(bearer', mind')
    BY <1>1 DEF TokenInv
<1>4. /\ HasFields(goesOn) /\ goesOn.stage = "handling" /\ goesOn.issued = task.issued
      /\ goesOn.response = task.response
    BY <1>1, <1>2 DEF HasFields, Idle
<1> HIDE DEF goesOn
<1>5. CASE \E exc : Go(t, Fails(task, exc))
    BY <1>1, <1>2, <1>3, <1>5, FailsBringsToken, TokenSteps
<1>6. CASE Go(t, touched)
  <2>1. touched.stage = "handling" /\ touched.response = task.response
        /\ touched.issued = task.issued
      BY <1>4 DEF HasFields, Idle
  <2> HIDE DEF touched
  <2>2. TokenTask(touched)
      BY <1>2, <2>1 DEF TokenTask
  <2> QED
      BY <1>1, <1>3, <1>6, <2>2, TokenSteps
<1>7. ASSUME NEW a \in Jwt.algorithms, Go(t, issued(a))
      PROVE  TokenInv'
  <2> DEFINE after == issued(a)
  <2>1. /\ after.stage = "handling" /\ after.response.token = {token(a)}
        /\ after.issued = {Memory(deed)}
      BY <1>4 DEF HasFields, Idle, NoResponse
  <2>2. Vouches(token(a), Memory(deed))
      BY IssueVouches
  <2>3. Go(t, after)
      BY <1>7
  <2> HIDE DEF after, token
  <2>4. TokenTask(after)
      BY <2>1, <2>2 DEF TokenTask, SameToken, Absent
  <2> QED
      BY <1>1, <1>3, <2>3, <2>4, TokenSteps
<1>8. CASE Go(t, Answer(told, finished))
  <2>1. DOMAIN made = DOMAIN NoResponse /\ made.token = task.response.token
    <3>1. DOMAIN MakeResponse(deed.result, RouteOf(t).status) = DOMAIN NoResponse
        BY MadeHasNoFile
    <3> QED
        BY <3>1 DEF NoResponse
  <2>2. HasFields(told) /\ told.returned = Told(task)
      BY <1>2 DEF HasFields, Idle
  <2> HIDE DEF made
  <2>3. finished.token = task.response.token
      BY <2>1 DEF FinishAuth, NoResponse
  <2>4. Told(task) = IF task.issued = {} THEN {} ELSE {task.issued}
      BY DEF Told
  <2>5. BringsToken(finished.token, Told(task))
    <3>1. (task.issued = {}) <=> (task.response.token = {})
        BY <1>2 DEF SameToken, Absent
    <3> HIDE DEF finished
    <3> QED
        BY <1>2, <2>3, <2>4, <3>1 DEF BringsToken
  <2> HIDE DEF told, finished
  <2>6. TokenTask(Answer(told, finished))
      BY <2>2, <2>5, AnswerBringsToken
  <2> QED
      BY <1>1, <1>3, <1>8, <2>6, TokenSteps
<1> QED
    BY <1>1, <1>5, <1>6, <1>7, <1>8

LEMMA DeliverToken ==
    ASSUME AppInv, TokenInv, app.auth = "jwt", NEW t \in Tasks, Deliver(t)
    PROVE  TokenInv'
<1> DEFINE response == at[t].response
           after == IF HasFile(response) THEN [at[t] EXCEPT !.stage = "opening"] ELSE Done
<1>1. /\ at[t].stage = "answering" /\ Go(t, after) /\ app' = app
      /\ bearer' = IF response.token = {} THEN bearer ELSE response.token
      /\ mind' = IF at[t].returned = {} THEN mind ELSE Only(at[t].returned)
    BY DEF Deliver
<1>2. HasFields(at[t]) /\ BringsToken(response.token, at[t].returned) /\ SameToken(bearer, mind)
    BY <1>1 DEF AppInv, TaskInv, TokenInv, TokenTask
<1>3. SameToken(bearer', mind')
  <2>1. CASE at[t].returned = {}
      BY <1>1, <1>2, <2>1 DEF BringsToken
  <2>2. CASE at[t].returned # {}
    <3>1. PICK told \in at[t].returned :
              at[t].returned = {told} /\ response.token # {} /\ SameToken(response.token, told)
        BY <1>2, <2>2 DEF BringsToken
    <3>2. Only(at[t].returned) = told
        BY <3>1, OnlyOne
    <3>3. bearer' = response.token /\ mind' = told
        BY <1>1, <3>1, <3>2
    <3> QED
        BY <3>1, <3>3
  <2> QED
      BY <2>1, <2>2
<1>4. after.stage \in {"opening", "done"}
    BY <1>2 DEF HasFields, Done, Idle
<1> HIDE DEF after
<1>5. TokenTask(after)
    BY <1>4 DEF TokenTask
<1> QED
    BY <1>1, <1>3, <1>5, TokenSteps

LEMMA TokenStep ==
    ASSUME AppInv, CaseInv, TokenInv, [Next]_vars
    PROVE  TokenInv'
<1>1. app' = app
    BY DEF Next, vars, Ask, Bind, Handle, Deliver, Open, Read, Cut, Tick, Rotate,
           Rewrite, Unlink
<1>2. CASE app.auth # "jwt"
    BY <1>1, <1>2 DEF TokenInv
<1>3. CASE app.auth = "jwt"
  <2>1. ASSUME NEW t \in Tasks, Ask(t) PROVE TokenInv'
      BY <1>3, <2>1, AskToken
  <2>2. ASSUME NEW t \in Tasks, Bind(t) PROVE TokenInv'
      BY <1>3, <2>2, BindToken
  <2>3. ASSUME NEW t \in Tasks, Handle(t) PROVE TokenInv'
      BY <1>3, <2>3, HandleToken
  <2>4. ASSUME NEW t \in Tasks, Deliver(t) PROVE TokenInv'
      BY <1>3, <2>4, DeliverToken
  <2>5. ASSUME NEW t \in Tasks, Open(t) \/ Read(t) \/ Cut(t) PROVE TokenInv'
    <3>1. PICK after : Go(t, after) /\ after.stage \in {"done", "reading"}
        BY <2>5, SendsOn
    <3>2. TokenTask(after)
        BY <3>1 DEF TokenTask
    <3>3. SameToken(bearer', mind')
        BY <1>3, <2>5 DEF TokenInv, Open, Read, Cut
    <3> QED
        BY <1>1, <1>3, <3>1, <3>2, <3>3, TokenSteps
  <2>6. CASE Tick \/ Rotate \/ Rewrite \/ Unlink \/ UNCHANGED vars
    <3>1. UNCHANGED <<at, bearer, mind>>
        BY <2>6 DEF Tick, Rotate, Rewrite, Unlink, vars
    <3> QED
        BY <1>1, <3>1 DEF TokenInv, TokenTask, Tokenless
  <2> QED
      BY <2>1, <2>2, <2>3, <2>4, <2>5, <2>6 DEF Next
<1> QED
    BY <1>2, <1>3

LEMMA TokenStarts ==
    ASSUME Init
    PROVE  TokenInv
<1>1. bearer = Absent /\ mind = {} /\ at = [t \in Tasks |-> Idle]
    BY DEF Init
<1>2. TokenTask(Idle)
    BY DEF TokenTask, Tokenless, Idle, NoResponse
<1> QED
    BY <1>1, <1>2 DEF TokenInv, SameToken
-----------------------------------------------------------------------------
\* An identity and what the browser was told it is.
IsKnown(identity, held) ==
    /\ identity = Absent <=> Lookup(held, "user") = {}
    /\ \A caller \in identity : caller.roles = UNION Lookup(held, "roles")

MayPass(guard, held) ==
    guard.needed =>
        /\ Lookup(held, "user") # {}
        /\ \A i \in DOMAIN guard.requirements :
               guard.requirements[i] = {}
                   \/ guard.requirements[i] \intersect UNION Lookup(held, "roles") # {}

AdmitRefusal(e, task) ==
    LET held == task.held
    IN  /\ e.status = 401 => Lookup(held, "user") = {}
        /\ e.status = 403 => /\ Lookup(held, "user") # {}
                             /\ ~MayPass(app.routes[task.route].guard, held)
        /\ e.status = 422 => BadArguments(task) # {} /\ e.fields = BadArguments(task)
AdmitTask(task) ==
    task.request # {} =>
        LET route == app.routes[task.route]
        IN  /\ task.stage = "binding" =>
                   /\ MayPass(route.guard, task.held)
                   /\ Authenticates(route) /\ task.identity = Absent =>
                          Lookup(task.held, "user") = {}
            /\ task.ran => MayPass(route.guard, task.held) /\ BadArguments(task) = {}
            /\ ~task.ran => \A e \in task.cause : AdmitRefusal(e, task)
AdmitInv == \A t \in Tasks : AdmitTask(at[t])

LEMMA SessionIsHeld ==
    ASSUME NEW session
    PROVE  IsKnown(SessionIdentity(session), session.data)
<1> DEFINE identity == SessionIdentity(session)
           users == Lookup(session.data, "user")
           roles == UNION Lookup(session.data, "roles")
<1>1. identity = {[id |-> u, roles |-> roles] : u \in users}
    BY DEF SessionIdentity
<1> HIDE DEF identity, users, roles
<1>2. identity = {} <=> users = {}
    BY <1>1
<1>3. ASSUME NEW caller \in identity PROVE caller.roles = roles
  <2>1. PICK u \in users : caller = [id |-> u, roles |-> roles]
      BY <1>1, <1>3
  <2> QED
      BY <2>1
<1> QED
    BY <1>2, <1>3 DEF IsKnown, Absent, identity, users, roles

LEMMA TokenIsHeld ==
    ASSUME TokenInv, app.auth = "jwt"
    PROVE  LET held == UNION {m.data : m \in Genuine}
           IN  IF TokenRefused(bearer, clock) THEN Lookup(held, "user") = {}
               ELSE IsKnown(TokenIdentity(bearer), held)
<1> DEFINE held == UNION {m.data : m \in Genuine}
<1>1. SameToken(bearer, mind)
    BY DEF TokenInv
<1>2. Lookup({}, "user") = {}
    BY DEF Lookup
<1>3. CASE bearer = Absent
  <2>1. mind = {}
      BY <1>1, <1>3 DEF SameToken
  <2>2. held = {}
      BY <2>1 DEF Genuine
  <2>3. TokenIdentity(bearer) = {} /\ ~TokenRefused(bearer, clock)
      BY <1>3 DEF TokenIdentity, TokenRefused, Absent
  <2> HIDE DEF held
  <2>4. IsKnown({}, {})
      BY <1>2 DEF IsKnown, Absent
  <2> QED
      BY <2>2, <2>3, <2>4 DEF held
<1>4. CASE bearer # Absent
  <2>1. PICK token \in bearer, m \in mind :
            bearer = {token} /\ mind = {m} /\ Vouches(token, m)
      BY <1>1, <1>4 DEF SameToken
  <2>2. Only(bearer) = token
      BY <2>1, OnlyOne
  <2>3. PICK user : /\ token.claims.sub = {user}
                    /\ m.data = {<<"user", user>>, <<"roles", token.claims.roles>>}
      BY <2>1 DEF Vouches
  <2>4. TokenRefused(bearer, clock) <=> ~CheckClaims(token.claims, clock)
      BY <1>4, <2>1, <2>2, <2>3 DEF TokenRefused, Decodes, Vouches, Absent
  <2>5. CheckClaims(token.claims, clock) <=> m \in Genuine
    <3>1. CheckClaims(token.claims, clock)
              <=> m.from <= clock /\ \A end \in m.until : clock <= end
        BY <2>1 DEF Vouches
    <3>2. m.key = 0
        BY <2>1 DEF Vouches
    <3> QED
        BY <2>1, <3>1, <3>2 DEF Genuine
  <2>6. Genuine \subseteq {m}
      BY <2>1 DEF Genuine
  <2>7. CASE m \notin Genuine
    <3>1. held = {}
        BY <2>6, <2>7
    <3> HIDE DEF held
    <3> QED
        BY <1>2, <2>4, <2>5, <2>7, <3>1 DEF held
  <2>8. CASE m \in Genuine
    <3>1. held = m.data
      <4>1. Genuine = {m}
          BY <2>6, <2>8
      <4> QED
          BY <4>1
    <3> DEFINE roles == token.claims.roles
    <3>2. TokenIdentity(bearer) = {[id |-> user, roles |-> roles]}
        BY <1>4, <2>2, <2>3 DEF TokenIdentity
    <3> HIDE DEF held, roles
    <3>3. Lookup(held, "user") = {user}
      <4> DEFINE u == <<"user", user>>
                 r == <<"roles", roles>>
      <4>1. u[1] = "user" /\ u[2] = user /\ r[1] = "roles" /\ held = {u, r}
          BY <2>3, <3>1 DEF roles
      <4> HIDE DEF u, r
      <4>2. {i \in held : i[1] = "user"} = {u}
          BY <4>1
      <4> QED
          BY <4>1, <4>2 DEF Lookup
    <3>4. Lookup(held, "roles") = {roles}
      <4> DEFINE u == <<"user", user>>
                 r == <<"roles", roles>>
      <4>1. u[1] = "user" /\ r[1] = "roles" /\ r[2] = roles /\ held = {u, r}
          BY <2>3, <3>1 DEF roles
      <4> HIDE DEF u, r
      <4>2. {i \in held : i[1] = "roles"} = {r}
          BY <4>1
      <4> QED
          BY <4>1, <4>2 DEF Lookup
    <3>5. UNION Lookup(held, "roles") = roles
        BY <3>4
    <3>6. IsKnown(TokenIdentity(bearer), held)
      <4> DEFINE caller == [id |-> user, roles |-> roles]
      <4>1. caller.roles = roles
          OBVIOUS
      <4> HIDE DEF caller
      <4>2. TokenIdentity(bearer) = {caller}
          BY <3>2 DEF caller
      <4> QED
          BY <3>3, <3>5, <4>1, <4>2 DEF IsKnown, Absent
    <3> QED
        BY <2>4, <2>5, <2>8, <3>6 DEF held
  <2> QED
      BY <2>7, <2>8
<1> QED
    BY <1>3, <1>4

\* Whoever the strategy takes the browser for is whom it was told it is.
LEMMA IdentityIsHeld ==
    ASSUME SessionRemembers, TokenInv, app.auth \in {"session", "jwt"}, NEW task
    PROVE  LET held == UNION {m.data : m \in Genuine}
           IN  IF app.auth = "jwt" /\ TokenRefused(bearer, clock)
               THEN Lookup(held, "user") = {} ELSE IsKnown(Identity(task), held)
<1>1. CASE app.auth = "session"
    BY <1>1, SessionIsHeld DEF SessionRemembers, Identity
<1>2. CASE app.auth = "jwt"
    BY <1>2, TokenIsHeld DEF Identity
<1> QED
    BY <1>1, <1>2

\* The guard lets whoever it is pass or not, as declared.
LEMMA GuardChecks ==
    ASSUME NEW guard, NEW identity, NEW held, IsKnown(identity, held)
    PROVE  LET check == IF guard.needed THEN Check(guard, identity) ELSE ""
           IN  /\ check = "unauthenticated" => Lookup(held, "user") = {}
               /\ check = "forbidden" => Lookup(held, "user") # {} /\ ~MayPass(guard, held)
               /\ check = "" => MayPass(guard, held)
<1> DEFINE lacking == \E i \in DOMAIN guard.requirements :
               /\ guard.requirements[i] # {}
               /\ guard.requirements[i] \intersect UNION Lookup(held, "roles") = {}
<1>1. CASE ~guard.needed
    BY <1>1 DEF MayPass
<1>2. CASE guard.needed /\ identity = Absent
  <2>1. Check(guard, identity) = "unauthenticated"
      BY <1>2 DEF Check
  <2> QED
      BY <1>2, <2>1 DEF IsKnown
<1>3. CASE guard.needed /\ identity # Absent
  <2>1. Only(identity) \in identity
      BY <1>3 DEF Only, Absent
  <2>2. Only(identity).roles = UNION Lookup(held, "roles") /\ Lookup(held, "user") # {}
      BY <1>3, <2>1 DEF IsKnown
  <2>3. Check(guard, identity) = IF lacking THEN "forbidden" ELSE ""
      BY <1>3, <2>2 DEF Check
  <2>4. MayPass(guard, held) <=> ~lacking
      BY <1>3, <2>2 DEF MayPass
  <2> HIDE DEF lacking
  <2> QED
      BY <1>3, <2>2, <2>3, <2>4
<1> QED
    BY <1>1, <1>2, <1>3

-----------------------------------------------------------------------------
LEMMA AdmitTaskOf ==
    ASSUME NEW task, task.request # {} => task.ran = FALSE, task.cause = {}, task.stage # "binding"
    PROVE  AdmitTask(task)
    BY DEF AdmitTask

\* What the strategy and the guard decide is right, by what the browser was
\* told.
LEMMA VerdictAdmits ==
    ASSUME SessionRemembers, TokenInv, AppInv, NEW task, NEW after, task.ran = FALSE,
           task.cause = {}, task.held = UNION {m.data : m \in Genuine},
           Verdict(after, task, app.routes[after.route])
    PROVE  AdmitTask(after)
<1> DEFINE route == app.routes[after.route]
           refused == app.auth = "jwt" /\ TokenRefused(bearer, clock)
           identity == Identity(task)
           check == IF route.guard.needed THEN Check(route.guard, identity) ELSE ""
           held == task.held
<1>1. SameCase(after, task) /\ after.ran = FALSE /\ after.held = held
    BY DEF Verdict, Refused, SameCase
<1>2. app.auth \in {"none", "session", "jwt"}
    BY AppRoutes, AppsAssumption
<1>3. app.auth # "none" =>
          IF refused THEN Lookup(held, "user") = {} ELSE IsKnown(identity, held)
    BY <1>2, IdentityIsHeld
<1>4. app.auth # "none" /\ ~refused =>
          /\ check = "unauthenticated" => Lookup(held, "user") = {}
          /\ check = "forbidden" => Lookup(held, "user") # {} /\ ~MayPass(route.guard, held)
          /\ check = "" => MayPass(route.guard, held)
    BY <1>3, GuardChecks
<1>5. ASSUME NEW exc, Refused(after, task, exc), AdmitRefusal(exc, after)
      PROVE  AdmitTask(after)
    BY <1>1, <1>5 DEF Refused, AdmitTask
<1>6. CASE app.auth = "none" /\ Refused(after, task, Error("RuntimeError", 500))
  <2>1. AdmitRefusal(Error("RuntimeError", 500), after)
      BY DEF AdmitRefusal, Error
  <2> QED
      BY <1>5, <1>6, <2>1
<1>7. ASSUME Lookup(held, "user") = {}, Refused(after, task, Unauthenticated)
      PROVE  AdmitTask(after)
  <2>1. Unauthenticated.status = 401
      BY DEF Unauthenticated, Error
  <2>2. AdmitRefusal(Unauthenticated, after)
      BY <1>1, <1>7, <2>1 DEF AdmitRefusal
  <2> QED
      BY <1>5, <1>7, <2>2
<1>8. CASE /\ app.auth # "none" /\ ~refused
           /\ check = "forbidden" /\ Refused(after, task, Forbidden)
  <2>1. Forbidden.status = 403
      BY DEF Forbidden, Error
  <2>2. Lookup(held, "user") # {} /\ ~MayPass(route.guard, held)
      BY <1>4, <1>8
  <2>3. AdmitRefusal(Forbidden, after)
      BY <1>1, <2>1, <2>2 DEF AdmitRefusal
  <2> QED
      BY <1>5, <1>8, <2>3
<1>9. CASE /\ app.auth # "none" /\ ~refused
           /\ check = "" /\ after.identity = identity
           /\ after.stage = "binding" /\ SameCase(after, task)
           /\ after.cause = task.cause
  <2>1. MayPass(route.guard, held) /\ (identity = Absent => Lookup(held, "user") = {})
    <3>1. MayPass(route.guard, held)
        BY <1>4, <1>9
    <3>2. IsKnown(identity, held)
        BY <1>3, <1>9
    <3> QED
        BY <3>1, <3>2 DEF IsKnown
  <2> HIDE DEF identity, check, refused
  <2> QED
      BY <1>1, <1>9, <2>1 DEF AdmitTask
<1>10. \/ app.auth = "none" /\ Refused(after, task, Error("RuntimeError", 500))
       \/ refused /\ Refused(after, task, Unauthenticated)
       \/ /\ app.auth # "none" /\ ~refused
          /\ \/ check = "unauthenticated" /\ Refused(after, task, Unauthenticated)
             \/ check = "forbidden" /\ Refused(after, task, Forbidden)
             \/ /\ check = "" /\ after.identity = identity
                /\ after.stage = "binding" /\ SameCase(after, task)
                /\ after.cause = task.cause
    BY DEF Verdict
<1>11. CASE refused /\ Refused(after, task, Unauthenticated)
    BY <1>3, <1>7, <1>11
<1>12. CASE /\ app.auth # "none" /\ ~refused /\ check = "unauthenticated"
            /\ Refused(after, task, Unauthenticated)
    BY <1>4, <1>7, <1>12
<1> HIDE DEF refused, check, identity
<1> QED
    BY <1>6, <1>8, <1>9, <1>10, <1>11, <1>12

LEMMA DispatchAdmits ==
    ASSUME SessionRemembers, TokenInv, AppInv, NEW task, NEW after, Undecided(task),
           task.held = UNION {m.data : m \in Genuine},
           OfMount(after, task) \/ OfRouter(after, task)
    PROVE  AdmitTask(after)
<1>1. ASSUME after.stage = "answering", after.ran = FALSE,
             \A e \in after.cause : e.status \in {404, 405}
      PROVE  AdmitTask(after)
    BY <1>1 DEF AdmitTask, AdmitRefusal
<1>2. CASE OfMount(after, task)
    BY <1>1, <1>2 DEF OfMount, SameCase, Undecided
<1>3. ASSUME NEW exc, Refused(after, task, exc), exc.status \in {404, 405}
      PROVE  AdmitTask(after)
    BY <1>1, <1>3 DEF Refused, SameCase, Undecided
<1>4. CASE OfRouter(after, task)
  <2> DEFINE found == Resolve(app.routes, Only(task.request).path)
             other == [HTTPError(405) EXCEPT !.allow = AllowedBy(found)]
             route == app.routes[after.route]
  <2>1. HTTPError(404).status = 404 /\ other.status = 405
      BY DEF HTTPError, Error
  <2>2. \/ Refused(after, task, HTTPError(404))
        \/ Refused(after, task, other)
        \/ \E chosen :
               /\ SameCase(after, chosen) /\ chosen.held = task.held
               /\ chosen.ran = task.ran /\ chosen.cause = task.cause
               /\ IF Authenticates(route) THEN Verdict(after, chosen, route)
                  ELSE after.stage = "binding" /\ after.cause = task.cause
    <3> HIDE DEF found, route
    <3> QED
        BY <1>4 DEF OfRouter, found, route
  <2> HIDE DEF other
  <2>3. ASSUME NEW chosen, SameCase(after, chosen), chosen.held = task.held,
               chosen.ran = task.ran, chosen.cause = task.cause,
               IF Authenticates(route) THEN Verdict(after, chosen, route)
               ELSE after.stage = "binding" /\ after.cause = task.cause
        PROVE  AdmitTask(after)
    <3>1. CASE Authenticates(route)
        BY <2>3, <3>1, VerdictAdmits DEF Undecided
    <3>2. CASE ~Authenticates(route)
      <4>1. MayPass(route.guard, after.held)
          BY <3>2 DEF Authenticates, MayPass
      <4>2. after.ran = FALSE /\ after.cause = {}
          BY <2>3, <3>2 DEF SameCase, Undecided
      <4> HIDE DEF route
      <4> QED
          BY <3>2, <4>1, <4>2 DEF AdmitTask, route
    <3> QED
        BY <3>1, <3>2
  <2> QED
      BY <1>3, <2>1, <2>2, <2>3
<1> QED
    BY <1>2, <1>4

LEMMA AdmitStays ==
    ASSUME app' = app, \A u \in Tasks : AdmitTask(at'[u])
    PROVE  AdmitInv'
<1> SUFFICES ASSUME NEW u \in Tasks
             PROVE  AdmitTask(at[u])'
    BY DEF AdmitInv
<1>1. BadArguments(at[u])' = BadArguments(at'[u])
    BY DEF BadArguments
<1>2. ASSUME NEW e
      PROVE  AdmitRefusal(e, at[u])' <=> AdmitRefusal(e, at'[u])
    BY <1>1 DEF AdmitRefusal
<1> QED
    BY <1>1, <1>2 DEF AdmitTask

LEMMA AdmitSteps ==
    ASSUME AppInv, AdmitInv, NEW t \in Tasks, NEW after, Go(t, after), AdmitTask(after), app' = app
    PROVE  AdmitInv'
<1>1. at'[t] = after /\ \A u \in Tasks : u # t => at'[u] = at[u]
    BY DEF AppInv, Go
<1>2. \A u \in Tasks : AdmitTask(at'[u])
    BY <1>1 DEF AdmitInv
<1> QED
    BY <1>2, AdmitStays

\* The steps behind the dispatch.
LEMMA MovedAdmits ==
    ASSUME AppInv, NEW task, NEW after, CaseTask(task), RouteTask(task), AdmitTask(task),
           Moved(after, task)
    PROVE  AdmitTask(after)
<1> DEFINE route == app.routes[task.route]
<1>1. ASSUME after.request = task.request, after.route = task.route, after.held = task.held
      PROVE  BadArguments(after) = BadArguments(task)
    BY <1>1 DEF BadArguments
<1>2. CASE after = Done
    BY <1>2 DEF Done, Idle, AdmitTask
<1>3. CASE Sending(after, task)
    BY <1>1, <1>3 DEF Sending, SameCase, AdmitTask, AdmitRefusal
<1>4. CASE Handled(after, task)
    BY <1>1, <1>4 DEF Handled, SameCase, CaseTask, AdmitTask
<1>5. ASSUME task.stage = "binding"
      PROVE  /\ Build(task) = {} => BadArguments(task) = {}
             /\ \A e \in Build(task) :
                    /\ e.status \notin {403, 404, 405}
                    /\ e.status = 401 => task.identity = Absent /\ Authenticates(route)
                    /\ e.status = 422 => BadArguments(task) # {} /\ e.fields = BadArguments(task)
  <2>1. route.binder \in Seq(ToSet(route.binder))
      BY <1>5, AppRoutes, HandlersAssumption DEF RouteTask
  <2> HIDE DEF RouteTask
  <2> QED
      BY <2>1, BuildRefuses DEF Authenticates
<1>6. CASE Runs(after, task)
    BY <1>1, <1>5, <1>6 DEF Runs, AdmitTask
<1>7. ASSUME task.stage = "binding", NEW exc \in Build(task) \union {Disconnected},
             Refused(after, task, exc)
      PROVE  AdmitTask(after)
  <2>1. Disconnected.status = 400
      BY DEF Disconnected, Error
  <2>2. AdmitTask(task) /\ task.ran = FALSE
      BY <1>7 DEF CaseTask, Undecided
  <2>3. task.request # {} => AdmitRefusal(exc, task)
    <3>1. CASE exc = Disconnected
        BY <2>1, <3>1 DEF AdmitRefusal
    <3>2. CASE exc \in Build(task)
        BY <1>5, <1>7, <2>2, <3>2 DEF AdmitTask, AdmitRefusal
    <3> QED
        BY <1>7, <3>1, <3>2
  <2> QED
      BY <1>1, <1>7, <2>2, <2>3 DEF Refused, SameCase, AdmitTask, AdmitRefusal
<1> QED
    BY <1>2, <1>3, <1>4, <1>6, <1>7 DEF Moved

LEMMA AdmitStep ==
    ASSUME AppInv, CaseInv, RouteInv, TokenInv, SessionRemembers, AdmitInv, [Next]_vars
    PROVE  AdmitInv'
<1>1. ASSUME NEW t \in Tasks, Ask(t) PROVE AdmitInv'
  <2>1. PICK r \in app.offers[t] : \E asked, after : Asked(t, r, asked, after)
      BY <1>1, AskMoves
  <2>2. PICK asked, after : Asked(t, r, asked, after)
      BY <2>1
  <2>3. /\ Go(t, after) /\ app' = app /\ HasFields(asked) /\ Undecided(asked)
        /\ Fileless(asked.response) /\ asked.held = UNION {m.data : m \in Genuine}
        /\ \/ after = Dispatch(asked)
           \/ after.stage = "answering" /\ SameCase(after, asked) /\ after.cause = {}
      BY <2>2 DEF Asked
  <2>4. AdmitTask(after)
    <3>1. CASE after = Dispatch(asked)
        BY <2>3, <3>1, DispatchMoves, DispatchAdmits
    <3>2. CASE after.stage = "answering" /\ SameCase(after, asked) /\ after.cause = {}
        BY <2>3, <3>2 DEF SameCase, Undecided, AdmitTask
    <3> QED
        BY <2>3, <3>1, <3>2
  <2> QED
      BY <2>3, <2>4, AdmitSteps
<1>2. ASSUME NEW t \in Tasks,
             Bind(t) \/ Handle(t) \/ Deliver(t) \/ Open(t) \/ Read(t) \/ Cut(t)
      PROVE  AdmitInv'
  <2>1. PICK after : Go(t, after) /\ app' = app /\ Moved(after, at[t])
      BY <1>2, BindMoves, HandleMoves, SendMoves
  <2>2. CaseTask(at[t]) /\ RouteTask(at[t]) /\ AdmitTask(at[t])
      BY DEF CaseInv, RouteInv, AdmitInv
  <2> QED
      BY <2>1, <2>2, MovedAdmits, AdmitSteps
<1>3. CASE Tick \/ Rotate \/ Rewrite \/ Unlink \/ UNCHANGED vars
  <2>1. app' = app /\ at' = at
      BY <1>3 DEF Tick, Rotate, Rewrite, Unlink, vars
  <2> QED
      BY <2>1, AdmitStays DEF AdmitInv
<1> QED
    BY <1>1, <1>2, <1>3 DEF Next

\* For all applications, guards, secrets and clocks: a handler runs only with
\* valid arguments and for a caller the browser was told it is, with a role of
\* every requirement, and 401, 403 and 422 are said for their reasons only,
\* though the caller is settled before the body has come.
THEOREM AdmittedAsDeclaredHolds == Spec => []AdmittedAsDeclared
<1>1. Init => CaseInv /\ RouteInv /\ TokenInv /\ AdmitInv
  <2>1. ASSUME Init PROVE AdmitInv
      BY <2>1 DEF Init, Idle, AdmitInv, AdmitTask
  <2> QED
      BY <2>1, CaseStarts, RouteStarts, TokenStarts
<1>2. AppInv /\ SessionRemembers /\ CaseInv /\ RouteInv /\ TokenInv /\ AdmitInv /\ [Next]_vars
          => CaseInv' /\ RouteInv' /\ TokenInv' /\ AdmitInv'
    BY CaseStep, RouteStep, TokenStep, AdmitStep
<1>3. AdmitInv => AdmittedAsDeclared
  <2> SUFFICES ASSUME AdmitInv, NEW t \in Tasks, at[t].request # {}
               PROVE  LET task == at[t]
                          guard == RouteOf(t).guard
                      IN  /\ task.ran => MayPass(guard, task.held) /\ BadArguments(task) = {}
                          /\ \A e \in task.cause : ~task.ran => AdmitRefusal(e, task)
      BY DEF AdmittedAsDeclared, MayPass, BadArguments, AdmitRefusal, RouteOf, RequestOf
  <2> QED
      BY DEF AdmitInv, AdmitTask, RouteOf
<1> QED
    BY <1>1, <1>2, <1>3, AppInvariant, SessionRemembersHolds, PTL DEF Spec
=============================================================================
