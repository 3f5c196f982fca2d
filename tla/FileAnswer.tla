----------------------------- MODULE FileAnswer -----------------------------
(***************************************************************************)
(* What a FileResponse makes of a file and of the conditions that a client *)
(* sends with its request (response.py).  A file has a modification time   *)
(* and a size, and its ETag is the two of them.  A header is the set of    *)
(* what it says, {} when it is not there.                                  *)
(***************************************************************************)
EXTENDS Integers, FiniteSetsExt

Unconditional ==
    [match |-> {}, any |-> FALSE, since |-> {}, range |-> {},
     ifRange |-> {}, ifRangeDate |-> {}]

Etag(stat) == <<stat.mtime, stat.size>>

\* _is_fresh(): If-None-Match wins over If-Modified-Since, and a weak
\* validator passes for the strong one.
IsFresh(conditions, stat) ==
    IF conditions.any \/ conditions.match # {}
    THEN conditions.any \/ Etag(stat) \in conditions.match
    ELSE \E date \in conditions.since : stat.mtime <= date

\* A mutation, for the checks: If-Range is not asked.
RangeAlwaysApplies(conditions, stat) == TRUE

\* _range_applies(): If-Range is a validator or a date.
RangeApplies(conditions, stat) ==
    /\ conditions.ifRange \subseteq {Etag(stat)}
    /\ \A date \in conditions.ifRangeDate : stat.mtime <= date

\* _parse_range(): of "-n" the first is missing, of "n-" the last; both are
\* inclusive.  {} is a range to ignore, and the empty range names nothing
\* inside the file.
Nothing == [start |-> 0, end |-> -1]
\* A mutation, for the checks: the end is one offset too far.
ClipAfter(end, size) == Min({end, size})
Clip(end, size) == Min({end, size - 1})
ParseRange(range, size) ==
    LET offsets(r) ==
            LET start == IF r.first = {} THEN Max({size - Max(r.last), 0}) ELSE Max(r.first)
                end == IF r.first = {} \/ r.last = {} THEN size - 1 ELSE Max(r.last)
            IN  IF \/ r.first = {} /\ (Max(r.last) <= 0 \/ size = 0)
                   \/ start >= size \/ start > end
                THEN Nothing
                ELSE [start |-> start, end |-> Clip(end, size)]
    IN  {offsets(r) : r \in {r \in range : r.single /\ r.first \union r.last # {}}}

\* __init__() and _apply_conditions(): the status, and which of the file.
FileResponse(stat, conditions) ==
    LET whole == [status |-> 200, start |-> 0, length |-> stat.size, etag |-> {Etag(stat)}]
        part(r) ==
            CASE r = Nothing -> [whole EXCEPT !.status = 416, !.length = 0]
              [] r # Nothing /\ ~RangeApplies(conditions, stat) -> whole
              [] OTHER -> [whole EXCEPT !.status = 206, !.start = r.start,
                                        !.length = r.end - r.start + 1]
    IN  IF IsFresh(conditions, stat) THEN [whole EXCEPT !.status = 304, !.length = 0]
        ELSE LET requested == ParseRange(conditions.range, stat.size)
             IN  IF requested = {} THEN whole ELSE part(CHOOSE r \in requested : TRUE)
=============================================================================
