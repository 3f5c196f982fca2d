----------------------------- MODULE WholeForm -----------------------------
(***************************************************************************)
(* How one reads a form who has all of the body before them, or all of a   *)
(* part of it: the places one comes to, symbol by symbol, with no chunks,  *)
(* no buffer and no writes that wait.  It is what MultipartForm, which is  *)
(* handed the body in pieces, is compared with.                            *)
(***************************************************************************)
EXTENDS MultipartForm

AtTheTop == [at |-> 0, state |-> "preamble", parts |-> 0, target |-> 0, text |-> <<>>,
             fields |-> <<>>, files |-> <<>>, failure |-> ""]

\* What has been read of a form that is refused does not matter.
Unformed(why) == [AtTheTop EXCEPT !.state = "failed", !.failure = why]

HeadEnd == <<"CR", "LF", "CR", "LF">>

\* The mark lies behind the first p symbols of b.
Lies(b, p, mark) ==
    p + Len(mark) <= Len(b) /\ \A i \in DOMAIN mark : b[p + i] = mark[i]

HeadEnds(b, p) == {i \in p..Len(b) : Lies(b, i, HeadEnd)}

\* The end of the body comes before that of what is read next.
Starved(b, f) ==
    CASE f.state = "preamble" -> f.at + Len(Opening) > Len(b)
      [] f.state = "boundary" -> f.at + 2 > Len(b)
      [] f.state = "headers"  -> HeadEnds(b, f.at) = {}
      [] f.state = "body"     -> f.at + Len(Delimiter) > Len(b)
      [] OTHER                -> FALSE

\* The reader gives up on the headers of a part when it has so much of them
\* and not their end.
TooMuchHead(b, f) ==
    /\ f.state = "headers"
    /\ Len(b) - f.at > MaxPartHeaders
    /\ \A i \in HeadEnds(b, f.at) : i + Len(HeadEnd) - f.at > MaxPartHeaders + 1

BoundaryOn(b, f) ==
    IF Lies(b, f.at, <<"-", "-">>) THEN [f EXCEPT !.at = 0, !.state = "finished"]
    ELSE IF ~Lies(b, f.at, <<"CR", "LF">>) \/ f.parts >= MaxParts THEN Unformed("400")
    ELSE [f EXCEPT !.at = @ + 2, !.state = "headers", !.parts = @ + 1]

HeadersOn(b, f) ==
    LET end  == Min(HeadEnds(b, f.at))
        kind == PartKind(SubSeq(b, f.at + 1, end))
    IN  IF kind = "noname" THEN Unformed("400")
        ELSE [f EXCEPT !.at = end + Len(HeadEnd), !.state = "body", !.text = <<>>,
                 !.target = IF kind = "file" THEN Len(f.files) + 1 ELSE 0,
                 !.files = IF kind = "file" THEN Append(@, <<>>) ELSE @]

\* One more symbol of a field, or of a file.
OneMore(b, f) ==
    LET symbol == b[f.at + 1]
    IN  IF f.target = 0
        THEN IF Len(f.text) >= MaxFieldSize THEN Unformed("413")
             ELSE [f EXCEPT !.at = @ + 1, !.text = Append(@, symbol)]
        ELSE IF Len(f.files[f.target]) >= MaxFileSize THEN Unformed("413")
             ELSE [f EXCEPT !.at = @ + 1,
                            !.files[f.target] = Append(@, symbol)]

PartEnds(f) ==
    [f EXCEPT !.at = @ + Len(Delimiter), !.state = "boundary", !.target = 0,
              !.fields = IF f.target = 0 THEN Append(@, f.text) ELSE @]

\* What is read next, if it is there.
ReadOn(b, f) ==
    CASE f.state = "preamble" ->
             IF Lies(b, f.at, Opening)
             THEN [f EXCEPT !.at = @ + Len(Opening), !.state = "boundary"]
             ELSE [f EXCEPT !.at = @ + 1]
      [] f.state = "boundary" -> BoundaryOn(b, f)
      [] f.state = "headers"  -> HeadersOn(b, f)
      [] f.state = "body"     -> IF Lies(b, f.at, Delimiter) THEN PartEnds(f)
                                 ELSE OneMore(b, f)

\* A body that ends too early is no form, one of which more will come may be.
FormOn(b, whole, f) ==
    IF f.state \in {"failed", "finished"} THEN f
    ELSE IF ~Starved(b, f) THEN ReadOn(b, f)
    ELSE IF whole THEN Unformed("400") ELSE f

\* All the places one comes to; each step but the last takes a symbol at least.
\* In sets of one place, which TLC evaluates as it goes: its stack is small.
FormCourse(b, whole) ==
    LET c[n \in Nat] == IF n = 0 THEN {AtTheTop}
                        ELSE {FormOn(b, whole, f) : f \in c[n - 1]}
    IN  UNION {c[n] : n \in 0..(Len(b) + 1)}
=============================================================================
