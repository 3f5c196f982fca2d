---------------------------- MODULE WholeStream ----------------------------
(***************************************************************************)
(* What there is to read in a stream that lies there whole: the places a   *)
(* parser comes to that has no segments to wait for, line by line and, in  *)
(* a body, symbol by symbol.  It is what RequestParser, which sees of the  *)
(* stream only what has come, is compared with.                            *)
(***************************************************************************)
EXTENDS RequestParser

\* With none a parser would refuse the first half of an empty line, which one
\* who has both of it skips - and any request.
ASSUME RequestLineAssumption == MaxRequestLine > 0

\* Where the parser is.  Behind an error it reads no more.
Place == [at |-> IF parser.state = "error" THEN 0 ELSE pos,
          parser |-> parser, messages |-> messages]

Beginning == [at |-> 0, parser |-> NewParser, messages |-> <<>>]

Rejected(c, status) ==
    [at |-> 0, messages |-> c.messages,
     parser |-> [c.parser EXCEPT !.state = "error", !.status = status]]

LineEndings(s, p) == {i \in (p + 1)..Len(s) : s[i] = "LF"}
EmptyLine(s, p) == p + 2 <= Len(s) /\ s[p + 1] = "CR" /\ s[p + 2] = "LF"

OfData == {"body_length", "chunk_data"}
OfLines == {"request_line", "headers", "chunk_size", "chunk_crlf", "trailers"}

\* The stream ends before what the parser reads next does.
CutShort(s, c) ==
    IF c.parser.state \in OfData THEN c.at = Len(s) /\ c.parser.remaining > 0
    ELSE LineEndings(s, c.at) = {}

\* How long a line may be, and what is answered to one that is longer.
Limit(p) == CASE p.state = "request_line" -> MaxRequestLine
              [] p.state \in {"headers", "trailers"} -> MaxHeadersSize - p.size
              [] p.state = "chunk_size" -> MaxChunkLine
              [] OTHER -> 2
TooLong(p) == CASE p.state = "request_line" -> 414
                [] p.state \in {"headers", "trailers"} -> 431
                [] OTHER -> 400

Finished(c, p) ==
    [at       |-> c.at,
     parser   |-> [p EXCEPT !.state = "complete"],
     messages |-> [c.messages EXCEPT ![Len(c.messages)].end = TRUE]]

HeadRead(c, size) ==
    LET p       == c.parser
        framing == Framing(p.line, p.fields)
    IN  IF Refusal(p.line, p.fields) # 0
        THEN Rejected(c, Refusal(p.line, p.fields))
        ELSE [at       |-> c.at,
              parser   |-> [p EXCEPT
                  !.state = IF framing.chunked THEN "chunk_size" ELSE "body_length",
                  !.remaining = IF framing.chunked THEN 0 ELSE framing.length,
                  !.body = framing.length,
                  !.size = size],
              messages |-> Append(c.messages,
                  [line |-> p.line, fields |-> p.fields, framing |-> framing,
                   body |-> <<>>, end |-> FALSE])]

\* What the line makes of it, by where the parser is.
LineRead(c, text) ==
    LET p    == c.parser
        size == p.size + Len(text) + 2
    IN  CASE p.state = "request_line" ->
               IF ~Says(DOMAIN RequestLine, text) THEN Rejected(c, 400)
               ELSE IF RequestLine[text[1]].atOnce # 0
               THEN Rejected(c, RequestLine[text[1]].atOnce)
               ELSE [c EXCEPT !.parser = [p EXCEPT !.state = "headers",
                                                   !.line = RequestLine[text[1]]]]
          [] p.state = "headers" ->
               IF text = <<>> THEN HeadRead(c, size)
               ELSE IF ~Says(Fields, text) THEN Rejected(c, 400)
               ELSE IF Len(p.fields) >= MaxHeaderCount THEN Rejected(c, 431)
               ELSE [c EXCEPT !.parser = [p EXCEPT !.size = size,
                                          !.fields = Append(@, Said(text[1]))]]
          [] p.state = "chunk_size" ->
               IF ~Says(DOMAIN ChunkSize, text) THEN Rejected(c, 400)
               ELSE IF ChunkSize[text[1]] = 0
               THEN [c EXCEPT !.parser = [p EXCEPT !.state = "trailers"]]
               ELSE IF p.body + ChunkSize[text[1]] > MaxBodySize THEN Rejected(c, 413)
               ELSE [c EXCEPT !.parser = [p EXCEPT !.state = "chunk_data",
                                          !.body = @ + ChunkSize[text[1]],
                                          !.remaining = ChunkSize[text[1]]]]
          [] p.state = "chunk_crlf" ->
               IF text # <<>> THEN Rejected(c, 400)
               ELSE [c EXCEPT !.parser = [p EXCEPT !.state = "chunk_size"]]
          [] p.state = "trailers" ->
               IF text = <<>> THEN Finished(c, [p EXCEPT !.size = size])
               ELSE IF ~Says(Fields, text) THEN Rejected(c, 400)
               ELSE [c EXCEPT !.parser = [p EXCEPT !.size = size]]

\* The next line.  A message that is cut short is malformed, unless it has
\* not begun.
LineOn(s, c) ==
    LET p    == c.parser
        end  == Min(LineEndings(s, c.at))
        size == IF CutShort(s, c) THEN Len(s) - c.at ELSE end - 1 - c.at
    IN  IF p.state = "request_line" /\ EmptyLine(s, c.at) THEN [c EXCEPT !.at = @ + 2]
        ELSE IF size > Limit(p) THEN Rejected(c, TooLong(p))
        ELSE IF CutShort(s, c)
        THEN IF p.state = "request_line" THEN c ELSE Rejected(c, 400)
        ELSE IF size = 0 \/ s[end - 1] # "CR" THEN Rejected(c, 400)
        ELSE LineRead([c EXCEPT !.at = end], SubSeq(s, c.at + 1, end - 2))

WithBody(ms, body) == [ms EXCEPT ![Len(ms)].body = body]

\* The next symbol of a body, or its end.
DataOn(s, c) ==
    LET p == c.parser
    IN  IF CutShort(s, c) THEN Rejected(c, 400)
        ELSE IF p.remaining > 0
        THEN [at       |-> c.at + 1,
              parser   |-> [p EXCEPT !.remaining = @ - 1],
              messages |-> WithBody(c.messages,
                  Append(c.messages[Len(c.messages)].body, s[c.at + 1]))]
        ELSE IF p.state = "body_length" THEN Finished(c, p)
        ELSE [c EXCEPT !.parser = [p EXCEPT !.state = "chunk_crlf"]]

Onward(s, c) ==
    CASE c.parser.state = "error" -> c
      [] c.parser.state = "complete" ->
           IF c.messages[Len(c.messages)].framing.keepAlive
           THEN [c EXCEPT !.parser = NewParser] ELSE c
      [] c.parser.state \in OfData -> DataOn(s, c)
      [] c.parser.state \in OfLines -> LineOn(s, c)

\* Four places, one behind the other.
Four(s, c) ==
    LET d == Onward(s, c)
        e == Onward(s, d)
    IN  <<c, d, e, Onward(s, e)>>

\* All the places it comes to: a line has two symbols at least.  Four at a
\* time, and in sets, which TLC evaluates as it goes: its stack is small.
Course(s) ==
    LET c[n \in Nat] == IF n = 0 THEN {Four(s, Beginning)}
                        ELSE {Four(s, Onward(s, four[4])) : four \in c[n - 1]}
    IN  {four[i] : four \in UNION {c[n] : n \in 0..(Len(s) \div 2)}, i \in 1..4}

\* Where there is nothing more to read.
Ends(s) == {c \in Course(s) : Onward(s, c) = c}
=============================================================================
