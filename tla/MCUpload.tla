------------------------------ MODULE MCUpload ------------------------------
(***************************************************************************)
(* What clients send, written out from what they mean: requests with a     *)
(* body in either framing, forms in such a body, and malformed ones.       *)
(***************************************************************************)
EXTENDS Upload

Crlf == <<"CR", "LF">>

Lines(ls) == FoldLeft(LAMBDA s, l : s \o l \o Crlf, <<>>, ls)

Request(line, hs) == Lines(<<<<line>>>> \o [i \in DOMAIN hs |-> <<hs[i]>>] \o <<<<>>>>)

\* Chunks of the given sizes, the last chunk and no trailers.
Chunked(size, body) == Lines(<<<<size>>>>) \o body \o Lines(<<<<>>, <<"size0">>, <<>>>>)

Part(hs, data) ==
    Opening \o Crlf \o Lines([i \in DOMAIN hs |-> <<hs[i]>>] \o <<<<>>>>) \o data \o Crlf

Form(parts) == FlattenSeq(parts) \o Opening \o <<"-", "-">>

\* Data that looks like a delimiter until its last symbol.
Tricky == <<"CR", "LF", "-", "x">>

FieldPart == Part(<<"field">>, <<"x", "CR">>)
FilePart  == Part(<<"file">>, Tricky)

\* The forms, each with the symbol for its length as a chunk.
FormBodies ==
    [sizeN |-> <<"x">> \o Form(<<FieldPart, FilePart>>) \o <<"x">>,
     sizeO |-> Form(<<FilePart>>),
     sizeT |-> SubSeq(Form(<<FilePart>>), 1, Len(Form(<<FilePart>>)) - 1),
     sizeW |-> Form(<<Part(<<"file", "type", "type">>, <<"x">>)>>),
     sizeF |-> Form(<<Part(<<"field">>, <<"x", "x", "x">>)>>),
     sizeG |-> Form(<<Part(<<"file">>, Tricky \o <<"x">>)>>),
     sizeP |-> Form(<<FieldPart, FieldPart, FieldPart>>),
     sizeH |-> Form(<<Part(<<"file", "x">>, <<>>)>>),
     sizeB |-> Opening \o <<"x", "x">>]

Well(bodies, status, fs, ups) ==
    [bodies |-> bodies, status |-> status, failure |-> "", fields |-> fs, files |-> ups]
Refused(status) == Well(<<>>, status, <<>>, <<>>)
NoForm(why) == [Well(<<>>, 0, <<>>, <<>>) EXCEPT !.failure = why]

Plain(bytes, bodies, status) ==
    [bytes |-> bytes, form |-> FALSE, wants |-> {Well(bodies, status, <<>>, <<>>)}]
Posted(size, o) ==
    [bytes |-> Request("get", <<"host", "chunked">>) \o Chunked(size, FormBodies[size]),
     form |-> TRUE, wants |-> {o}]

MCChunkSize ==
    [s \in DOMAIN FormBodies \union {"size0", "size1"} |->
        CASE s = "size0" -> 0 [] s = "size1" -> 1 [] OTHER -> Len(FormBodies[s])]
MCContentLength == [len0 |-> 0, len2 |-> 2, lenO |-> Len(FormBodies.sizeO), len99 |-> 99]

Requests ==
    { Plain(Request("get", <<"host">>) \o Crlf \o Request("old", <<"keep">>)
                \o Request("get", <<"host">>), <<<<>>, <<>>, <<>>>>, 0),
      Plain(Request("get", <<"host", "len2">>) \o <<"LF", "x">>
                \o Request("old", <<>>), <<<<"LF", "x">>, <<>>>>, 0),
      Plain(Request("get", <<"host", "chunked">>) \o Lines(<<<<"size1">>, <<"x">>,
                <<"size0">>, <<"other">>, <<>>>>) \o Request("get", <<"host", "close">>),
            <<<<"x">>, <<>>>>, 0),
      Plain(Request("get", <<"host", "chunked", "len2">>), <<>>, 400),
      Plain(Request("get", <<"host", "len0", "len2">>) \o <<"x", "x">>, <<>>, 400),
      Plain(Request("get", <<"host", "gzip">>), <<>>, 501),
      Plain(Request("old", <<"chunked">>), <<>>, 400),
      Plain(Request("get", <<"host", "lenx">>), <<>>, 400),
      Plain(Request("get", <<"host", "len99">>), <<>>, 413),
      Plain(Request("get", <<"host", "magic">>), <<>>, 417),
      Plain(Request("get", <<"host", "host">>), <<>>, 400),
      Plain(Request("get", <<"other">>), <<>>, 400),
      Plain(Request("get", <<"host", "other", "other", "other">>), <<>>, 431),
      Plain(Request("two", <<"host">>), <<>>, 505),
      Plain(Request("connect", <<"host">>), <<>>, 501),
      Plain(Request("ftp", <<"host">>), <<>>, 400),
      Plain(<<"get", "x", "x", "CR", "LF">>, <<>>, 414),
      Plain(<<"get", "LF">>, <<>>, 400),
      Plain(Request("get", <<"host", "chunked">>) \o Lines(<<<<"size1">>, <<"x", "x">>>>),
            <<>>, 400) }

Forms ==
    { Posted("sizeN", Well(<<FormBodies.sizeN>>, 0, <<<<"x", "CR">>>>, <<Tricky>>)),
      [bytes |-> Request("get", <<"host", "lenO">>) \o FormBodies.sizeO
                     \o Request("get", <<"host">>),
       form |-> TRUE,
       wants |-> {Well(<<FormBodies.sizeO, <<>>>>, 0, <<>>, <<Tricky>>)}] }
    \union {Posted(s, NoForm("400")) : s \in {"sizeT", "sizeP", "sizeH", "sizeB"}}
    \union {Posted(s, NoForm("413")) : s \in {"sizeF", "sizeG"}}

\* A part whose headers are longer than the limit on them, which is looked at
\* only while they are incomplete: whether the form passes is in the cuts.
LongHeaders ==
    [Posted("sizeW", Well(<<FormBodies.sizeW>>, 0, <<>>, <<<<"x">>>>))
        EXCEPT !.wants = @ \union {NoForm("400")}]

\* Two empty lines before a request: whether it passes is in the cuts, too.
EmptyLines ==
    [Plain(Crlf \o Request("get", <<"host">>) \o Crlf \o Crlf
               \o Request("get", <<"host">>), <<<<>>, <<>>>>, 0)
        EXCEPT !.wants = @ \union {Well(<<<<>>>>, 400, <<>>, <<>>)}]

MCSent == Requests \union Forms \union {LongHeaders, EmptyLines}
=============================================================================
