------------------------------ MODULE Exchange ------------------------------
(***************************************************************************)
(* What a connection promises the client, whatever goes on behind it: one  *)
(* request after the other is handed to the application, each when the     *)
(* response to the one before is whole, and the responses come in order.   *)
(* HttpConnection, with its tasks, its buffers and its timers, implements  *)
(* it.                                                                     *)
(***************************************************************************)
EXTENDS Naturals

VARIABLES
    handed,    \* how many requests the application has been handed
    answered,  \* how many responses the client has, whole
    phase,     \* "between" two of them, in one that "keep"s the connection
               \* or will "close" it, or "over"
    open       \* the connection takes what is written

vars == <<handed, answered, phase, open>>

Init ==
    /\ handed = 0
    /\ answered = 0
    /\ phase = "between"
    /\ open = TRUE

Due == open /\ handed = answered + 1

\* The next request is handed over; the one before has been answered.
Take ==
    /\ open
    /\ phase = "between"
    /\ handed = answered
    /\ handed' = handed + 1
    /\ UNCHANGED <<answered, phase, open>>

\* The response begins and says there what becomes of the connection.
Begin ==
    /\ Due
    /\ phase = "between"
    /\ phase' \in {"keep", "close"}
    /\ UNCHANGED <<handed, answered, open>>

\* The response is whole, begun just now or before, and was the last one.
FinishLast ==
    /\ Due
    /\ phase \in {"between", "close"}
    /\ answered' = answered + 1
    /\ phase' = "over"
    /\ open' = FALSE
    /\ UNCHANGED handed

\* It is whole and the connection is kept, unless the server must stop; the
\* next request may have come already and is handed over at once.
Finish ==
    /\ Due
    /\ phase \in {"between", "keep"}
    /\ answered' = answered + 1
    /\ phase' = "between"
    /\ \/ handed' = handed /\ open' \in BOOLEAN
       \/ handed' = handed + 1 /\ open' = TRUE

\* What has come next is no request: it is answered with an error, the last
\* thing the client reads - at once, behind a response that was finished in
\* the same step, or for a request handed over and not yet answered.
Refuse ==
    /\ open
    /\ \/ phase = "between" /\ answered' = answered + 1
       \/ phase \in {"between", "keep"} /\ handed = answered + 1
              /\ answered' = answered + 2
    /\ handed' \in {handed, answered'}
    /\ phase' = "over"
    /\ open' = FALSE

\* The connection ends, perhaps in the middle of a response.
Close ==
    /\ open
    /\ open' = FALSE
    /\ UNCHANGED <<handed, answered, phase>>

Next == Take \/ Begin \/ FinishLast \/ Finish \/ Refuse \/ Close

Spec == Init /\ [][Next]_vars
=============================================================================
