---------------------------- MODULE RequestService ----------------------------
(***************************************************************************)
(* What the server promises to one client that sends a request when the    *)
(* last one has been answered: an answer to each, in order and with the    *)
(* proper status, until a request asks for the connection to be closed,    *)
(* the client is silent for too long, or it leaves.                        *)
(*                                                                         *)
(* Connection implements this specification for such clients.              *)
(***************************************************************************)
EXTENDS Naturals, Sequences, FiniteSetsExt

CONSTANTS Requests,  \* the requests the client may send
          KeepsWord  \* does the server go on exactly after the requests that ask for it?

VARIABLES asked,     \* the requests sent
          answered,  \* the answers: which request they are to, and their status
          phase,     \* "open", "silent" (the client was silent too long) or "closed"
          left       \* has the client closed its end, or half of it?

vars == <<asked, answered, phase, left>>

\* What request.h says of the statuses: 501 for a method the server cannot process,
\* 200 for a file, 404 for what is not found.
ProperStatus(r) ==
    IF r.method \notin {"GET", "HEAD"} THEN 501
    ELSE IF r.uri \in {"file", "empty"} THEN 200 ELSE 404

\* Is the connection to stay open after r?  The last Connection header decides and,
\* without one, the version.
Persistent(r) ==
    LET wishes == {k \in DOMAIN r.headers : r.headers[k] \in {"close", "keep"}}
    IN IF wishes = {} THEN r.version = "1.1" ELSE r.headers[Max(wishes)] = "keep"

LastAllowsMore == KeepsWord /\ answered # <<>> => Persistent(asked[Len(answered)])

Init == asked = <<>> /\ answered = <<>> /\ phase = "open" /\ left = FALSE

\* A request may still arrive when the server has closed the connection.
Ask(r) ==
    /\ ~left
    /\ asked' = Append(asked, r)
    /\ UNCHANGED <<answered, phase, left>>

Answer ==
    /\ phase = "open"
    /\ Len(answered) < Len(asked)
    /\ LastAllowsMore
    /\ LET n == Len(answered) + 1
       IN answered' = Append(answered, [i |-> n, status |-> ProperStatus(asked[n])])
    /\ UNCHANGED <<asked, phase, left>>

\* No request comes for the keep-alive time.
Silence ==
    /\ phase = "open"
    /\ Len(answered) = Len(asked)
    /\ phase' = "silent"
    /\ UNCHANGED <<asked, answered, left>>

\* The last request answered was to be the last, or the client has left.
Close ==
    /\ phase = "open"
    /\ ~KeepsWord \/ ~LastAllowsMore \/ left
    /\ phase' = "closed"
    /\ UNCHANGED <<asked, answered, left>>

Leave ==
    /\ left' = TRUE
    /\ UNCHANGED <<asked, answered, phase>>

Next == (\E r \in Requests : Ask(r)) \/ Answer \/ Silence \/ Close \/ Leave

Spec == Init /\ [][Next]_vars

===============================================================================
