---------------------------- MODULE ListenerService ----------------------------
(***************************************************************************)
(* What the processes of the server promise together to their clients,     *)
(* whichever process does it: connections wait in the order of their       *)
(* arrival, and a running server takes them in that order, each once, and  *)
(* loses none.  It opens the port once and stops once; a client that still *)
(* waits then, or comes before the port is closed, is lost.                *)
(*                                                                         *)
(* ServerProcesses implements this specification.                          *)
(***************************************************************************)
EXTENDS Sequences

CONSTANT Conn  \* the connections

VARIABLES phase,    \* "starting", "open", "closing" (stopped, the port is open) or "closed"
          arrived,  \* the connections that have been made
          waiting,  \* those nobody has taken, the oldest first
          serving   \* those being served

vars == <<phase, arrived, waiting, serving>>

Init ==
    /\ phase = "starting"
    /\ arrived = {} /\ waiting = <<>> /\ serving = {}

Open ==
    /\ phase = "starting"
    /\ phase' = "open"
    /\ UNCHANGED <<arrived, waiting, serving>>

Arrive(c) ==
    /\ phase \in {"open", "closing"}
    /\ c \notin arrived
    /\ arrived' = arrived \cup {c}
    /\ waiting' = Append(waiting, c)
    /\ UNCHANGED <<phase, serving>>

\* The oldest is taken.
Begin ==
    /\ phase = "open"
    /\ waiting # <<>>
    /\ waiting' = Tail(waiting)
    /\ serving' = serving \cup {Head(waiting)}
    /\ UNCHANGED <<phase, arrived>>

\* Some are done; SIGINT may end several at once.
End(S) ==
    /\ S # {}
    /\ serving' = serving \ S
    /\ UNCHANGED <<phase, arrived, waiting>>

\* The server stops, in one step or two; S ends with it.  A connection that had been
\* accepted and not yet handed over is lost before the others.
Shutdown(S, to) ==
    /\ \/ phase = "starting" /\ to = "closed"
       \/ phase = "open" /\ to \in {"closing", "closed"}
       \/ phase = "closing" /\ to = "closed"
    /\ phase' = to
    /\ serving' = serving \ S
    /\ \/ to = "closing" /\ waiting' = waiting
       \/ to = "closing" /\ waiting # <<>> /\ waiting' = Tail(waiting)
       \/ to = "closed" /\ waiting' = <<>>
    /\ UNCHANGED arrived

Next ==
    \/ Open
    \/ \E c \in Conn : Arrive(c)
    \/ Begin
    \/ \E S \in SUBSET serving : End(S) \/ \E to \in {"closing", "closed"} : Shutdown(S, to)

Spec == Init /\ [][Next]_vars

===============================================================================
