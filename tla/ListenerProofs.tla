---------------------------- MODULE ListenerProofs ----------------------------
(***************************************************************************)
(* ServerProcesses implements ListenerService: every step of the processes *)
(* is one step of the service the clients see, or none.                    *)
(***************************************************************************)
EXTENDS ServerProcessesProofs

USE DEF LoopAt, AcceptorAt, HandlerAt, HoldsConnAt, HoldsListenerAt, Place

-----------------------------------------------------------------------------
(* A sequence with one element before it. *)

LEMMA ConsParts ==
    ASSUME NEW S, NEW s \in Seq(S), NEW e \in S
    PROVE  /\ <<e>> \o s \in Seq(S) /\ <<e>> \o s # <<>>
           /\ Head(<<e>> \o s) = e
           /\ Tail(<<e>> \o s) = s
  <1>1. <<e>> \in Seq(S) /\ Len(<<e>>) = 1
    OBVIOUS
  <1>2. /\ <<e>> \o s \in Seq(S) /\ Len(<<e>> \o s) = 1 + Len(s)
        /\ \A i \in 1 .. 1 + Len(s) : (<<e>> \o s)[i] = IF i <= 1 THEN <<e>>[i] ELSE s[i - 1]
    BY <1>1, ConcatProperties
  <1>3. Len(s) \in Nat
    BY LenProperties
  <1>4. <<e>> \o s # <<>>
    BY <1>2, <1>3, EmptySeq
  <1>5. Head(<<e>> \o s) = e
    BY <1>2, <1>3
  <1>6. /\ Tail(<<e>> \o s) \in Seq(S) /\ Len(Tail(<<e>> \o s)) = Len(s)
        /\ \A i \in 1 .. Len(s) : Tail(<<e>> \o s)[i] = (<<e>> \o s)[i + 1]
    BY <1>2, <1>3, <1>4, HeadTailProperties
  <1>7. \A i \in 1 .. Len(s) : Tail(<<e>> \o s)[i] = s[i]
    BY <1>2, <1>3, <1>6
  <1>8. Tail(<<e>> \o s) = s
    BY <1>6, <1>7, SeqEqual
  <1> QED
    BY <1>2, <1>4, <1>5, <1>8

LEMMA HeadBeforeTail ==
    ASSUME NEW S, NEW s \in Seq(S), s # <<>>
    PROVE  <<Head(s)>> \o Tail(s) = s
  <1>1. Len(s) \in Nat /\ Len(s) >= 1
    BY EmptySeq
  <1>2. SubSeq(s, 1, Len(s)) = <<s[1]>> \o SubSeq(s, 2, Len(s))
    BY <1>1, SubSeqRecursiveFirst
  <1> QED
    BY <1>1, <1>2, SubSeqFull, TailIsSubSeq

LEMMA ConsAppend ==
    ASSUME NEW S, NEW s \in Seq(S), NEW e \in S, NEW f \in S
    PROVE  <<e>> \o Append(s, f) = Append(<<e>> \o s, f)
  <1>1. <<e>> \in Seq(S) /\ <<f>> \in Seq(S) /\ <<e>> \o s \in Seq(S)
    BY ConcatProperties
  <1>2. Append(s, f) = s \o <<f>> /\ Append(<<e>> \o s, f) = (<<e>> \o s) \o <<f>>
    BY <1>1, AppendIsConcat
  <1> QED
    BY <1>1, <1>2, ConcatAssociative

-----------------------------------------------------------------------------
(* What the clients see of a state. *)

\* The phase follows from the acceptor and the listening socket.
LEMMA PhaseIs ==
    IndInv => /\ \A p \in Proc : pc[p] \in LoopAt \cup {"stop"} => listening # {} /\ Phase = "open"
              /\ \A p \in Proc : pc[p] = "boot" => listening = {} /\ Phase = "starting"
              /\ NoAcceptor => Phase = IF listening = {} THEN "closed" ELSE "closing"
              /\ ~NoAcceptor => Phase \in {"starting", "open"}
  <1> SUFFICES ASSUME IndInv
               PROVE  /\ \A p \in Proc : pc[p] \in LoopAt \cup {"stop"} => listening # {} /\ Phase = "open"
                      /\ \A p \in Proc : pc[p] = "boot" => listening = {} /\ Phase = "starting"
                      /\ NoAcceptor => Phase = IF listening = {} THEN "closed" ELSE "closing"
                      /\ ~NoAcceptor => Phase \in {"starting", "open"}
    OBVIOUS
  <1>1. ASSUME NEW p \in Proc, pc[p] \in LoopAt \cup {"stop"} PROVE listening # {} /\ ~NoAcceptor
    BY <1>1 DEF IndInv, DescriptorsMatchPlace, NoAcceptor, Acceptors
  <1>2. ASSUME NEW p \in Proc, pc[p] = "boot" PROVE listening = {} /\ ~NoAcceptor
    <2>1. \A q \in Proc : q \notin listening
      BY <1>2 DEF IndInv, DescriptorsMatchPlace, StartsAlone
    <2> QED
      BY <1>2, <2>1 DEF IndInv, TypeOK, NoAcceptor, Acceptors
  <1> QED
    BY <1>1, <1>2 DEF Phase

\* The acceptor's connection waits before those of the backlog.
LEMMA WaitingIs ==
    IndInv => /\ Waiting \in Seq(Conn)
              /\ (\A p \in Proc : pc[p] # "fork") => Waiting = queue
              /\ \A p \in Proc : pc[p] = "fork" => cfd[p] \in Conn /\ Waiting = <<cfd[p]>> \o queue
  <1> SUFFICES ASSUME IndInv
               PROVE  /\ Waiting \in Seq(Conn)
                      /\ (\A p \in Proc : pc[p] # "fork") => Waiting = queue
                      /\ \A p \in Proc : pc[p] = "fork" => cfd[p] \in Conn /\ Waiting = <<cfd[p]>> \o queue
    OBVIOUS
  <1>1. queue \in Seq(Conn)
    BY DEF IndInv, TypeOK
  <1>2. ASSUME \A p \in Proc : pc[p] # "fork" PROVE Waiting = queue
    BY <1>2 DEF Waiting, Accepted
  <1>3. ASSUME NEW p \in Proc, pc[p] = "fork" PROVE cfd[p] \in Conn /\ Waiting = <<cfd[p]>> \o queue
    <2>1. \A q \in Proc : pc[q] = "fork" => q = p
      BY <1>3 DEF IndInv, SingleAcceptor, Acceptors
    <2>2. Accepted = {cfd[p]}
      BY <1>3, <2>1 DEF Accepted
    <2>3. (CHOOSE c \in {cfd[p]} : TRUE) = cfd[p]
      OBVIOUS
    <2>4. cfd[p] \in Conn
      BY <1>3 DEF IndInv, TypeOK, DescriptorsMatchPlace
    <2> QED
      BY <2>2, <2>3, <2>4 DEF Waiting
  <1>4. Waiting \in Seq(Conn)
    <2>1. CASE \A p \in Proc : pc[p] # "fork"
      BY <1>1, <1>2, <2>1
    <2>2. CASE \E p \in Proc : pc[p] = "fork"
      <3>1. PICK p \in Proc : cfd[p] \in Conn /\ Waiting = <<cfd[p]>> \o queue
        BY <1>3, <2>2
      <3> QED
        BY <1>1, <3>1, ConsParts
    <2> QED
      BY <2>1, <2>2
  <1> QED
    BY <1>2, <1>3, <1>4

\* No two processes serve the same connection.
LEMMA HandlersApart ==
    IndInv => \A p, q \in Proc :
                 pc[p] \in HandlerAt /\ pc[q] \in HandlerAt /\ cfd[p] = cfd[q] => p = q
  BY DEF IndInv, OneHandlerPerConnection, DescriptorsMatchPlace

\* The view after a step is that of a state of which the invariant holds.
LEMMA ViewAfter ==
    IndInv' => /\ \A p \in Proc : pc'[p] \in LoopAt \cup {"stop"} => listening' # {} /\ Phase' = "open"
               /\ \A p \in Proc : pc'[p] = "boot" => listening' = {} /\ Phase' = "starting"
               /\ NoAcceptor' => Phase' = IF listening' = {} THEN "closed" ELSE "closing"
               /\ (\A p \in Proc : pc'[p] # "fork") => Waiting' = queue'
               /\ \A p \in Proc : pc'[p] = "fork" => cfd'[p] \in Conn /\ Waiting' = <<cfd'[p]>> \o queue'
  <1>1. (IndInv => /\ \A p \in Proc : pc[p] \in LoopAt \cup {"stop"} => listening # {} /\ Phase = "open"
                   /\ \A p \in Proc : pc[p] = "boot" => listening = {} /\ Phase = "starting"
                   /\ NoAcceptor => Phase = IF listening = {} THEN "closed" ELSE "closing"
                   /\ ~NoAcceptor => Phase \in {"starting", "open"})'
    BY PhaseIs, PTL
  <1>2. (IndInv => /\ Waiting \in Seq(Conn)
                   /\ (\A p \in Proc : pc[p] # "fork") => Waiting = queue
                   /\ \A p \in Proc : pc[p] = "fork" => cfd[p] \in Conn /\ Waiting = <<cfd[p]>> \o queue)'
    BY WaitingIs, PTL
  <1> QED
    BY <1>1, <1>2

-----------------------------------------------------------------------------
(* The steps. *)

\* Steps between which a client sees no difference.
LEMMA Unseen ==
    ASSUME Phase' = Phase, arrived' = arrived, Waiting' = Waiting, Serving' = Serving
    PROVE  UNCHANGED Listener!vars
  BY DEF Listener!vars

\* The handlers, and what they serve, are the same.
LEMMA SameServing ==
    ASSUME \A p \in Proc : pc'[p] \in HandlerAt <=> pc[p] \in HandlerAt,
           \A p \in Proc : pc[p] \in HandlerAt => cfd'[p] = cfd[p]
    PROVE  Serving' = Serving
  BY DEF Serving

\* The first process opens S: the service opens.
LEMMA OpenStep ==
    ASSUME IndInv, IndInv', NEW p \in Proc, ConnectToSocket(p)
    PROVE  Listener!Open
  <1>1. pc[p] = "boot" /\ \A q \in Proc : pc'[q] = IF q = p THEN "check" ELSE pc[q]
    BY DEF ConnectToSocket, Goto, IndInv, TypeOK
  <1>2. UNCHANGED <<queue, arrived, cfd>>
    BY DEF ConnectToSocket
  <1>3. \A q \in Proc : q # p => pc[q] = "free"
    BY <1>1 DEF IndInv, StartsAlone
  <1>4. Waiting = queue /\ Waiting' = queue'
    BY <1>1, <1>3, WaitingIs, ViewAfter
  <1>5. Serving' = Serving
    BY <1>1, <1>2, SameServing
  <1>6. Phase = "starting" /\ Phase' = "open"
    BY <1>1, PhaseIs, ViewAfter
  <1> QED
    BY <1>2, <1>4, <1>5, <1>6 DEF Listener!Open

\* Accepting a connection only moves it from the backlog into the acceptor's hands.
LEMMA AcceptStep ==
    ASSUME IndInv, IndInv', NEW p \in Proc, AcceptConnection(p)
    PROVE  UNCHANGED Listener!vars
  <1>1. /\ pc[p] = "select" /\ queue # <<>> /\ queue' = Tail(queue) /\ arrived' = arrived
        /\ cfd' = [cfd EXCEPT ![p] = Head(queue)] /\ pc' = [pc EXCEPT ![p] = "fork"]
    BY DEF AcceptConnection, Goto
  <1>2. \A q \in Proc : q # p => pc[q] \notin AcceptorAt
    BY <1>1 DEF IndInv, SingleAcceptor, Acceptors
  <1>3. \A q \in Proc : /\ pc'[q] = IF q = p THEN "fork" ELSE pc[q]
                        /\ q # p => cfd'[q] = cfd[q]
    BY <1>1 DEF IndInv, TypeOK
  <1>4. cfd'[p] = Head(queue)
    BY <1>1 DEF IndInv, TypeOK
  <1>5. Waiting = queue
    BY <1>1, <1>2, WaitingIs
  <1>6. Waiting' = queue
    BY <1>1, <1>3, <1>4, ViewAfter, HeadBeforeTail DEF IndInv, TypeOK
  <1>7. Serving' = Serving
    BY <1>1, <1>3, SameServing
  <1>8. Phase = "open" /\ Phase' = "open"
    BY <1>1, <1>3, PhaseIs, ViewAfter
  <1> QED
    BY <1>1, <1>5, <1>6, <1>7, <1>8, Unseen

\* The fork is the moment from which the connection is being served.
LEMMA BeginStep ==
    ASSUME IndInv, IndInv', NEW p \in Proc, NEW q \in Proc, ForkChild(p, q)
    PROVE  Listener!Begin
  <1>1. pc[p] = "fork" /\ pc[q] = "free" /\ p # q /\ queue' = queue /\ arrived' = arrived
    BY DEF ForkChild
  <1>2. \A r \in Proc :
           /\ pc'[r] = IF r = q THEN "release" ELSE IF r = p THEN "handoff" ELSE pc[r]
           /\ r # q => cfd'[r] = cfd[r]
    BY <1>1 DEF ForkChild, Inherit, IndInv, TypeOK
  <1>3. \A r \in Proc : r # p => pc[r] \notin AcceptorAt
    BY <1>1 DEF IndInv, SingleAcceptor, Acceptors
  <1>4. cfd[p] \in Conn /\ Waiting = <<cfd[p]>> \o queue
    BY <1>1, WaitingIs
  <1>5. Waiting # <<>> /\ Head(Waiting) = cfd[p] /\ Tail(Waiting) = queue
    <2>1. queue \in Seq(Conn)
      BY DEF IndInv, TypeOK
    <2> QED
      BY <1>4, <2>1, ConsParts
  <1>6. Waiting' = queue
    BY <1>1, <1>2, <1>3, ViewAfter
  <1>7. Serving' = Serving \cup {cfd[p]}
    BY <1>1, <1>2 DEF Serving
  <1>8. Phase = "open" /\ Phase' = "open"
    BY <1>1, <1>2, PhaseIs, ViewAfter
  <1> QED
    BY <1>1, <1>5, <1>6, <1>7, <1>8 DEF Listener!Begin

\* The child's copy of C was not the one that is served.
LEMMA ReleaseStep ==
    ASSUME IndInv, IndInv', NEW p \in Proc, CloseClient(p)
    PROVE  UNCHANGED Listener!vars
  <1>1. pc[p] = "release" /\ UNCHANGED <<queue, arrived>>
    BY DEF CloseClient
  <1>2. \A r \in Proc : /\ pc'[r] = IF r = p THEN "signal" ELSE pc[r]
                        /\ r # p => cfd'[r] = cfd[r]
    BY DEF CloseClient, Goto, IndInv, TypeOK
  <1>3. \A r \in Proc : r # p => pc[r] \notin AcceptorAt
    BY <1>1 DEF IndInv, SingleAcceptor, Acceptors
  <1>4. Waiting = queue /\ Waiting' = queue'
    BY <1>1, <1>2, <1>3, WaitingIs, ViewAfter
  <1>5. Serving' = Serving
    BY <1>1, <1>2, SameServing
  <1>6. Phase = "open" /\ Phase' = "open"
    BY <1>1, <1>2, PhaseIs, ViewAfter
  <1> QED
    BY <1>1, <1>4, <1>5, <1>6, Unseen

LEMMA LoopStep ==
    ASSUME IndInv, IndInv', NEW p \in Proc, NEW place \in LoopAt \cup {"stop"}, LoopMove(p, place)
    PROVE  UNCHANGED Listener!vars
  <1>1. /\ pc[p] \in {"check", "select", "signal", "stdin", "config"}
        /\ place \in {"select", "stop", "stdin", "config", "check", "signal"}
        /\ UNCHANGED <<cfd, queue, arrived>>
    BY DEF LoopMove
  <1>2. \A r \in Proc : pc'[r] = IF r = p THEN place ELSE pc[r]
    BY DEF LoopMove, Goto, IndInv, TypeOK
  <1>3. \A r \in Proc : r # p => pc[r] \notin AcceptorAt
    BY <1>1 DEF IndInv, SingleAcceptor, Acceptors
  <1>4. Waiting = queue /\ Waiting' = queue'
    BY <1>1, <1>2, <1>3, WaitingIs, ViewAfter
  <1>5. Serving' = Serving
    BY <1>1, <1>2, SameServing
  <1>6. Phase = "open" /\ Phase' = "open"
    BY <1>1, <1>2, PhaseIs, ViewAfter
  <1> QED
    BY <1>1, <1>4, <1>5, <1>6, Unseen

LEMMA ArriveStep ==
    ASSUME IndInv, IndInv', NEW c \in Conn, ClientConnects(c)
    PROVE  Listener!Arrive(c)
  <1>1. /\ c \notin arrived /\ arrived' = arrived \cup {c} /\ listening # {}
        /\ queue' = Append(queue, c) /\ UNCHANGED <<pc, cfd, listening>>
    BY DEF ClientConnects, procVars
  <1>2. Waiting' = Append(Waiting, c)
    <2>1. CASE \A p \in Proc : pc[p] # "fork"
      BY <1>1, <2>1, WaitingIs, ViewAfter
    <2>2. CASE \E p \in Proc : pc[p] = "fork"
      <3>1. PICK p \in Proc : pc[p] = "fork"
        BY <2>2
      <3>2. cfd[p] \in Conn /\ Waiting = <<cfd[p]>> \o queue
        BY <3>1, WaitingIs
      <3>3. Waiting' = <<cfd[p]>> \o Append(queue, c)
        BY <1>1, <3>1, ViewAfter
      <3>4. <<cfd[p]>> \o Append(queue, c) = Append(<<cfd[p]>> \o queue, c)
        <4>1. queue \in Seq(Conn)
          BY DEF IndInv, TypeOK
        <4> QED
          BY <3>2, <4>1, ConsAppend
      <3> QED
        BY <3>2, <3>3, <3>4
    <2> QED
      BY <2>1, <2>2
  <1>3. Serving' = Serving
    BY <1>1, SameServing
  <1>4. Phase \in {"open", "closing"} /\ Phase' = Phase
    BY <1>1 DEF Phase, NoAcceptor, Acceptors
  <1> QED
    BY <1>1, <1>2, <1>3, <1>4 DEF Listener!Arrive

\* The parent closes S: the port stays open, or the last holder after a stop frees it.
LEMMA HandoffStep ==
    ASSUME IndInv, IndInv', NEW p \in Proc, CloseListener(p)
    PROVE  Listener!Shutdown({}, "closed") \/ UNCHANGED Listener!vars
  <1>1. /\ pc[p] = "handoff" /\ UNCHANGED <<cfd, arrived>>
        /\ listening' = listening \ {p}
        /\ queue' = IF listening' = {} THEN <<>> ELSE queue
    BY DEF CloseListener, DropListener
  <1>2. \A r \in Proc : pc'[r] = IF r = p THEN "serving" ELSE pc[r]
    BY DEF CloseListener, Goto, IndInv, TypeOK
  <1>3. Serving' = Serving
    BY <1>1, <1>2, SameServing
  <1>4. Acceptors' = Acceptors /\ listening # {}
    BY <1>1, <1>2 DEF Acceptors, IndInv, DescriptorsMatchPlace
  <1>5. CASE listening' # {}
    <2>1. Waiting' = Waiting
      <3>1. Accepted' = Accepted
        BY <1>1, <1>2 DEF Accepted
      <3> QED
        BY <1>1, <1>5, <3>1 DEF Waiting
    <2>2. Phase' = Phase
      BY <1>4, <1>5 DEF Phase, NoAcceptor
    <2> QED
      BY <1>1, <1>3, <2>1, <2>2, Unseen
  <1>6. CASE listening' = {}
    <2>1. NoAcceptor'
      <3> SUFFICES ASSUME NEW a \in Proc, pc'[a] \in AcceptorAt
                   PROVE  FALSE
        BY DEF NoAcceptor, Acceptors
      <3>1. pc'[a] # "boot"
        BY <1>2 DEF IndInv, StartsAlone
      <3> QED
        BY <1>6, <3>1 DEF IndInv, DescriptorsMatchPlace
    <2>2. NoAcceptor /\ Phase = "closing" /\ Phase' = "closed"
      BY <1>4, <1>6, <2>1, PhaseIs, ViewAfter DEF NoAcceptor
    <2>3. Waiting' = <<>>
      <3>1. \A a \in Proc : pc'[a] # "fork"
        BY <2>1 DEF NoAcceptor, Acceptors
      <3> QED
        BY <1>1, <1>6, <3>1, ViewAfter
    <2> QED
      BY <1>1, <1>3, <2>2, <2>3 DEF Listener!Shutdown
  <1> QED
    BY <1>5, <1>6

\* What is left when processes end: the other acceptors and the other handlers.
LEMMA Survivors ==
    ASSUME IndInv, NEW P \in SUBSET Live, Ending(P)
    PROVE  /\ Acceptors' = Acceptors \ P
           /\ \E S \in SUBSET Serving : Serving' = Serving \ S
  <1>1. P \in SUBSET Proc
    BY DEF Live
  <1>2. \A p \in Proc : /\ pc'[p] = IF p \in P THEN "free" ELSE pc[p]
                        /\ cfd'[p] = IF p \in P THEN NoConn ELSE cfd[p]
    BY <1>1, EndingEffect
  <1>3. Acceptors' = Acceptors \ P
    BY <1>2 DEF Acceptors
  <1> DEFINE S == {cfd[p] : p \in {q \in P : pc[q] \in HandlerAt}}
  <1>4. S \in SUBSET Serving
    BY <1>1 DEF Serving
  <1>5. Serving' = Serving \ S
    BY <1>1, <1>2, HandlersApart DEF Serving
  <1> QED
    BY <1>3, <1>4, <1>5

\* Processes end in any number.  If the acceptor survives or there was none, the service
\* ends some interactions, or frees the port; if it ends, the service stops.
LEMMA EndStep ==
    ASSUME IndInv, IndInv', NEW P \in SUBSET Live, Ending(P)
    PROVE  [Listener!Next]_(Listener!vars)
  <1>1. P \in SUBSET Proc
    BY DEF Live
  <1>2. /\ \A p \in Proc : /\ pc'[p] = IF p \in P THEN "free" ELSE pc[p]
                           /\ cfd'[p] = IF p \in P THEN NoConn ELSE cfd[p]
        /\ listening' = listening \ P
        /\ queue' = IF listening' = {} THEN <<>> ELSE queue
        /\ arrived' = arrived
    BY <1>1, EndingEffect
  <1>3. Acceptors' = Acceptors \ P
    BY Survivors
  <1>4. PICK S \in SUBSET Serving : Serving' = Serving \ S
    BY Survivors
  <1>5. ASSUME Phase' = Phase, Waiting' = Waiting
        PROVE  [Listener!Next]_(Listener!vars)
    <2>1. CASE S = {}
      BY <1>2, <1>4, <1>5, <2>1, Unseen
    <2>2. CASE S # {}
      BY <1>2, <1>4, <1>5, <2>2 DEF Listener!Next, Listener!End
    <2> QED
      BY <2>1, <2>2
  <1>6. ASSUME NEW to \in {"closing", "closed"}, Listener!Shutdown(S, to)
        PROVE  [Listener!Next]_(Listener!vars)
    BY <1>6 DEF Listener!Next
  <1>7. (\A p \in Proc : pc[p] \notin AcceptorAt) \/ ~NoAcceptor
    BY DEF NoAcceptor, Acceptors
  <1>8. CASE ~NoAcceptor'
    <2>1. PICK p \in Proc : pc'[p] \in AcceptorAt /\ pc[p] = pc'[p] /\ p \notin P
      BY <1>2, <1>8 DEF NoAcceptor, Acceptors
    <2>2. \A r \in Proc : pc[r] \in AcceptorAt => r = p
      BY <2>1 DEF IndInv, SingleAcceptor, Acceptors
    <2>3. CASE pc[p] = "boot"
      <3>1. P = {}
        BY <1>1, <2>1, <2>3 DEF Live, IndInv, StartsAlone
      <3>2. Phase' = Phase
        BY <2>1, <2>3, PhaseIs, ViewAfter
      <3>3. Waiting = queue /\ Waiting' = queue'
        BY <1>2, <2>2, <2>3, WaitingIs, ViewAfter
      <3>4. queue' = queue
        BY <1>2, <3>1 DEF IndInv, StartsAlone
      <3> QED
        BY <1>5, <3>2, <3>3, <3>4
    <2>4. CASE pc[p] \in LoopAt \cup {"stop"}
      <3>1. Phase' = Phase /\ queue' = queue
        BY <1>2, <2>1, <2>4, PhaseIs, ViewAfter
      <3>2. Waiting' = Waiting
        <4>1. CASE pc[p] = "fork"
          <5>1. Waiting = <<cfd[p]>> \o queue /\ Waiting' = <<cfd'[p]>> \o queue'
            BY <2>1, <4>1, WaitingIs, ViewAfter
          <5> QED
            BY <1>2, <2>1, <3>1, <5>1
        <4>2. CASE pc[p] # "fork"
          <5>1. \A r \in Proc : pc[r] # "fork" /\ pc'[r] # "fork"
            BY <1>2, <2>2, <4>2
          <5> QED
            BY <3>1, <5>1, WaitingIs, ViewAfter
        <4> QED
          BY <4>1, <4>2
      <3> QED
        BY <1>5, <3>1, <3>2
    <2> QED
      BY <2>1, <2>3, <2>4
  <1>9. CASE NoAcceptor' /\ NoAcceptor
    <2>1. Waiting = queue /\ Waiting' = queue'
      BY <1>2, <1>9, WaitingIs, ViewAfter DEF NoAcceptor, Acceptors
    <2>2. CASE listening = {} \/ listening' # {}
      <3>1. (listening' = {} <=> listening = {}) /\ queue' = queue
        BY <1>2, <2>2 DEF IndInv, StartsAlone
      <3>2. Phase' = Phase
        BY <1>9, <3>1, PhaseIs, ViewAfter
      <3> QED
        BY <1>5, <2>1, <3>1, <3>2
    <2>3. CASE listening # {} /\ listening' = {}
      <3>1. Listener!Shutdown(S, "closed")
        BY <1>2, <1>4, <1>9, <2>1, <2>3, PhaseIs, ViewAfter DEF Listener!Shutdown
      <3> QED
        BY <1>6, <3>1
    <2> QED
      BY <2>2, <2>3
  <1>10. CASE NoAcceptor' /\ ~NoAcceptor
    <2>1. PICK p \in Proc : pc[p] \in AcceptorAt
      BY <1>10 DEF NoAcceptor, Acceptors
    <2>2. Waiting' = queue'
      BY <1>10, ViewAfter DEF NoAcceptor, Acceptors
    <2>3. CASE listening' = {}
      <3>1. Phase \in {"starting", "open"} /\ Phase' = "closed" /\ Waiting' = <<>>
        BY <1>2, <1>10, <2>2, <2>3, PhaseIs, ViewAfter
      <3>2. Listener!Shutdown(S, "closed")
        BY <1>2, <1>4, <3>1 DEF Listener!Shutdown
      <3> QED
        BY <1>6, <3>2
    <2>4. CASE listening' # {}
      <3>1. pc[p] \in LoopAt \cup {"stop"}
        BY <1>2, <2>1, <2>4, PhaseIs
      <3>2. Phase = "open" /\ Phase' = "closing" /\ Waiting' = queue
        BY <1>2, <1>10, <2>2, <2>4, <3>1, PhaseIs, ViewAfter
      <3>3. Waiting = queue \/ (Waiting # <<>> /\ Tail(Waiting) = queue)
        <4>1. queue \in Seq(Conn)
          BY DEF IndInv, TypeOK
        <4>2. CASE \A r \in Proc : pc[r] # "fork"
          BY <4>2, WaitingIs
        <4>3. CASE \E r \in Proc : pc[r] = "fork"
          <5>1. PICK c \in Conn : Waiting = <<c>> \o queue
            BY <4>3, WaitingIs
          <5> QED
            BY <4>1, <5>1, ConsParts
        <4> QED
          BY <4>2, <4>3
      <3>4. Listener!Shutdown(S, "closing")
        BY <1>2, <1>4, <3>2, <3>3 DEF Listener!Shutdown
      <3> QED
        BY <1>6, <3>4
    <2> QED
      BY <2>3, <2>4
  <1> QED
    BY <1>8, <1>9, <1>10

-----------------------------------------------------------------------------
(* The refinement. *)

\* Every step of a process, of a client, of the operator or of a signal is a step of
\* the service, or none that a client sees.
LEMMA StepImplements ==
    ASSUME IndInv, IndInv', [Next]_vars
    PROVE  [Listener!Next]_(Listener!vars)
  <1>1. ASSUME NEW p \in Proc, ConnectToSocket(p) PROVE [Listener!Next]_(Listener!vars)
    BY <1>1, OpenStep DEF Listener!Next
  <1>2. ASSUME NEW p \in Proc, AcceptConnection(p) PROVE [Listener!Next]_(Listener!vars)
    BY <1>2, AcceptStep
  <1>3. ASSUME NEW p \in Proc, NEW q \in Proc, ForkChild(p, q) PROVE [Listener!Next]_(Listener!vars)
    BY <1>3, BeginStep DEF Listener!Next
  <1>4. ASSUME NEW p \in Proc, CloseListener(p) PROVE [Listener!Next]_(Listener!vars)
    BY <1>4, HandoffStep DEF Listener!Next
  <1>5. ASSUME NEW p \in Proc, CloseClient(p) PROVE [Listener!Next]_(Listener!vars)
    BY <1>5, ReleaseStep
  <1>6. ASSUME NEW p \in Proc, NEW place \in LoopAt \cup {"stop"}, LoopMove(p, place)
        PROVE  [Listener!Next]_(Listener!vars)
    BY <1>6, LoopStep
  <1>7. ASSUME NEW c \in Conn, ClientConnects(c) PROVE [Listener!Next]_(Listener!vars)
    BY <1>7, ArriveStep DEF Listener!Next
  <1>8. ASSUME UNCHANGED <<pc, cfd, listening, queue, arrived>>
        PROVE  UNCHANGED Listener!vars
    BY <1>8, Unseen DEF Phase, NoAcceptor, Acceptors, Waiting, Accepted, Serving
  <1>9. TypeOK
    BY DEF IndInv
  <1> QED
    BY <1>1, <1>2, <1>3, <1>4, <1>5, <1>6, <1>7, <1>8, <1>9, EndStep, Shapes, Zenon

LEMMA InitImplements == Init => Listener!Init
  <1> SUFFICES ASSUME Init
               PROVE  Listener!Init
    OBVIOUS
  <1>1. IndInv
    BY IndInit
  <1>2. PICK first \in Proc : pc = [p \in Proc |-> IF p = first THEN "boot" ELSE "free"]
    BY DEF Init
  <1>3. queue = <<>> /\ arrived = {}
    BY DEF Init
  <1>4. Phase = "starting" /\ Waiting = <<>> /\ Serving = {}
    BY <1>1, <1>2, <1>3, PhaseIs, WaitingIs DEF Serving
  <1> QED
    BY <1>3, <1>4 DEF Listener!Init

\* Whatever processes fork, fail, are interrupted or stop, the clients see one service that
\* opens once, takes connections in the order of their arrival, each once, loses none
\* while it runs, and stops once.
THEOREM ServesAsListener == Spec => ServesInOrder
  <1>1. IndInv /\ IndInv' /\ [Next]_vars => [Listener!Next]_(Listener!vars)
    BY StepImplements
  <1> QED
    BY <1>1, InitImplements, Inductive, PTL DEF Spec, ServesInOrder, Listener!Spec

===============================================================================
