------------------------ MODULE ServerProcessesProofs ------------------------
(***************************************************************************)
(* Proofs about ServerProcesses, for every process table, every set of     *)
(* connections, every backlog and every choice of faults.                  *)
(***************************************************************************)
EXTENDS ServerProcesses, SequenceTheorems, TLAPS

USE DEF LoopAt, AcceptorAt, HandlerAt, HoldsConnAt, HoldsListenerAt, Place

(* TypeOK is inductive by itself. *)

\* What TypeOK says of the numbers and the sequences.
LEMMA Sizes ==
    ASSUME TypeOK
    PROVE  /\ queue \in Seq(Conn) /\ typed \in Seq(Line)
           /\ Len(queue) \in Nat /\ Len(typed) \in Nat
           /\ nTyped \in Nat /\ MaxConnect \in Nat /\ MaxLines \in Nat
           /\ Len(queue) <= MaxConnect + 1 /\ Len(typed) <= nTyped /\ nTyped <= MaxLines
  <1>1. /\ queue \in Seq(Conn) /\ Len(queue) <= MaxConnect + 1
        /\ typed \in Seq(Line) /\ Len(typed) <= nTyped
        /\ nTyped \in 0 .. MaxLines
    BY DEF TypeOK
  <1>2. Len(queue) \in Nat /\ Len(typed) \in Nat
    BY <1>1, LenProperties
  <1> QED
    BY <1>1, <1>2, ConstantsAssumption

\* The backlog stays well typed when S is closed.
LEMMA DropListenerType ==
    ASSUME TypeOK, NEW P \in SUBSET Proc, DropListener(P)
    PROVE  /\ listening' \subseteq Proc
           /\ queue' \in Seq(Conn)
           /\ Len(queue') <= MaxConnect + 1
  <1>1. <<>> \in Seq(Conn) /\ Len(<<>>) <= MaxConnect + 1
    BY EmptySeq, ConstantsAssumption
  <1> QED
    BY <1>1 DEF TypeOK, DropListener

\* Processes that end leave well-typed state behind.
LEMMA TerminateType ==
    ASSUME TypeOK, NEW P \in SUBSET Proc, Terminate(P)
    PROVE  /\ pc' \in [Proc -> Place]
           /\ caught' \in [Proc -> BOOLEAN]
           /\ listening' \subseteq Proc
           /\ cfd' \in [Proc -> Conn \cup {NoConn}]
           /\ logIP' \in [Proc -> Conn \cup {"empty", "garbage"}]
           /\ buffer' \in [Proc -> Line \cup {""}]
           /\ queue' \in Seq(Conn) /\ Len(queue') <= MaxConnect + 1
  <1>1. DropListener(P)
    BY DEF Terminate
  <1>2. /\ pc' \in [Proc -> Place]
        /\ caught' \in [Proc -> BOOLEAN]
        /\ cfd' \in [Proc -> Conn \cup {NoConn}]
        /\ logIP' \in [Proc -> Conn \cup {"empty", "garbage"}]
        /\ buffer' \in [Proc -> Line \cup {""}]
    BY DEF TypeOK, Terminate, Set
  <1> QED
    BY <1>1, <1>2, DropListenerType

LEMMA ExitType ==
    ASSUME TypeOK, NEW p \in Proc, Exit(p)
    PROVE  TypeOK'
  <1>1. {p} \in SUBSET Proc
    OBVIOUS
  <1> QED
    BY <1>1, TerminateType DEF TypeOK, Exit, inputVars

\* Every step keeps every variable in its type.
LEMMA TypeStep == TypeOK /\ [Next]_vars => TypeOK'
  <1> SUFFICES ASSUME TypeOK, [Next]_vars
               PROVE  TypeOK'
    OBVIOUS
  <1>1. ASSUME NEW p \in Proc, ConnectToSocket(p) PROVE TypeOK'
    BY <1>1 DEF TypeOK, ConnectToSocket, Goto, inputVars
  <1>2. ASSUME NEW p \in Proc, SocketFails(p) PROVE TypeOK'
    BY <1>2, ExitType DEF SocketFails
  <1>3. ASSUME NEW p \in Proc, CheckExit(p) PROVE TypeOK'
    BY <1>3 DEF TypeOK, CheckExit, Goto, inputVars
  <1>4. ASSUME NEW p \in Proc, AcceptTimeout(p) PROVE TypeOK'
    <2>1. logIP' = logIP \/ logIP' = [logIP EXCEPT ![p] = "garbage"]
      BY <1>4 DEF AcceptTimeout, RecordClientIP
    <2> QED
      BY <1>4, <2>1 DEF TypeOK, AcceptTimeout, Goto, inputVars
  <1>5. ASSUME NEW p \in Proc, AcceptConnection(p) PROVE TypeOK'
    <2>1. Head(queue) \in Conn /\ Tail(queue) \in Seq(Conn) /\ Len(Tail(queue)) <= MaxConnect + 1
      <3>1. queue # <<>>
        BY <1>5 DEF AcceptConnection
      <3>2. Head(queue) \in Conn /\ Tail(queue) \in Seq(Conn) /\ Len(Tail(queue)) = Len(queue) - 1
        BY <3>1, Sizes, HeadTailProperties
      <3> QED
        BY <3>2, Sizes
    <2>2. logIP' = logIP \/ logIP' = [logIP EXCEPT ![p] = Head(queue)]
      BY <1>5 DEF AcceptConnection, RecordClientIP
    <2> QED
      BY <1>5, <2>1, <2>2 DEF TypeOK, AcceptConnection, Goto, inputVars
  <1>6. ASSUME NEW p \in Proc, AcceptFails(p) PROVE TypeOK'
    BY <1>6, ExitType DEF AcceptFails
  <1>7. ASSUME NEW p \in Proc, NEW q \in Proc, ForkChild(p, q) PROVE TypeOK'
    BY <1>7 DEF TypeOK, ForkChild, Inherit, inputVars
  <1>8. ASSUME NEW p \in Proc, ForkFails(p) PROVE TypeOK'
    BY <1>8, ExitType DEF ForkFails
  <1>9. ASSUME NEW p \in Proc, CloseListener(p) PROVE TypeOK'
    <2>1. {p} \in SUBSET Proc
      OBVIOUS
    <2> QED
      BY <1>9, <2>1, DropListenerType DEF TypeOK, CloseListener, Goto, inputVars
  <1>10. ASSUME NEW p \in Proc, EndInteraction(p) PROVE TypeOK'
    BY <1>10, ExitType DEF EndInteraction
  <1>11. ASSUME NEW p \in Proc, CloseClient(p) PROVE TypeOK'
    BY <1>11 DEF TypeOK, CloseClient, Goto, inputVars
  <1>12. ASSUME NEW p \in Proc, InstallSignal(p) PROVE TypeOK'
    BY <1>12 DEF TypeOK, InstallSignal, Goto, inputVars
  <1>13. ASSUME NEW p \in Proc, ReadCommandLine(p) PROVE TypeOK'
    <2>1. PICK k \in 1 .. Len(typed) :
             /\ buffer' = [buffer EXCEPT ![p] = IF k = 1 THEN Head(typed) ELSE "other"]
             /\ typed' = SubSeq(typed, k + 1, Len(typed))
      BY <1>13 DEF ReadCommandLine
    <2>2. typed' \in Seq(Line) /\ Len(typed') <= Len(typed)
      <3>1. \A i \in k + 1 .. Len(typed) : typed[i] \in Line
        BY Sizes, ElementOfSeq
      <3>2. k \in Nat /\ k + 1 \in Int /\ Len(typed) \in Int
        BY Sizes
      <3>3. /\ SubSeq(typed, k + 1, Len(typed)) \in Seq(Line)
            /\ Len(SubSeq(typed, k + 1, Len(typed)))
                 = IF k + 1 <= Len(typed) THEN Len(typed) - (k + 1) + 1 ELSE 0
        BY <3>1, <3>2, SubSeqProperties
      <3> QED
        BY <2>1, <3>2, <3>3, Sizes
    <2>3. Head(typed) \in Line
      <3>1. typed # <<>>
        BY Sizes, EmptySeq
      <3> QED
        BY <3>1, Sizes, HeadTailProperties
    <2>4. Len(typed') <= nTyped'
      <3>1. nTyped' = nTyped /\ Len(typed') \in Nat
        BY <1>13, <2>2, LenProperties DEF ReadCommandLine
      <3> QED
        BY <2>2, <3>1, Sizes
    <2>5. buffer' \in [Proc -> Line \cup {""}]
      BY <2>1, <2>3 DEF TypeOK, Line
    <2> QED
      BY <1>13, <2>2, <2>4, <2>5 DEF TypeOK, ReadCommandLine
  <1>14. ASSUME NEW p \in Proc, NoMoreInput(p) PROVE TypeOK'
    BY <1>14 DEF TypeOK, NoMoreInput, CommandDone, Goto, inputVars
  <1>15. ASSUME NEW p \in Proc, EndOfInput(p) PROVE TypeOK'
    BY <1>15 DEF TypeOK, EndOfInput, CommandDone, Goto, inputVars
  <1>16. ASSUME NEW p \in Proc, InputFails(p) PROVE TypeOK'
    BY <1>16 DEF TypeOK, InputFails, CommandDone, Goto, inputVars
  <1>17. ASSUME NEW p \in Proc, ReadConfigCommand(p) PROVE TypeOK'
    BY <1>17 DEF TypeOK, ReadConfigCommand, Goto, inputVars
  <1>18. ASSUME NEW p \in Proc, StopServer(p) PROVE TypeOK'
    BY <1>18, ExitType DEF StopServer
  <1>19. ASSUME NEW c \in Conn, ClientConnects(c) PROVE TypeOK'
    <2>1. Append(queue, c) \in Seq(Conn) /\ Len(Append(queue, c)) = Len(queue) + 1
      BY AppendProperties DEF TypeOK
    <2>2. Len(queue) + 1 <= MaxConnect + 1
      BY <1>19, Sizes DEF ClientConnects, BacklogHasRoom
    <2> QED
      BY <1>19, <2>1, <2>2 DEF TypeOK, ClientConnects, procVars, inputVars
  <1>20. ASSUME NEW line \in Line, TypeLine(line) PROVE TypeOK'
    <2>1. Append(typed, line) \in Seq(Line) /\ Len(Append(typed, line)) = Len(typed) + 1
      BY AppendProperties DEF TypeOK
    <2>2. Len(typed) + 1 <= nTyped + 1 /\ nTyped' \in 0 .. MaxLines
      BY <1>20, Sizes DEF TypeLine
    <2> QED
      BY <1>20, <2>1, <2>2 DEF TypeOK, TypeLine, procVars
  <1>21. ASSUME CloseStdin PROVE TypeOK'
    BY <1>21 DEF TypeOK, CloseStdin, procVars
  <1>22. ASSUME NEW text \in CommandFile, WriteCommandFile(text) PROVE TypeOK'
    BY <1>22 DEF TypeOK, WriteCommandFile, procVars
  <1>23. ASSUME EditLogConfig PROVE TypeOK'
    BY <1>23, ConstantsAssumption DEF TypeOK, EditLogConfig, procVars
  <1>24. ASSUME SigInt PROVE TypeOK'
    <2>1. PICK S \in SUBSET Live : Interrupt(S)
      BY <1>24 DEF SigInt
    <2>2. PICK P \in SUBSET Proc :
             /\ Terminate(P)
             /\ exitCycle' = [p \in Proc |-> p \in P \/ (p \notin S /\ exitCycle[p])]
      BY <2>1 DEF Interrupt, Live
    <2> QED
      <3>1. exitCycle' \in [Proc -> BOOLEAN]
        BY <2>2
      <3>2. UNCHANGED <<arrived, inputVars>>
        BY <2>1 DEF Interrupt
      <3> QED
        BY <2>2, <3>1, <3>2, TerminateType DEF TypeOK, inputVars
  <1>25. CASE UNCHANGED vars
    BY <1>25 DEF TypeOK, vars, procVars, inputVars
  <1> QED
    BY <1>1, <1>2, <1>3, <1>4, <1>5, <1>6, <1>7, <1>8, <1>9, <1>10, <1>11, <1>12, <1>13,
       <1>14, <1>15, <1>16, <1>17, <1>18, <1>19, <1>20, <1>21, <1>22, <1>23, <1>24, <1>25
       DEF Next, ProcStep, Environment

\* main starts with well-typed state.
LEMMA TypeInit == Init => TypeOK
  <1>1. /\ <<>> \in Seq(Conn) /\ <<>> \in Seq(Line)
        /\ Len(<<>>) = 0 /\ 0 <= MaxConnect + 1 /\ 0 \in 0 .. MaxLines
    BY EmptySeq, ConstantsAssumption
  <1> SUFFICES ASSUME Init PROVE TypeOK
    OBVIOUS
  <1>2. pc \in [Proc -> Place]
    BY DEF Init
  <1>3. queue = <<>> /\ typed = <<>> /\ nTyped = 0
    BY Zenon DEF Init
  <1>4. Len(queue) = 0 /\ Len(typed) = 0 /\ queue \in Seq(Conn) /\ typed \in Seq(Line)
    BY <1>1, <1>3, Zenon
  <1>5. Len(queue) <= MaxConnect + 1 /\ Len(typed) <= nTyped /\ nTyped \in 0 .. MaxLines
    <2>1. 0 <= nTyped /\ nTyped \in 0 .. MaxLines
      BY <1>3, ConstantsAssumption
    <2> QED
      BY <1>1, <1>4, <2>1, Zenon
  <1>6. /\ exitCycle \in [Proc -> BOOLEAN] /\ caught \in [Proc -> BOOLEAN]
        /\ listening \subseteq Proc
        /\ cfd \in [Proc -> Conn \cup {NoConn}]
        /\ logIP \in [Proc -> Conn \cup {"empty", "garbage"}]
        /\ buffer \in [Proc -> Line \cup {""}]
        /\ arrived \subseteq Conn
    BY DEF Init
  <1>7. logClientIP \in LogSettings
    BY ConstantsAssumption DEF Init
  <1> QED
    BY <1>2, <1>4, <1>5, <1>6, <1>7 DEF Init, TypeOK

\* Type correctness: every reachable state of the process table is well typed,
\* and the backlog never exceeds what listen() was given.
THEOREM TypeCorrect == Spec => []TypeOK
  BY TypeInit, TypeStep, PTL DEF Spec

-----------------------------------------------------------------------------
(* Who accepts and who holds S and C follows from the positions in main. *)

Places == SingleAcceptor /\ DescriptorsMatchPlace

\* A process that ends gives up its role and its descriptors together.
LEMMA TerminatePlaces ==
    ASSUME TypeOK, Places, NEW P \in SUBSET Proc, Terminate(P)
    PROVE  Places'
  <1>1. \A p \in Proc : /\ pc'[p] = IF p \in P THEN "free" ELSE pc[p]
                        /\ cfd'[p] = IF p \in P THEN NoConn ELSE cfd[p]
    BY DEF Terminate, Set
  <1>2. listening' = listening \ P
    BY DEF Terminate, DropListener
  <1>3. SingleAcceptor'
    BY <1>1 DEF Places, SingleAcceptor, Acceptors
  <1>4. DescriptorsMatchPlace'
    BY <1>1, <1>2 DEF Places, DescriptorsMatchPlace
  <1> QED
    BY <1>3, <1>4 DEF Places

LEMMA ExitPlaces ==
    ASSUME TypeOK, Places, NEW p \in Proc, Exit(p)
    PROVE  Places'
  <1>1. {p} \in SUBSET Proc
    OBVIOUS
  <1> QED
    BY <1>1, TerminatePlaces DEF Exit

\* A step from one point of the loop to another that opens and closes nothing.
LEMMA LoopStepPlaces ==
    ASSUME TypeOK, Places, NEW p \in Proc, NEW place \in {"select", "stop", "stdin", "config", "check", "signal"},
           pc[p] \in {"check", "select", "signal", "stdin", "config"},
           Goto(p, place), UNCHANGED <<listening, cfd>>
    PROVE  Places'
  <1>1. \A q \in Proc : pc'[q] = IF q = p THEN place ELSE pc[q]
    BY DEF Goto, TypeOK
  <1>2. SingleAcceptor'
    BY <1>1 DEF Places, SingleAcceptor, Acceptors
  <1>3. DescriptorsMatchPlace'
    BY <1>1 DEF Places, DescriptorsMatchPlace
  <1> QED
    BY <1>2, <1>3 DEF Places

\* Every step keeps one acceptor and the descriptors in step with pc.
LEMMA PlacesStep ==
    ASSUME TypeOK, Places, [Next]_vars
    PROVE  Places'
  <1>1. ASSUME NEW p \in Proc, ConnectToSocket(p) PROVE Places'
    BY <1>1
       DEF ConnectToSocket, Goto, TypeOK, Places, SingleAcceptor, Acceptors, DescriptorsMatchPlace
  <1>2. ASSUME NEW p \in Proc, SocketFails(p) PROVE Places'
    BY <1>2, ExitPlaces DEF SocketFails
  <1>3. ASSUME NEW p \in Proc, CheckExit(p) PROVE Places'
    BY <1>3, LoopStepPlaces DEF CheckExit
  <1>4. ASSUME NEW p \in Proc, AcceptTimeout(p) PROVE Places'
    BY <1>4, LoopStepPlaces DEF AcceptTimeout
  <1>5. ASSUME NEW p \in Proc, AcceptConnection(p) PROVE Places'
    <2>1. cfd' = [cfd EXCEPT ![p] = Head(queue)] /\ listening' = listening
          /\ pc[p] = "select" /\ pc' = [pc EXCEPT ![p] = "fork"]
      BY <1>5 DEF AcceptConnection, Goto
    <2>2. Head(queue) \in Conn /\ Head(queue) # NoConn
      <3>1. queue # <<>>
        BY <1>5 DEF AcceptConnection
      <3> QED
        BY <3>1, Sizes, HeadTailProperties, ConstantsAssumption
    <2>3. PICK c \in Conn : c # NoConn /\ cfd' = [cfd EXCEPT ![p] = c]
      BY <2>1, <2>2, Zenon
    <2>4. \A r \in Proc : /\ pc'[r] = IF r = p THEN "fork" ELSE pc[r]
                          /\ cfd'[r] = IF r = p THEN c ELSE cfd[r]
      BY <2>1, <2>3 DEF TypeOK
    <2> QED
      BY <2>1, <2>3, <2>4 DEF Places, SingleAcceptor, Acceptors, DescriptorsMatchPlace
  <1>6. ASSUME NEW p \in Proc, AcceptFails(p) PROVE Places'
    BY <1>6, ExitPlaces DEF AcceptFails
  <1>7. ASSUME NEW p \in Proc, NEW q \in Proc, ForkChild(p, q) PROVE Places'
    <2>1. pc[p] = "fork" /\ pc[q] = "free" /\ p # q /\ listening' = listening \cup {q}
      BY <1>7 DEF ForkChild, Inherit
    <2>2. \A r \in Proc :
             /\ pc'[r] = IF r = q THEN "release" ELSE IF r = p THEN "handoff" ELSE pc[r]
             /\ cfd'[r] = IF r = q THEN cfd[p] ELSE cfd[r]
      BY <1>7, <2>1 DEF ForkChild, Inherit, TypeOK
    <2> QED
      BY <2>1, <2>2 DEF Places, SingleAcceptor, Acceptors, DescriptorsMatchPlace
  <1>8. ASSUME NEW p \in Proc, ForkFails(p) PROVE Places'
    BY <1>8, ExitPlaces DEF ForkFails
  <1>9. ASSUME NEW p \in Proc, CloseListener(p) PROVE Places'
    BY <1>9 DEF CloseListener, DropListener, Goto, TypeOK, Places, SingleAcceptor, Acceptors,
                DescriptorsMatchPlace
  <1>10. ASSUME NEW p \in Proc, EndInteraction(p) PROVE Places'
    BY <1>10, ExitPlaces DEF EndInteraction
  <1>11. ASSUME NEW p \in Proc, CloseClient(p) PROVE Places'
    BY <1>11 DEF CloseClient, Goto, TypeOK, Places, SingleAcceptor, Acceptors, DescriptorsMatchPlace
  <1>12. ASSUME NEW p \in Proc, InstallSignal(p) PROVE Places'
    BY <1>12, LoopStepPlaces DEF InstallSignal
  <1>13. ASSUME NEW p \in Proc, ReadCommandLine(p) PROVE Places'
    BY <1>13 DEF ReadCommandLine, Places, SingleAcceptor, Acceptors, DescriptorsMatchPlace
  <1>14. ASSUME NEW p \in Proc, NoMoreInput(p) PROVE Places'
    BY <1>14, LoopStepPlaces DEF NoMoreInput, CommandDone
  <1>15. ASSUME NEW p \in Proc, EndOfInput(p) PROVE Places'
    BY <1>15, LoopStepPlaces DEF EndOfInput, CommandDone
  <1>16. ASSUME NEW p \in Proc, InputFails(p) PROVE Places'
    BY <1>16, LoopStepPlaces DEF InputFails, CommandDone
  <1>17. ASSUME NEW p \in Proc, ReadConfigCommand(p) PROVE Places'
    BY <1>17, LoopStepPlaces DEF ReadConfigCommand
  <1>18. ASSUME NEW p \in Proc, StopServer(p) PROVE Places'
    BY <1>18, ExitPlaces DEF StopServer
  <1>19. ASSUME SigInt PROVE Places'
    <2>1. PICK S \in SUBSET Live : Interrupt(S)
      BY <1>19 DEF SigInt
    <2>2. PICK P \in SUBSET Proc : Terminate(P)
      BY <2>1 DEF Interrupt, Live
    <2> QED
      BY <2>2, TerminatePlaces
  <1>20. ASSUME UNCHANGED procVars PROVE Places'
    BY <1>20 DEF procVars, Places, SingleAcceptor, Acceptors, DescriptorsMatchPlace
  <1>21. ASSUME Environment PROVE SigInt \/ UNCHANGED procVars
    BY <1>21, Zenon DEF Environment, ClientConnects, TypeLine, CloseStdin, WriteCommandFile, EditLogConfig
  <1>22. UNCHANGED vars => UNCHANGED procVars
    BY DEF vars
  <1> QED
    BY <1>1, <1>2, <1>3, <1>4, <1>5, <1>6, <1>7, <1>8, <1>9, <1>10, <1>11, <1>12, <1>13,
       <1>14, <1>15, <1>16, <1>17, <1>18, <1>19, <1>20, <1>21, <1>22
       DEF Next, ProcStep

-----------------------------------------------------------------------------
(* Where each connection is. *)

Conns == ConnectionsInOnePlace /\ OneHandlerPerConnection

\* Closing descriptors and resetting the backlog duplicates no connection.
LEMMA ClosingKeepsConns ==
    ASSUME TypeOK, Conns, queue' = queue \/ queue' = <<>>, arrived' = arrived,
           \A p \in Proc : cfd'[p] \in {cfd[p], NoConn},
           \A p \in Proc : cfd'[p] # NoConn /\ pc[p] = "release" => pc'[p] = "release"
    PROVE  Conns'
  <1>1. OneHandlerPerConnection'
    BY DEF Conns, OneHandlerPerConnection
  <1>2. CASE queue' = queue
    <2>1. \A p \in Proc, i \in 1 .. Len(queue) : queue[i] # NoConn
      BY Sizes, ElementOfSeq, ConstantsAssumption
    <2> QED
      BY <1>1, <1>2, <2>1 DEF Conns, ConnectionsInOnePlace
  <1>3. CASE queue' = <<>>
    <2>1. 1 .. Len(queue') = {}
      BY <1>3, EmptySeq
    <2>2. \A p \in Proc : cfd'[p] \in arrived' \cup {NoConn}
      BY DEF Conns, ConnectionsInOnePlace
    <2> QED
      BY <1>1, <2>1, <2>2 DEF Conns, ConnectionsInOnePlace
  <1> QED
    BY <1>2, <1>3

LEMMA TerminateConns ==
    ASSUME TypeOK, Conns, NEW P \in SUBSET Proc, Terminate(P), UNCHANGED arrived
    PROVE  Conns'
  <1>1. \A p \in Proc : /\ pc'[p] = IF p \in P THEN "free" ELSE pc[p]
                        /\ cfd'[p] = IF p \in P THEN NoConn ELSE cfd[p]
    BY DEF Terminate, Set
  <1>2. queue' = queue \/ queue' = <<>>
    BY DEF Terminate, DropListener
  <1> QED
    BY <1>1, <1>2, ClosingKeepsConns

LEMMA ExitConns ==
    ASSUME TypeOK, Conns, NEW p \in Proc, Exit(p)
    PROVE  Conns'
  <1>1. {p} \in SUBSET Proc
    OBVIOUS
  <1> QED
    BY <1>1, TerminateConns DEF Exit

\* A step of a process that is not at release and touches no connection.
LEMMA LoopStepConns ==
    ASSUME TypeOK, Conns, NEW p \in Proc, NEW place, pc[p] # "release", Goto(p, place),
           UNCHANGED <<cfd, queue, arrived>>
    PROVE  Conns'
  <1>1. \A q \in Proc : pc[q] = "release" => pc'[q] = "release"
    BY DEF Goto, TypeOK
  <1> QED
    BY <1>1, ClosingKeepsConns

\* The connection taken from the backlog was in no process.
LEMMA AcceptConns ==
    ASSUME TypeOK, Conns, NEW p \in Proc, AcceptConnection(p)
    PROVE  Conns'
  <1>1. queue # <<>> /\ queue' = Tail(queue) /\ arrived' = arrived /\ pc[p] = "select"
    BY DEF AcceptConnection
  <1>2. PICK c \in Conn : c = Head(queue)
    BY <1>1, Sizes, HeadTailProperties
  <1>3. c = queue[1] /\ Len(queue) >= 1
    BY <1>1, <1>2, Sizes, EmptySeq
  <1>4. Len(Tail(queue)) = Len(queue) - 1
        /\ \A i \in 1 .. Len(Tail(queue)) : Tail(queue)[i] = queue[i + 1]
    BY <1>1, Sizes, HeadTailProperties
  <1>5. \A i \in 1 .. Len(queue') : i + 1 \in 1 .. Len(queue) /\ queue'[i] = queue[i + 1]
    BY <1>1, <1>4, Sizes
  <1>6. 1 \in 1 .. Len(queue) /\ \A i \in 1 .. Len(queue') : i \in Nat /\ i + 1 # 1
    BY <1>3, Sizes
  <1>7. cfd' = [cfd EXCEPT ![p] = c] /\ pc' = [pc EXCEPT ![p] = "fork"]
    BY <1>2, Zenon DEF AcceptConnection, Goto
  <1>8. \A q \in Proc : /\ pc'[q] = IF q = p THEN "fork" ELSE pc[q]
                        /\ cfd'[q] = IF q = p THEN c ELSE cfd[q]
    BY <1>7 DEF TypeOK
  <1>9. \A q \in Proc : cfd[q] # c
    BY <1>3, <1>6 DEF Conns, ConnectionsInOnePlace
  <1>10. OneHandlerPerConnection'
    BY <1>1, <1>8, <1>9 DEF Conns, OneHandlerPerConnection
  <1>11. \A i, j \in 1 .. Len(queue') : queue'[i] = queue'[j] => i = j
    <2> SUFFICES ASSUME NEW i \in 1 .. Len(queue'), NEW j \in 1 .. Len(queue'), queue'[i] = queue'[j]
                 PROVE  i = j
      OBVIOUS
    <2>1. i + 1 = j + 1
      BY <1>5 DEF Conns, ConnectionsInOnePlace
    <2> QED
      BY <2>1, <1>6
  <1>12. \A i \in 1 .. Len(queue') : queue'[i] \in arrived' /\ queue'[i] # c
    BY <1>1, <1>3, <1>5, <1>6 DEF Conns, ConnectionsInOnePlace
  <1>13. \A q \in Proc, i \in 1 .. Len(queue') : cfd'[q] # queue'[i]
    BY <1>5, <1>8, <1>12 DEF Conns, ConnectionsInOnePlace
  <1>14. \A q \in Proc : cfd'[q] \in arrived' \cup {NoConn}
    BY <1>1, <1>3, <1>6, <1>8 DEF Conns, ConnectionsInOnePlace
  <1> QED
    BY <1>10, <1>11, <1>12, <1>13, <1>14 DEF Conns, ConnectionsInOnePlace

\* The child shares C with its parent only, and is at release.
LEMMA ForkConns ==
    ASSUME TypeOK, Places, Conns, NEW p \in Proc, NEW q \in Proc, ForkChild(p, q)
    PROVE  Conns'
  <1>1. pc[p] = "fork" /\ pc[q] = "free" /\ p # q /\ queue' = queue /\ arrived' = arrived
    BY DEF ForkChild
  <1>2. \A r \in Proc :
           /\ pc'[r] = IF r = q THEN "release" ELSE IF r = p THEN "handoff" ELSE pc[r]
           /\ cfd'[r] = IF r = q THEN cfd[p] ELSE cfd[r]
    BY <1>1 DEF ForkChild, Inherit, TypeOK
  <1>3. \A r \in Proc : r # p => pc[r] # "release"
    BY <1>1 DEF Places, SingleAcceptor, Acceptors
  <1>4. OneHandlerPerConnection'
    BY <1>1, <1>2, <1>3 DEF Conns, OneHandlerPerConnection
  <1>5. ConnectionsInOnePlace'
    BY <1>1, <1>2 DEF Conns, ConnectionsInOnePlace
  <1> QED
    BY <1>4, <1>5 DEF Conns

\* A new connection is nowhere else.
LEMMA ConnectConns ==
    ASSUME TypeOK, Conns, NEW c \in Conn, ClientConnects(c)
    PROVE  Conns'
  <1>1. c \notin arrived /\ arrived' = arrived \cup {c} /\ queue' = Append(queue, c)
        /\ cfd' = cfd /\ pc' = pc
    BY DEF ClientConnects, procVars
  <1>2. Len(queue') = Len(queue) + 1 /\ queue'[Len(queue) + 1] = c
        /\ \A i \in 1 .. Len(queue) : queue'[i] = queue[i]
    BY <1>1, Sizes, AppendProperties
  <1>3. \A i \in 1 .. Len(queue') : i \in 1 .. Len(queue) \/ i = Len(queue) + 1
    BY <1>2, Sizes
  <1>4. \A i \in 1 .. Len(queue) : queue[i] # c
    BY <1>1 DEF Conns, ConnectionsInOnePlace
  <1>5. \A r \in Proc : cfd[r] # c
    BY <1>1, ConstantsAssumption DEF Conns, ConnectionsInOnePlace
  <1>6. \A i, j \in 1 .. Len(queue') : queue'[i] = queue'[j] => i = j
    BY <1>2, <1>3, <1>4 DEF Conns, ConnectionsInOnePlace
  <1>7. \A i \in 1 .. Len(queue') : queue'[i] \in arrived'
    BY <1>1, <1>2, <1>3 DEF Conns, ConnectionsInOnePlace
  <1>8. \A r \in Proc, i \in 1 .. Len(queue') : cfd'[r] # queue'[i]
    BY <1>1, <1>2, <1>3, <1>5 DEF Conns, ConnectionsInOnePlace
  <1>9. \A r \in Proc : cfd'[r] \in arrived' \cup {NoConn}
    BY <1>1 DEF Conns, ConnectionsInOnePlace
  <1>10. OneHandlerPerConnection'
    BY <1>1 DEF Conns, OneHandlerPerConnection
  <1> QED
    BY <1>6, <1>7, <1>8, <1>9, <1>10 DEF Conns, ConnectionsInOnePlace

\* Every step keeps each connection in one place.
LEMMA ConnsStep ==
    ASSUME TypeOK, Places, Conns, [Next]_vars
    PROVE  Conns'
  <1>1. ASSUME NEW p \in Proc, ConnectToSocket(p) PROVE Conns'
    BY <1>1, LoopStepConns DEF ConnectToSocket
  <1>2. ASSUME NEW p \in Proc, SocketFails(p) PROVE Conns'
    BY <1>2, ExitConns DEF SocketFails
  <1>3. ASSUME NEW p \in Proc, CheckExit(p) PROVE Conns'
    BY <1>3, LoopStepConns DEF CheckExit
  <1>4. ASSUME NEW p \in Proc, AcceptTimeout(p) PROVE Conns'
    BY <1>4, LoopStepConns DEF AcceptTimeout
  <1>5. ASSUME NEW p \in Proc, AcceptConnection(p) PROVE Conns'
    BY <1>5, AcceptConns
  <1>6. ASSUME NEW p \in Proc, AcceptFails(p) PROVE Conns'
    BY <1>6, ExitConns DEF AcceptFails
  <1>7. ASSUME NEW p \in Proc, NEW q \in Proc, ForkChild(p, q) PROVE Conns'
    BY <1>7, ForkConns
  <1>8. ASSUME NEW p \in Proc, ForkFails(p) PROVE Conns'
    BY <1>8, ExitConns DEF ForkFails
  <1>9. ASSUME NEW p \in Proc, CloseListener(p) PROVE Conns'
    <2>1. \A q \in Proc : pc[q] = "release" => pc'[q] = "release"
      BY <1>9 DEF CloseListener, Goto, TypeOK
    <2> QED
      BY <1>9, <2>1, ClosingKeepsConns DEF CloseListener, DropListener
  <1>10. ASSUME NEW p \in Proc, EndInteraction(p) PROVE Conns'
    BY <1>10, ExitConns DEF EndInteraction
  <1>11. ASSUME NEW p \in Proc, CloseClient(p) PROVE Conns'
    <2>1. \A q \in Proc : /\ pc[q] = "release" /\ q # p => pc'[q] = "release"
                          /\ cfd'[q] = IF q = p THEN NoConn ELSE cfd[q]
      BY <1>11 DEF CloseClient, Goto, TypeOK
    <2> QED
      BY <1>11, <2>1, ClosingKeepsConns DEF CloseClient
  <1>12. ASSUME NEW p \in Proc, InstallSignal(p) PROVE Conns'
    BY <1>12, LoopStepConns DEF InstallSignal
  <1>13. ASSUME NEW p \in Proc, ReadCommandLine(p) PROVE Conns'
    BY <1>13, ClosingKeepsConns DEF ReadCommandLine
  <1>14. ASSUME NEW p \in Proc, NoMoreInput(p) PROVE Conns'
    BY <1>14, LoopStepConns DEF NoMoreInput, CommandDone
  <1>15. ASSUME NEW p \in Proc, EndOfInput(p) PROVE Conns'
    BY <1>15, LoopStepConns DEF EndOfInput, CommandDone
  <1>16. ASSUME NEW p \in Proc, InputFails(p) PROVE Conns'
    BY <1>16, LoopStepConns DEF InputFails, CommandDone
  <1>17. ASSUME NEW p \in Proc, ReadConfigCommand(p) PROVE Conns'
    BY <1>17, LoopStepConns DEF ReadConfigCommand
  <1>18. ASSUME NEW p \in Proc, StopServer(p) PROVE Conns'
    BY <1>18, ExitConns DEF StopServer
  <1>19. ASSUME NEW c \in Conn, ClientConnects(c) PROVE Conns'
    BY <1>19, ConnectConns
  <1>20. ASSUME SigInt PROVE Conns'
    <2>1. PICK S \in SUBSET Live : Interrupt(S)
      BY <1>20 DEF SigInt
    <2>2. PICK P \in SUBSET Proc : Terminate(P) /\ UNCHANGED arrived
      BY <2>1 DEF Interrupt, Live
    <2> QED
      BY <2>2, TerminateConns
  <1>21. ASSUME UNCHANGED <<procVars, queue, arrived>> PROVE Conns'
    BY <1>21, ClosingKeepsConns DEF procVars
  <1>22. ASSUME Environment
         PROVE  SigInt \/ (\E c \in Conn : ClientConnects(c)) \/ UNCHANGED <<procVars, queue, arrived>>
    BY <1>22, Zenon DEF Environment, TypeLine, CloseStdin, WriteCommandFile, EditLogConfig
  <1>23. UNCHANGED vars => UNCHANGED <<procVars, queue, arrived>>
    BY DEF vars
  <1> QED
    BY <1>1, <1>2, <1>3, <1>4, <1>5, <1>6, <1>7, <1>8, <1>9, <1>10, <1>11, <1>12, <1>13,
       <1>14, <1>15, <1>16, <1>17, <1>18, <1>19, <1>20, <1>21, <1>22, <1>23
       DEF Next, ProcStep

-----------------------------------------------------------------------------
(* The shapes of a step, as far as S, C and the positions are concerned.   *)

\* A move from one point of the accept loop to another.
LoopMove(p, place) ==
    /\ pc[p] \in {"check", "select", "signal", "stdin", "config"}
    /\ place \in {"select", "stop", "stdin", "config", "check", "signal"}
    /\ Goto(p, place)
    /\ UNCHANGED <<listening, cfd, queue, arrived>>

Ending(P) == Terminate(P) /\ UNCHANGED arrived

LEMMA ExitEnds ==
    ASSUME NEW p \in Proc, pc[p] # "free", Exit(p)
    PROVE  \E P \in SUBSET Live : Ending(P)
  <1>1. {p} \in SUBSET Live /\ Ending({p})
    BY DEF Live, Exit, Ending
  <1> QED
    BY <1>1

LEMMA Shapes ==
    ASSUME TypeOK, [Next]_vars
    PROVE  \/ \E p \in Proc : ConnectToSocket(p)
           \/ \E P \in SUBSET Live : Ending(P)
           \/ \E p \in Proc : AcceptConnection(p)
           \/ \E p, q \in Proc : ForkChild(p, q)
           \/ \E p \in Proc : CloseListener(p)
           \/ \E p \in Proc : CloseClient(p)
           \/ \E p \in Proc : \E place \in LoopAt \cup {"stop"} : LoopMove(p, place)
           \/ \E c \in Conn : ClientConnects(c)
           \/ UNCHANGED <<pc, cfd, listening, queue, arrived>>
  <1> DEFINE Moves(p) == \E place \in LoopAt \cup {"stop"} : LoopMove(p, place)
             Ends == \E P \in SUBSET Live : Ending(P)
             Still == UNCHANGED <<pc, cfd, listening, queue, arrived>>
  <1>1. ASSUME NEW p \in Proc, SocketFails(p) \/ AcceptFails(p) \/ ForkFails(p) \/ StopServer(p) \/ EndInteraction(p)
        PROVE  Ends
    BY <1>1, ExitEnds DEF SocketFails, AcceptFails, ForkFails, StopServer, EndInteraction
  <1>2. ASSUME NEW p \in Proc, CheckExit(p) \/ AcceptTimeout(p) \/ InstallSignal(p) \/ ReadConfigCommand(p)
        PROVE  Moves(p)
    BY <1>2 DEF CheckExit, AcceptTimeout, InstallSignal, ReadConfigCommand, LoopMove
  <1>3. ASSUME NEW p \in Proc, NoMoreInput(p) \/ EndOfInput(p) \/ InputFails(p)
        PROVE  Moves(p)
    BY <1>3 DEF NoMoreInput, EndOfInput, InputFails, CommandDone, LoopMove
  <1>4. ASSUME NEW p \in Proc, ReadCommandLine(p) PROVE Still
    BY <1>4 DEF ReadCommandLine
  <1>5. ASSUME SigInt PROVE Ends
    <2>1. PICK S \in SUBSET Live : Interrupt(S)
      BY <1>5 DEF SigInt
    <2>2. PICK P \in SUBSET S : Terminate(P) /\ UNCHANGED arrived
      BY <2>1 DEF Interrupt
    <2> QED
      BY <2>2 DEF Ending
  <1>6. ASSUME Environment
        PROVE  SigInt \/ (\E c \in Conn : ClientConnects(c)) \/ Still
    BY <1>6, Zenon DEF Environment, TypeLine, CloseStdin, WriteCommandFile, EditLogConfig, procVars
  <1>7. UNCHANGED vars => Still
    BY DEF vars, procVars
  <1> QED
    BY <1>1, <1>2, <1>3, <1>4, <1>5, <1>6, <1>7, Zenon DEF Next, ProcStep

\* What a process that ends leaves of the listening socket and the backlog.
LEMMA EndingEffect ==
    ASSUME NEW P \in SUBSET Proc, Ending(P)
    PROVE  /\ \A p \in Proc : /\ pc'[p] = IF p \in P THEN "free" ELSE pc[p]
                             /\ cfd'[p] = IF p \in P THEN NoConn ELSE cfd[p]
           /\ listening' = listening \ P
           /\ queue' = IF listening' = {} THEN <<>> ELSE queue
           /\ arrived' = arrived
  BY DEF Ending, Terminate, DropListener, Set

\* The first process stays alone until S is open, and the backlog goes with S.
LEMMA StartsAloneStep ==
    ASSUME TypeOK, Places, StartsAlone, [Next]_vars
    PROVE  StartsAlone'
  <1> USE DEF StartsAlone
  <1>1. ASSUME NEW p \in Proc, ConnectToSocket(p) PROVE StartsAlone'
    BY <1>1 DEF ConnectToSocket, Goto, TypeOK
  <1>2. ASSUME NEW P \in SUBSET Live, Ending(P) PROVE StartsAlone'
    <2>1. P \in SUBSET Proc
      BY DEF Live
    <2> QED
      BY <1>2, <2>1, EndingEffect
  <1>3. ASSUME NEW p \in Proc, AcceptConnection(p) PROVE StartsAlone'
    <2>1. pc[p] = "select" /\ pc' = [pc EXCEPT ![p] = "fork"] /\ listening' = listening
      BY <1>3 DEF AcceptConnection, Goto
    <2>2. p \in listening
      BY <2>1 DEF Places, DescriptorsMatchPlace
    <2> QED
      BY <2>1, <2>2 DEF TypeOK
  <1>4. ASSUME NEW p \in Proc, NEW q \in Proc, ForkChild(p, q) PROVE StartsAlone'
    BY <1>4 DEF ForkChild, Inherit, TypeOK
  <1>5. ASSUME NEW p \in Proc, CloseListener(p) PROVE StartsAlone'
    BY <1>5 DEF CloseListener, DropListener, Goto, TypeOK
  <1>6. ASSUME NEW p \in Proc, CloseClient(p) PROVE StartsAlone'
    BY <1>6 DEF CloseClient, Goto, TypeOK
  <1>7. ASSUME NEW p \in Proc, NEW place \in LoopAt \cup {"stop"}, LoopMove(p, place) PROVE StartsAlone'
    BY <1>7 DEF LoopMove, Goto, TypeOK
  <1>8. ASSUME NEW c \in Conn, ClientConnects(c) PROVE StartsAlone'
    BY <1>8 DEF ClientConnects, procVars
  <1>9. ASSUME UNCHANGED <<pc, cfd, listening, queue, arrived>> PROVE StartsAlone'
    BY <1>9
  <1> QED
    BY <1>1, <1>2, <1>3, <1>4, <1>5, <1>6, <1>7, <1>8, <1>9, Shapes, Zenon

-----------------------------------------------------------------------------
(* The theorems. *)

\* The first process is the only one, and nothing is open.
LEMMA IndInit == Init => IndInv
  <1> SUFFICES ASSUME Init
               PROVE  IndInv
    OBVIOUS
  <1>1. TypeOK
    BY TypeInit
  <1>2. PICK first \in Proc : pc = [p \in Proc |-> IF p = first THEN "boot" ELSE "free"]
    BY DEF Init
  <1>3. listening = {} /\ queue = <<>> /\ \A p \in Proc : cfd[p] = NoConn
    BY Zenon DEF Init
  <1>4. SingleAcceptor
    BY <1>2 DEF SingleAcceptor, Acceptors
  <1>5. DescriptorsMatchPlace
    BY <1>2, <1>3 DEF DescriptorsMatchPlace
  <1>6. 1 .. Len(queue) = {}
    BY <1>3, EmptySeq
  <1>7. ConnectionsInOnePlace
    BY <1>3, <1>6, Zenon DEF ConnectionsInOnePlace
  <1>8. OneHandlerPerConnection
    BY <1>3 DEF OneHandlerPerConnection
  <1>9. StartsAlone
    BY <1>2, <1>3 DEF StartsAlone
  <1> QED
    BY <1>1, <1>4, <1>5, <1>7, <1>8, <1>9 DEF IndInv

\* The conjunction of the four parts is inductive.
THEOREM Inductive == Spec => []IndInv
  <1>1. IndInv /\ [Next]_vars => IndInv'
    BY TypeStep, PlacesStep, ConnsStep, StartsAloneStep DEF IndInv, Places, Conns
  <1> QED
    BY <1>1, IndInit, PTL DEF Spec

\* main never has two processes in its accept loop, however forks, exits,
\* failures and signals interleave.
THEOREM OneAcceptor == Spec => []SingleAcceptor
  <1>1. IndInv => SingleAcceptor
    BY DEF IndInv
  <1> QED
    BY <1>1, Inductive, PTL

\* S is shared only across the hand-over from parent to child, and no process
\* serves a client with S open (close(deskriptionS) in the parent).
THEOREM ListenerHandedOver == Spec => []SoleListener
  <1>1. IndInv => SoleListener
    <2> SUFFICES ASSUME IndInv PROVE SoleListener
      OBVIOUS
    <2>1. \A p \in listening : p \in Proc /\ (p \in Acceptors \/ pc[p] = "handoff")
      BY DEF IndInv, TypeOK, DescriptorsMatchPlace, Acceptors
    <2>2. \A p \in listening : pc[p] # "serving"
      BY <2>1 DEF Acceptors
    <2> QED
      BY <2>1, <2>2 DEF IndInv, SingleAcceptor, SoleListener
  <1> QED
    BY <1>1, Inductive, PTL

\* A connection is answered by at most one process.
THEOREM ServedByOne == Spec => []OneHandlerPerConnection
  <1>1. IndInv => OneHandlerPerConnection
    BY DEF IndInv
  <1> QED
    BY <1>1, Inductive, PTL

\* Outside fork, hand-over and interaction no process keeps C open, and a
\* connection still in the backlog is in no process.
THEOREM DescriptorsReleased == Spec => []NoStrayDescriptor
  <1>1. IndInv => NoStrayDescriptor
    <2> SUFFICES ASSUME IndInv, NEW p \in Proc
                 PROVE  (cfd[p] # NoConn <=> pc[p] \in HoldsConnAt) /\ cfd[p] \notin Range(queue)
      BY DEF NoStrayDescriptor
    <2>1. DOMAIN queue = 1 .. Len(queue)
      BY Sizes, LenProperties DEF IndInv
    <2> QED
      BY <2>1 DEF IndInv, DescriptorsMatchPlace, ConnectionsInOnePlace, Range
  <1> QED
    BY <1>1, Inductive, PTL

-----------------------------------------------------------------------------
(* The address in the access-log record, as long as accessLoggin.txt has   *)
(* the line and does not switch the recording off.                         *)

AnsweringAt == {"fork", "handoff", "serving"}

Addresses ==
    /\ logClientIP \in {"yes", "no"}
    /\ logClientIP = "no" => \A p \in Proc : logIP[p] = "empty"
    /\ \A p \in Proc : pc[p] \in AnsweringAt => logIP[p] \in {"empty", cfd[p]}

\* A step that records no address and gives no process a connection.
LEMMA QuietKeepsAddresses ==
    ASSUME Addresses, logClientIP' = logClientIP,
           \A p \in Proc : logIP'[p] \in {logIP[p], "empty"},
           \A p \in Proc : pc'[p] \in AnsweringAt => pc[p] \in AnsweringAt /\ cfd'[p] = cfd[p]
    PROVE  Addresses'
  BY DEF Addresses

LEMMA TerminateAddresses ==
    ASSUME TypeOK, Addresses, NEW P \in SUBSET Proc, Terminate(P), UNCHANGED logClientIP
    PROVE  Addresses'
  <1>1. \A p \in Proc : /\ pc'[p] = IF p \in P THEN "free" ELSE pc[p]
                        /\ cfd'[p] = IF p \in P THEN NoConn ELSE cfd[p]
                        /\ logIP'[p] = IF p \in P THEN "empty" ELSE logIP[p]
    BY DEF Terminate, Set
  <1> QED
    BY <1>1, QuietKeepsAddresses DEF AnsweringAt

LEMMA ExitAddresses ==
    ASSUME TypeOK, Addresses, NEW p \in Proc, Exit(p)
    PROVE  Addresses'
  <1>1. {p} \in SUBSET Proc
    OBVIOUS
  <1>2. UNCHANGED logClientIP
    BY DEF Exit, inputVars
  <1> QED
    BY <1>1, <1>2, TerminateAddresses DEF Exit

\* A move to a point of the program at which no connection is answered.
LEMMA LoopStepAddresses ==
    ASSUME TypeOK, Addresses, NEW p \in Proc, NEW place, place \notin AnsweringAt, Goto(p, place),
           UNCHANGED <<cfd, logIP, logClientIP>>
    PROVE  Addresses'
  <1>1. \A q \in Proc : pc'[q] = IF q = p THEN place ELSE pc[q]
    BY DEF Goto, TypeOK
  <1> QED
    BY <1>1, QuietKeepsAddresses

\* With the line in the file, the answer of isUseInLog is the file's.
LEMMA Recording ==
    ASSUME Addresses, NEW p, NEW from, RecordClientIP(p, from)
    PROVE  logIP' = IF logClientIP = "yes" THEN [logIP EXCEPT ![p] = from] ELSE logIP
  <1>1. IsUseInLog = {logClientIP = "yes"}
    <2>1. CASE logClientIP = "yes"
      BY <2>1 DEF IsUseInLog
    <2>2. CASE logClientIP = "no"
      BY <2>2 DEF IsUseInLog
    <2> QED
      BY <2>1, <2>2 DEF Addresses
  <1> QED
    BY <1>1 DEF RecordClientIP

\* Only the process at select writes an address, and forgets it or keeps the
\* one of the connection it accepts.
LEMMA SelectAddresses ==
    ASSUME TypeOK, Addresses, NEW p \in Proc, AcceptTimeout(p) \/ AcceptConnection(p)
    PROVE  Addresses'
  <1>1. CASE AcceptTimeout(p)
    <2>1. /\ \A q \in Proc : pc'[q] = IF q = p THEN "signal" ELSE pc[q]
          /\ cfd' = cfd /\ logClientIP' = logClientIP
      BY <1>1 DEF AcceptTimeout, Goto, TypeOK, inputVars
    <2>2. logIP' = IF logClientIP = "yes" THEN [logIP EXCEPT ![p] = "garbage"] ELSE logIP
      BY <1>1, Recording DEF AcceptTimeout
    <2>3. \A q \in Proc : logIP'[q] = IF logClientIP = "yes" /\ q = p THEN "garbage" ELSE logIP[q]
      BY <2>2 DEF TypeOK
    <2> QED
      BY <2>1, <2>3 DEF Addresses, AnsweringAt
  <1>2. CASE AcceptConnection(p)
    <2>1. queue # <<>>
      BY <1>2 DEF AcceptConnection
    <2>2. PICK c \in Conn : c = Head(queue)
      BY <2>1, Sizes, HeadTailProperties
    <2>3. /\ cfd' = [cfd EXCEPT ![p] = c]
          /\ logIP' = IF logClientIP = "yes" THEN [logIP EXCEPT ![p] = c] ELSE logIP
          /\ pc' = [pc EXCEPT ![p] = "fork"]
          /\ pc[p] = "select"
          /\ logClientIP' = logClientIP
      BY <1>2, <2>2, Recording DEF AcceptConnection, Goto, inputVars
    <2>4. \A q \in Proc : /\ pc'[q] = IF q = p THEN "fork" ELSE pc[q]
                          /\ cfd'[q] = IF q = p THEN c ELSE cfd[q]
                          /\ logIP'[q] = IF logClientIP = "yes" /\ q = p THEN c ELSE logIP[q]
      BY <2>3 DEF TypeOK
    <2> QED
      BY <2>3, <2>4 DEF Addresses, AnsweringAt
  <1> QED
    BY <1>1, <1>2

\* The parent keeps its record; the child answers nobody.
LEMMA ForkAddresses ==
    ASSUME TypeOK, Addresses, NEW p \in Proc, NEW q \in Proc, ForkChild(p, q)
    PROVE  Addresses'
  <1>1. pc[p] = "fork" /\ pc[q] = "free" /\ p # q /\ logClientIP' = logClientIP
    BY DEF ForkChild, inputVars
  <1>2. \A r \in Proc :
           /\ pc'[r] = IF r = q THEN "release" ELSE IF r = p THEN "handoff" ELSE pc[r]
           /\ cfd'[r] = IF r = q THEN cfd[p] ELSE cfd[r]
           /\ logIP'[r] = IF r = q THEN logIP[p] ELSE logIP[r]
    BY <1>1 DEF ForkChild, Inherit, TypeOK
  <1> QED
    BY <1>1, <1>2 DEF Addresses, AnsweringAt

\* Every step, unless it switches the recording of addresses off.
LEMMA AddressesStep ==
    ASSUME LogEdits \subseteq {"yes"}, TypeOK, Addresses, [Next]_vars
    PROVE  Addresses'
  <1>1. ASSUME NEW p \in Proc, ConnectToSocket(p) PROVE Addresses'
    BY <1>1, LoopStepAddresses DEF ConnectToSocket, AnsweringAt, inputVars
  <1>2. ASSUME NEW p \in Proc, SocketFails(p) PROVE Addresses'
    BY <1>2, ExitAddresses DEF SocketFails
  <1>3. ASSUME NEW p \in Proc, CheckExit(p) PROVE Addresses'
    BY <1>3, LoopStepAddresses DEF CheckExit, AnsweringAt, inputVars
  <1>4. ASSUME NEW p \in Proc, AcceptTimeout(p) \/ AcceptConnection(p) PROVE Addresses'
    BY <1>4, SelectAddresses
  <1>5. ASSUME NEW p \in Proc, AcceptFails(p) PROVE Addresses'
    BY <1>5, ExitAddresses DEF AcceptFails
  <1>6. ASSUME NEW p \in Proc, NEW q \in Proc, ForkChild(p, q) PROVE Addresses'
    BY <1>6, ForkAddresses
  <1>7. ASSUME NEW p \in Proc, ForkFails(p) PROVE Addresses'
    BY <1>7, ExitAddresses DEF ForkFails
  <1>8. ASSUME NEW p \in Proc, CloseListener(p) PROVE Addresses'
    <2>1. \A q \in Proc : pc'[q] = IF q = p THEN "serving" ELSE pc[q]
      BY <1>8 DEF CloseListener, Goto, TypeOK
    <2>2. pc[p] = "handoff" /\ cfd' = cfd /\ logIP' = logIP /\ logClientIP' = logClientIP
      BY <1>8 DEF CloseListener, inputVars
    <2> QED
      BY <2>1, <2>2, QuietKeepsAddresses DEF AnsweringAt
  <1>9. ASSUME NEW p \in Proc, EndInteraction(p) PROVE Addresses'
    BY <1>9, ExitAddresses DEF EndInteraction
  <1>10. ASSUME NEW p \in Proc, CloseClient(p) PROVE Addresses'
    <2>1. \A q \in Proc : /\ pc'[q] = IF q = p THEN "signal" ELSE pc[q]
                          /\ cfd'[q] = IF q = p THEN NoConn ELSE cfd[q]
      BY <1>10 DEF CloseClient, Goto, TypeOK
    <2>2. logIP' = logIP /\ logClientIP' = logClientIP
      BY <1>10 DEF CloseClient, inputVars
    <2> QED
      BY <2>1, <2>2, QuietKeepsAddresses DEF AnsweringAt
  <1>11. ASSUME NEW p \in Proc, InstallSignal(p) PROVE Addresses'
    BY <1>11, LoopStepAddresses DEF InstallSignal, AnsweringAt, inputVars
  <1>12. ASSUME NEW p \in Proc, ReadCommandLine(p) PROVE Addresses'
    BY <1>12, QuietKeepsAddresses DEF ReadCommandLine
  <1>13. ASSUME NEW p \in Proc, NoMoreInput(p) \/ EndOfInput(p) \/ InputFails(p) PROVE Addresses'
    BY <1>13, LoopStepAddresses DEF NoMoreInput, EndOfInput, InputFails, CommandDone, AnsweringAt, inputVars
  <1>14. ASSUME NEW p \in Proc, ReadConfigCommand(p) PROVE Addresses'
    BY <1>14, LoopStepAddresses DEF ReadConfigCommand, AnsweringAt, inputVars
  <1>15. ASSUME NEW p \in Proc, StopServer(p) PROVE Addresses'
    BY <1>15, ExitAddresses DEF StopServer
  <1>16. ASSUME SigInt PROVE Addresses'
    <2>1. PICK S \in SUBSET Live : Interrupt(S)
      BY <1>16 DEF SigInt
    <2>2. PICK P \in SUBSET Proc : Terminate(P) /\ UNCHANGED logClientIP
      BY <2>1 DEF Interrupt, Live, inputVars
    <2> QED
      BY <2>2, TerminateAddresses
  <1>17. ASSUME UNCHANGED <<procVars, logClientIP>> PROVE Addresses'
    BY <1>17, QuietKeepsAddresses DEF procVars
  <1>18. ASSUME EditLogConfig PROVE Addresses'
    <2>1. logClientIP' = "yes"
      BY <1>18, ConstantsAssumption DEF EditLogConfig
    <2>2. UNCHANGED <<pc, cfd, logIP>>
      BY <1>18 DEF EditLogConfig, procVars
    <2> QED
      BY <2>1, <2>2 DEF Addresses
  <1>19. ASSUME Environment PROVE SigInt \/ EditLogConfig \/ UNCHANGED <<procVars, logClientIP>>
    BY <1>19, Zenon DEF Environment, ClientConnects, TypeLine, CloseStdin, WriteCommandFile,
                        inputVars
  <1>20. UNCHANGED vars => UNCHANGED <<procVars, logClientIP>>
    BY DEF vars, inputVars
  <1> QED
    BY <1>1, <1>2, <1>3, <1>4, <1>5, <1>6, <1>7, <1>8, <1>9, <1>10, <1>11, <1>12, <1>13,
       <1>14, <1>15, <1>16, <1>17, <1>18, <1>19, <1>20
       DEF Next, ProcStep

\* accessLoggin.h:15: as long as the recording of addresses is not switched off
\* while the server runs, the address a handler writes to the access log is its
\* own client's, or none, although every timeout of select records garbage and
\* every fork copies the record.
THEOREM AddressIsOwn ==
    ASSUME LogFiles \subseteq {"yes", "no"}, LogEdits \subseteq {"yes"}
    PROVE  Spec => []NoForeignAddress
  <1>1. Init => Addresses
    <2> SUFFICES ASSUME Init PROVE Addresses
      OBVIOUS
    <2>1. \A p \in Proc : logIP[p] = "empty"
      BY Zenon DEF Init
    <2>2. logClientIP \in {"yes", "no"}
      BY DEF Init
    <2> QED
      BY <2>1, <2>2 DEF Addresses
  <1>2. TypeOK /\ Addresses /\ [Next]_vars => Addresses'
    BY AddressesStep
  <1>3. Addresses => NoForeignAddress
    BY DEF Addresses, NoForeignAddress, AnsweringAt
  <1> QED
    BY <1>1, <1>2, <1>3, TypeCorrect, PTL DEF Spec

=============================================================================
