-------------------------- MODULE ServerWithLogProofs --------------------------
(***************************************************************************)
(* ServerWithLog behaves as each of its parts, so that what is proved of   *)
(* the processes and of the semaphores holds of the server that logs; and  *)
(* signals are safe once every process catches them.                       *)
(***************************************************************************)
EXTENDS ServerWithLog, TLAPS

MP == INSTANCE ServerProcessesProofs
LP == INSTANCE LogLockProofs

-----------------------------------------------------------------------------
(* The modules of the proofs speak of the same specifications. *)

LEMMA MainAssumption == MP!ConstantsAssumption
  BY ConstantsAssumption
     DEF M!ConstantsAssumption, MP!ConstantsAssumption, M!FaultKinds, MP!FaultKinds,
         M!LogSettings, MP!LogSettings

LEMMA LockAssumption == LP!ConstantsAssumption
  BY ConstantsAssumption
     DEF L!ConstantsAssumption, LP!ConstantsAssumption, L!AllKinds, LP!AllKinds, L!IsFiniteSet, LP!IsFiniteSet

LEMMA SameLock == L!Spec <=> LP!Spec
  <1>1. L!Init <=> LP!Init
    BY DEF L!Init, LP!Init, L!Sem, LP!Sem
  <1>2. L!Next <=> LP!Next
    BY DEF L!Next, L!CallWriteLog, L!CallWriteInLogFile, L!Wait, L!Interrupted, L!Proceed, L!Kill,
           L!CallNested, L!Increment, L!WriteRecord, L!Decrement, L!Call, L!Move, L!Passes,
           L!Added, L!Reverted, L!Holds, L!Sem,
           LP!Next, LP!CallWriteLog, LP!CallWriteInLogFile, LP!Wait, LP!Interrupted, LP!Proceed,
           LP!Kill, LP!CallNested, LP!Increment, LP!WriteRecord, LP!Decrement, LP!Call, LP!Move,
           LP!Passes, LP!Added, LP!Reverted, LP!Holds, LP!Sem
  <1>3. [L!Next]_(L!vars) <=> [LP!Next]_(LP!vars)
    BY <1>2 DEF L!vars, LP!vars
  <1> QED
    BY <1>1, <1>3, PTL DEF L!Spec, LP!Spec

LEMMA SameMain == M!Spec <=> MP!Spec
  <1>1. M!Init <=> MP!Init
    BY DEF M!Init, MP!Init, M!CommandFile, MP!CommandFile
  <1>0. M!IsUseInLog = MP!IsUseInLog
    BY DEF M!IsUseInLog, MP!IsUseInLog
  <1>2. ASSUME NEW p \in Proc
        PROVE  (M!ProcStep(p) <=> MP!ProcStep(p)) /\ (M!EndInteraction(p) <=> MP!EndInteraction(p))
    BY <1>0 DEF M!ProcStep, MP!ProcStep,
           M!ConnectToSocket, M!SocketFails, M!CheckExit, M!AcceptTimeout, M!AcceptConnection,
           M!AcceptFails, M!ForkChild, M!ForkFails, M!CloseListener, M!CloseClient,
           M!InstallSignal, M!ReadCommandLine, M!NoMoreInput, M!EndOfInput, M!InputFails,
           M!ReadConfigCommand, M!StopServer, M!EndInteraction, M!Exit, M!Terminate,
           M!DropListener, M!Set, M!Goto, M!Inherit, M!RecordClientIP, M!CommandDone,
           M!inputVars, MP!ConnectToSocket, MP!SocketFails, MP!CheckExit, MP!AcceptTimeout,
           MP!AcceptConnection, MP!AcceptFails, MP!ForkChild, MP!ForkFails, MP!CloseListener,
           MP!CloseClient, MP!InstallSignal, MP!ReadCommandLine, MP!NoMoreInput, MP!EndOfInput,
           MP!InputFails, MP!ReadConfigCommand, MP!StopServer, MP!EndInteraction, MP!Exit,
           MP!Terminate, MP!DropListener, MP!Set, MP!Goto, MP!Inherit, MP!RecordClientIP,
           MP!CommandDone, MP!inputVars
  <1>3. M!Environment <=> MP!Environment
    BY DEF M!Environment, MP!Environment,
           M!ClientConnects, M!TypeLine, M!CloseStdin, M!WriteCommandFile, M!EditLogConfig,
           M!SigInt, M!Interrupt, M!Terminate, M!DropListener, M!Set, M!Live, M!BacklogHasRoom,
           M!procVars, M!inputVars, M!Line, M!CommandFile, MP!ClientConnects, MP!TypeLine,
           MP!CloseStdin, MP!WriteCommandFile, MP!EditLogConfig, MP!SigInt, MP!Interrupt,
           MP!Terminate, MP!DropListener, MP!Set, MP!Live, MP!BacklogHasRoom, MP!procVars,
           MP!inputVars, MP!Line, MP!CommandFile
  <1>4. M!Next <=> MP!Next
    BY <1>2, <1>3, Zenon DEF M!Next, MP!Next
  <1>5. [M!Next]_(M!vars) <=> [MP!Next]_(MP!vars)
    BY <1>4 DEF M!vars, MP!vars, M!procVars, MP!procVars, M!inputVars, MP!inputVars
  <1> QED
    BY <1>1, <1>5, PTL DEF M!Spec, MP!Spec

-----------------------------------------------------------------------------
(* Each step is a step of either part, or leaves it alone. *)

LEMMA MainPart == [Next]_vars => [M!Next]_(M!vars)
  <1> SUFFICES ASSUME [Next]_vars
               PROVE  [M!Next]_(M!vars)
    OBVIOUS
  <1>1. UNCHANGED mainVars => UNCHANGED M!vars
    BY DEF mainVars, M!vars, M!procVars, M!inputVars
  <1>2. ASSUME NEW p \in Proc, MainStep(p) \/ EndInteraction(p) PROVE M!Next
    BY <1>2 DEF MainStep, EndInteraction, M!Next
  <1>3. ASSUME NEW p \in Proc, StartLogCall(p) \/ ProceedInLog(p) \/ \E s \in L!Sem : WaitForLog(p, s)
        PROVE  UNCHANGED mainVars
    BY <1>3 DEF StartLogCall, ProceedInLog, WaitForLog
  <1>4. ASSUME NEW p \in Proc, SigInt(p) PROVE M!Next
    BY <1>4, ConstantsAssumption DEF SigInt, M!SigInt, M!Environment, M!Next
  <1>5. ASSUME Outside PROVE M!Next
    BY <1>5, ConstantsAssumption DEF Outside, M!Environment, M!Next
  <1>6. UNCHANGED vars => UNCHANGED mainVars
    BY DEF vars
  <1> QED
    BY <1>1, <1>2, <1>3, <1>4, <1>5, <1>6, Zenon DEF Next

LEMMA LockPart == [Next]_vars => [L!Next]_(L!vars)
  <1> SUFFICES ASSUME [Next]_vars
               PROVE  [L!Next]_(L!vars)
    OBVIOUS
  <1>1. UNCHANGED lockVars => UNCHANGED L!vars
    BY DEF lockVars, L!vars
  <1>2. ASSUME NEW p \in Proc, MainStep(p) \/ EndInteraction(p) PROVE UNCHANGED lockVars
    BY <1>2 DEF MainStep, EndInteraction
  <1>3. ASSUME NEW p \in Proc, StartLogCall(p) \/ ProceedInLog(p) \/ \E s \in L!Sem : WaitForLog(p, s)
        PROVE  L!Next
    BY <1>3 DEF StartLogCall, ProceedInLog, WaitForLog, L!Next
  <1>4. ASSUME NEW p \in Proc, SigInt(p) PROVE L!Next \/ UNCHANGED lockVars
    BY <1>4 DEF SigInt, InterruptKills, InterruptReturns, L!Next
  <1>5. ASSUME Outside PROVE UNCHANGED lockVars
    BY <1>5 DEF Outside
  <1>6. UNCHANGED vars => UNCHANGED lockVars
    BY DEF vars
  <1> QED
    BY <1>1, <1>2, <1>3, <1>4, <1>5, <1>6, Zenon DEF Next

\* Logging takes nothing from and adds nothing to what the processes do: their
\* specification holds of the server that logs.
THEOREM BehavesAsProcesses == Spec => M!Spec
  <1>1. Init => M!Init
    BY DEF Init
  <1> QED
    BY <1>1, MainPart, PTL DEF Spec, M!Spec

\* Under the processes of the server the logs follow their protocol, SIGINT included.
THEOREM BehavesAsLocks == Spec => L!Spec
  <1>1. Init => L!Init
    BY DEF Init
  <1> QED
    BY <1>1, LockPart, PTL DEF Spec, L!Spec

\* With what is proved of the parts.
THEOREM PartsCorrect == Spec => [](M!IndInv /\ L!TypeOK /\ L!SemCountsHolders)
  <1>1. M!Spec => []MP!IndInv
    BY MP!Inductive, MainAssumption, SameMain, PTL
  <1>2. L!Spec => [](LP!TypeOK /\ LP!SemCountsHolders)
    BY LP!TypeCorrect, LP!ValueIsHolders, LockAssumption, SameLock, PTL
  <1>3. LP!TypeOK => L!TypeOK
    BY DEF L!TypeOK, LP!TypeOK, L!Sem, LP!Sem, L!Place, LP!Place, L!AllKinds, LP!AllKinds
  <1>4. LP!SemCountsHolders => L!SemCountsHolders
    BY DEF L!SemCountsHolders, LP!SemCountsHolders, L!Sem, LP!Sem, L!Holders, LP!Holders,
           L!Holds, LP!Holds, L!Cardinality, LP!Cardinality
  <1>5. MP!IndInv => M!IndInv
    BY DEF M!IndInv, MP!IndInv, M!TypeOK, MP!TypeOK, M!LogSettings, MP!LogSettings, M!Place, MP!Place, M!AcceptorAt, MP!AcceptorAt,
           M!LoopAt, MP!LoopAt, M!HandlerAt, MP!HandlerAt, M!Line, MP!Line, M!CommandFile, MP!CommandFile,
           M!SingleAcceptor, MP!SingleAcceptor, M!Acceptors, MP!Acceptors,
           M!DescriptorsMatchPlace, MP!DescriptorsMatchPlace, M!HoldsListenerAt, MP!HoldsListenerAt,
           M!HoldsConnAt, MP!HoldsConnAt, M!ConnectionsInOnePlace, MP!ConnectionsInOnePlace,
           M!OneHandlerPerConnection, MP!OneHandlerPerConnection, M!StartsAlone, MP!StartsAlone
  <1> QED
    BY <1>1, <1>2, <1>3, <1>4, <1>5, BehavesAsProcesses, BehavesAsLocks, PTL

-----------------------------------------------------------------------------
(* A process in the select of the accept loop is in no log call, so that   *)
(* the death there of one that catches SIGINT leaves no semaphore taken.   *)

QuietInSelect == \A p \in Proc : pc[p] = "select" => ~Logging(p)

Typed == M!TypeOK /\ L!TypeOK

\* A step of a call moves one process, alive, and none other.
LEMMA OneMoves ==
    ASSUME Typed, NEW p \in Proc,
           \/ L!CallWriteLog(p) \/ L!CallWriteInLogFile(p) \/ L!Proceed(p)
           \/ \E s \in L!Sem : L!Wait(p, s) \/ L!Interrupted(p, s)
    PROVE  /\ p \notin dead /\ dead' = dead
           /\ \A q \in Proc : q # p => at'[q] = at[q] /\ kind'[q] = kind[q]
  <1>1. ASSUME NEW s \in L!Sem, NEW from, NEW to, L!Move(p, s, from, to),
               kind' = kind \/ \E k : kind' = [kind EXCEPT ![p][s] = k]
        PROVE  p \notin dead /\ \A q \in Proc : q # p => at'[q] = at[q] /\ kind'[q] = kind[q]
    BY <1>1 DEF L!Move, Typed, L!TypeOK
  <1>2. ASSUME NEW s \in L!Sem, L!Call(p, s)
        PROVE  /\ p \notin dead /\ dead' = dead
               /\ \A q \in Proc : q # p => at'[q] = at[q] /\ kind'[q] = kind[q]
    BY <1>1, <1>2 DEF L!Call
  <1>3. ASSUME NEW s \in L!Sem, L!Wait(p, s) \/ L!Interrupted(p, s)
        PROVE  /\ p \notin dead /\ dead' = dead
               /\ \A q \in Proc : q # p => at'[q] = at[q] /\ kind'[q] = kind[q]
    BY <1>1, <1>3 DEF L!Wait, L!Interrupted
  <1>4. ASSUME NEW s \in L!Sem, L!Increment(p, s) \/ L!WriteRecord(p, s) \/ L!Decrement(p, s)
        PROVE  /\ p \notin dead /\ dead' = dead
               /\ \A q \in Proc : q # p => at'[q] = at[q] /\ kind'[q] = kind[q]
    BY <1>1, <1>4 DEF L!Increment, L!WriteRecord, L!Decrement
  <1>5. "debug" \in L!Sem /\ "w3c" \in L!Sem
    BY DEF L!Sem
  <1> QED
    BY <1>2, <1>3, <1>4, <1>5 DEF L!CallWriteLog, L!CallWriteInLogFile, L!Proceed, L!CallNested

\* A step of main brings no other process into select.
LEMMA OthersStay ==
    ASSUME M!TypeOK, NEW p \in Proc, NEW r \in Proc, p # r, M!ProcStep(r), pc'[p] = "select"
    PROVE  pc[p] = "select"
  <1>1. ASSUME NEW place, M!Goto(r, place) PROVE pc'[p] = pc[p]
    BY <1>1 DEF M!Goto, M!TypeOK
  <1>2. ASSUME M!Exit(r) PROVE pc'[p] = pc[p]
    BY <1>2 DEF M!Exit, M!Terminate, M!Set
  <1>3. ASSUME NEW q \in Proc, M!ForkChild(r, q) PROVE pc[p] = "select"
    BY <1>3 DEF M!ForkChild, M!TypeOK
  <1>4. ASSUME M!ReadCommandLine(r) PROVE pc' = pc
    BY <1>4 DEF M!ReadCommandLine
  <1>5. ASSUME \/ M!SocketFails(r) \/ M!AcceptFails(r) \/ M!ForkFails(r) \/ M!StopServer(r)
        PROVE  pc'[p] = pc[p]
    BY <1>2, <1>5 DEF M!SocketFails, M!AcceptFails, M!ForkFails, M!StopServer
  <1>6. ASSUME \/ M!ConnectToSocket(r) \/ M!CheckExit(r) \/ M!AcceptTimeout(r) \/ M!AcceptConnection(r)
               \/ M!CloseListener(r) \/ M!CloseClient(r) \/ M!InstallSignal(r) \/ M!ReadConfigCommand(r)
        PROVE  pc'[p] = pc[p]
    BY <1>1, <1>6, Zenon
       DEF M!ConnectToSocket, M!CheckExit, M!AcceptTimeout, M!AcceptConnection, M!CloseListener,
           M!CloseClient, M!InstallSignal, M!ReadConfigCommand
  <1>7. ASSUME M!NoMoreInput(r) \/ M!EndOfInput(r) \/ M!InputFails(r) PROVE pc'[p] = pc[p]
    BY <1>1, <1>7, Zenon DEF M!NoMoreInput, M!EndOfInput, M!InputFails, M!CommandDone
  <1> QED
    BY <1>3, <1>4, <1>5, <1>6, <1>7 DEF M!ProcStep

\* The acceptor comes to select by its own step only, and from outside every log call.
LEMMA QuietStep ==
    ASSUME Typed, QuietInSelect, [Next]_vars
    PROVE  QuietInSelect'
  <1> SUFFICES ASSUME NEW p \in Proc, pc'[p] = "select"
               PROVE  ~Logging(p)'
    BY DEF QuietInSelect
  <1>1. ASSUME pc[p] = "select", at'[p] = at[p] PROVE ~Logging(p)'
    BY <1>1 DEF QuietInSelect, Logging, L!Sem
  <1>2. ASSUME NEW r \in Proc, MainStep(r) PROVE ~Logging(p)'
    <2>1. at' = at /\ ~Logging(r) /\ M!ProcStep(r)
      BY <1>2 DEF MainStep, lockVars
    <2>2. CASE p = r
      BY <2>1, <2>2 DEF Logging, L!Sem
    <2>3. CASE p # r
      <3>1. pc[p] = "select"
        BY <2>1, <2>3, OthersStay DEF Typed
      <3> QED
        BY <1>1, <2>1, <3>1
    <2> QED
      BY <2>2, <2>3
  <1>3. ASSUME NEW r \in Proc, EndInteraction(r) PROVE ~Logging(p)'
    BY <1>1, <1>3 DEF EndInteraction, lockVars, M!EndInteraction, M!Exit, M!Terminate, M!Set
  <1>4. ASSUME NEW r \in Proc, StartLogCall(r) PROVE ~Logging(p)'
    <2>1. pc' = pc /\ pc[r] # "select"
      BY <1>4, ConstantsAssumption DEF StartLogCall, mainVars
    <2> QED
      BY <1>1, <1>4, <2>1, OneMoves DEF StartLogCall
  <1>5. ASSUME NEW r \in Proc, ProceedInLog(r) PROVE ~Logging(p)'
    <2>1. pc' = pc /\ L!Proceed(r)
      BY <1>5 DEF ProceedInLog, mainVars
    <2>2. Logging(r)
      BY <2>1 DEF Logging, L!Proceed, L!CallNested, L!Increment, L!WriteRecord, L!Decrement, L!Move, L!Sem
    <2> QED
      BY <1>1, <2>1, <2>2, OneMoves DEF QuietInSelect
  <1>6. ASSUME NEW r \in Proc, NEW s \in L!Sem, WaitForLog(r, s) PROVE ~Logging(p)'
    <2>1. pc' = pc /\ L!Wait(r, s)
      BY <1>6 DEF WaitForLog, mainVars
    <2>2. Logging(r)
      BY <2>1 DEF Logging, L!Wait, L!Move
    <2> QED
      BY <1>1, <2>1, <2>2, OneMoves DEF QuietInSelect
  <1>7. ASSUME NEW r \in Proc, SigInt(r) PROVE ~Logging(p)'
    <2>1. pc[p] = "select"
      BY <1>7 DEF SigInt, M!Interrupt, M!Terminate, M!Set
    <2>2. CASE InterruptKills(r)
      <3>1. p # r
        BY <2>2 DEF InterruptKills
      <3>2. at'[p] = at[p]
        BY <2>2, <3>1 DEF InterruptKills, lockVars, L!Kill, Typed, L!TypeOK
      <3> QED
        BY <1>1, <2>1, <3>2
    <2>3. CASE InterruptReturns(r)
      <3>1. CASE UNCHANGED lockVars
        BY <1>1, <2>1, <3>1 DEF lockVars
      <3>2. CASE \E s \in L!Sem : L!Interrupted(r, s)
        <4>1. Logging(r)
          BY <3>2 DEF Logging, L!Interrupted, L!Move
        <4> QED
          BY <1>1, <2>1, <3>2, <4>1, OneMoves DEF QuietInSelect
      <3> QED
        BY <2>3, <3>1, <3>2 DEF InterruptReturns
    <2> QED
      BY <1>7, <2>2, <2>3 DEF SigInt
  <1>8. ASSUME Outside PROVE ~Logging(p)'
    BY <1>1, <1>8 DEF Outside, lockVars, M!ClientConnects, M!WriteCommandFile, M!procVars
  <1>9. ASSUME UNCHANGED vars PROVE ~Logging(p)'
    BY <1>1, <1>9 DEF vars, mainVars, lockVars
  <1> QED
    BY <1>2, <1>3, <1>4, <1>5, <1>6, <1>7, <1>8, <1>9 DEF Next

\* The action property for one step.
LEMMA SafeStep ==
    ASSUME Typed, QuietInSelect, [Next]_vars, NoOrphan, \A p \in M!Live : caught[p]
    PROVE  NoOrphan'
  <1>1. ASSUME dead' = dead, \A q \in dead : at'[q] = at[q] /\ kind'[q] = kind[q]
        PROVE  NoOrphan'
    BY <1>1 DEF NoOrphan, L!Orphaned, L!Holds, L!Sem
  <1>2. dead \subseteq Proc
    BY DEF Typed, L!TypeOK
  <1>3. ASSUME UNCHANGED lockVars PROVE NoOrphan'
    BY <1>1, <1>3 DEF lockVars
  <1>4. ASSUME NEW p \in Proc,
               \/ L!CallWriteLog(p) \/ L!CallWriteInLogFile(p) \/ L!Proceed(p)
               \/ \E s \in L!Sem : L!Wait(p, s) \/ L!Interrupted(p, s)
        PROVE  NoOrphan'
    BY <1>1, <1>2, <1>4, OneMoves
  <1>5. ASSUME NEW p \in Proc, SigInt(p) PROVE NoOrphan'
    <2>1. CASE InterruptKills(p)
      <3>1. p \in M!Live /\ M!Interrupt({p}) /\ pc'[p] = "free"
        BY <1>5, <2>1 DEF SigInt, InterruptKills
      <3>2. pc[p] # "free" /\ caught[p]
        BY <3>1 DEF M!Live
      <3>3. PICK inSelect \in SUBSET {q \in {p} : pc[q] = "select"} :
                pc' = M!Set(pc, {q \in {p} : ~caught[q]} \cup inSelect, "free")
        BY <3>1 DEF M!Interrupt, M!Terminate
      <3>4. pc[p] = "select"
        BY <3>1, <3>2, <3>3 DEF M!Set
      <3>5. UNCHANGED lockVars
        BY <2>1, <3>4 DEF InterruptKills, QuietInSelect
      <3> QED
        BY <1>3, <3>5
    <2>2. CASE InterruptReturns(p)
      BY <1>3, <1>4, <2>2 DEF InterruptReturns
    <2> QED
      BY <1>5, <2>1, <2>2 DEF SigInt
  <1>6. ASSUME NEW p \in Proc, MainStep(p) \/ EndInteraction(p) PROVE NoOrphan'
    BY <1>3, <1>6 DEF MainStep, EndInteraction
  <1>7. ASSUME NEW p \in Proc, StartLogCall(p) PROVE NoOrphan'
    BY <1>4, <1>7 DEF StartLogCall
  <1>8. ASSUME NEW p \in Proc, ProceedInLog(p) PROVE NoOrphan'
    BY <1>4, <1>8 DEF ProceedInLog
  <1>9. ASSUME NEW p \in Proc, NEW s \in L!Sem, WaitForLog(p, s) PROVE NoOrphan'
    BY <1>4, <1>9 DEF WaitForLog
  <1>10. ASSUME Outside \/ UNCHANGED vars PROVE NoOrphan'
    BY <1>3, <1>10 DEF Outside, vars
  <1> QED
    BY <1>5, <1>6, <1>7, <1>8, <1>9, <1>10, Zenon DEF Next

\* sig_handler only sets a flag: once every process has installed it, no signal, at any
\* point of any log call, makes a semaphore stay taken.
THEOREM SignalsSafe == Spec => SignalsAreSafeOnceCaught
  <1>1. Init => QuietInSelect
    BY DEF Init, M!Init, QuietInSelect
  <1>2. M!IndInv /\ L!TypeOK => Typed
    BY DEF M!IndInv, Typed
  <1>3. Typed /\ QuietInSelect /\ [Next]_vars => QuietInSelect'
    BY QuietStep
  <1>4. Typed /\ QuietInSelect /\ [Next]_vars
          => [NoOrphan /\ (\A p \in M!Live : caught[p]) => NoOrphan']_vars
    BY SafeStep
  <1> QED
    BY <1>1, <1>2, <1>3, <1>4, PartsCorrect, PTL DEF Spec, SignalsAreSafeOnceCaught

================================================================================
