----------------------------- MODULE ServerWithLog -----------------------------
(***************************************************************************)
(* The processes of ServerProcesses together with the semaphores they log  *)
(* under, LogLock.  Almost every step of main and of its callees calls     *)
(* WRITE_LOG, and clientServerInteraction ends each response with          *)
(* writeInLogFile, so a process that waits for a semaphore does not come   *)
(* to its next step, and a SIGINT may find it inside a section.            *)
(*                                                                         *)
(* A Ctrl-C reaches the processes of the group one by one: each handles it *)
(* when it runs next.  The text of the records stays left out.             *)
(***************************************************************************)
EXTENDS Naturals, FiniteSets

CONSTANTS Proc, Conn, NoConn, MaxConnect, MaxLines, Faults, Interrupts, LogFiles, LogEdits,  \* ServerProcesses
          Kinds, NestedCalls, Signals, Kills,                                                \* LogLock
          CommandFiles,  \* what the operator may write to the file "command"
          HandlerCalls,  \* what a serving process calls: "writeLog", "writeInLogFile"
          LoopLogsAt     \* before which steps of the loop main logs

VARIABLES pc, exitCycle, caught, listening, cfd, logIP, buffer, queue, arrived,
          typed, nTyped, eof, command, logClientIP,                                \* ServerProcesses
          at, kind, left, semval, dead,                                            \* LogLock
          called  \* bound: the acceptors that have logged since their last step

M == INSTANCE ServerProcesses
L == INSTANCE LogLock

\* A signal is delivered to one process at a time.
ASSUME ConstantsAssumption ==
    /\ M!ConstantsAssumption
    /\ L!ConstantsAssumption
    /\ "one" \in Interrupts
    /\ CommandFiles \subseteq M!CommandFile
    /\ HandlerCalls \subseteq {"writeLog", "writeInLogFile"}
    /\ LoopLogsAt \subseteq
          {"boot", "check", "fork", "handoff", "release", "signal", "stdin", "config", "stop"}

mainVars == <<pc, exitCycle, caught, listening, cfd, logIP, buffer, queue, arrived,
              typed, nTyped, eof, command, logClientIP>>
lockVars == <<at, kind, left, semval, dead>>
vars == <<mainVars, lockVars, called>>

Init == M!Init /\ L!Init /\ called = {} /\ command \in CommandFiles

Logging(p) == \E s \in L!Sem : at[p][s] # "idle"

-----------------------------------------------------------------------------
(* The steps of main and the calls between them. *)

\* The kernel does not give the number of a process that died to a new one.
NotReborn == \A q \in dead : pc'[q] = "free"

\* A step of main waits for the log calls before it to return.
MainStep(p) ==
    /\ ~Logging(p)
    /\ M!ProcStep(p)
    /\ NotReborn
    /\ called' = called \ {p}
    /\ UNCHANGED lockVars

\* clientServerInteraction returns after its last log call.
EndInteraction(p) ==
    /\ ~Logging(p)
    /\ M!EndInteraction(p)
    /\ called' = called \ {p}
    /\ UNCHANGED lockVars

\* A handler logs as often as its client makes it; the loop once between two steps, and
\* not inside select (the call at the start of acceptWithLogger is taken before checkExit).
StartLogCall(p) ==
    /\ p \in M!Live
    /\ \/ /\ pc[p] = "serving"
          /\ \E function \in HandlerCalls :
                IF function = "writeLog" THEN L!CallWriteLog(p) ELSE L!CallWriteInLogFile(p)
          /\ UNCHANGED called
       \/ /\ pc[p] \in LoopLogsAt /\ p \notin called
          /\ L!CallWriteLog(p)
          /\ called' = called \cup {p}
    /\ UNCHANGED mainVars

ProceedInLog(p) == L!Proceed(p) /\ UNCHANGED <<mainVars, called>>

WaitForLog(p, s) == L!Wait(p, s) /\ UNCHANGED <<mainVars, called>>

-----------------------------------------------------------------------------
(* SIGINT and the rest of the world. *)

\* Death takes a process from the middle of its log call.
InterruptKills(p) ==
    /\ pc'[p] = "free"
    /\ IF Logging(p) THEN L!Kill(p) ELSE UNCHANGED lockVars
    /\ called' = called \ {p}

\* sig_handler returns; a semop that was blocked returns EINTR, one not yet reached does not.
InterruptReturns(p) ==
    /\ pc'[p] # "free"
    /\ UNCHANGED lockVars \/ \E s \in L!Sem : L!Interrupted(p, s)
    /\ UNCHANGED called

SigInt(p) ==
    /\ p \in M!Live
    /\ M!Interrupt({p})
    /\ InterruptKills(p) \/ InterruptReturns(p)

Outside ==
    /\ \/ \E c \in Conn : M!ClientConnects(c)
       \/ \E text \in CommandFiles : M!WriteCommandFile(text)
    /\ UNCHANGED <<lockVars, called>>

-----------------------------------------------------------------------------

Next ==
    \/ \E p \in Proc :
          \/ MainStep(p) \/ EndInteraction(p)
          \/ StartLogCall(p) \/ ProceedInLog(p)
          \/ \E s \in L!Sem : WaitForLog(p, s)
          \/ SigInt(p)
    \/ Outside

\* The fairness of the two parts: a running process runs, a process waiting for zero is
\* woken each time the semaphore reaches it.  Nobody has to start a log call.
Fairness ==
    \A p \in Proc :
        /\ WF_vars(MainStep(p))
        /\ WF_vars(ProceedInLog(p))
        /\ \A s \in L!Sem : SF_vars(WaitForLog(p, s))

Spec == Init /\ [][Next]_vars

FairSpec == Spec /\ Fairness

-----------------------------------------------------------------------------
(* Properties. *)

\* No semaphore is held by a dead process.
NoOrphan == \A s \in L!Sem : ~L!Orphaned(s)

\* sig_handler only sets a flag: from the moment when every process has installed it, no
\* signal at any point of a log call leaves a semaphore taken for ever.
SignalsAreSafeOnceCaught ==
    [][NoOrphan /\ (\A p \in M!Live : caught[p]) => NoOrphan']_vars

\* A signal ends a wait for the semaphore (EINTR) before its value was zero.
WaitCut == \E p \in Proc, s \in L!Sem : L!Interrupted(p, s)

Undisturbed == []NoOrphan /\ <>[][~WaitCut]_vars

\* Every call of writeLog and writeInLogFile returns, the nested ones included, however
\* often others log and however their sections overlap.  Except when a process died inside
\* a section, or when signals cut waits short again and again: two handlers that wait no
\* more can take turns to keep the value above zero, and then nothing wakes a third process.
CallsReturn == Undisturbed => \A p \in Proc : Logging(p) ~> ~Logging(p) \/ p \in dead

\* So the log delays the accept loop and never stops it: connections are served, and a flag
\* that SIGINT has cleared and the file "command" stop the server.
GoesOnDespiteLog == Undisturbed => M!QueuedIsServed /\ M!InterruptStops /\ M!ExitFileStops

===============================================================================
