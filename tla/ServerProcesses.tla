--------------------------- MODULE ServerProcesses ---------------------------
(***************************************************************************)
(* The processes of the server: main (Server.c) with the functions it      *)
(* drives, connectToSocket, acceptWithLogger (workWithSockets.c),          *)
(* doesServerHaveToWorkCommand, doesServerHaveToWorkConfig, checkExit and  *)
(* sig_handler (auxiliaryFunction.c).                                      *)
(*                                                                         *)
(* main accepts one connection and forks.  It is the PARENT that closes    *)
(* the listening socket S, serves the connection C and returns; the CHILD  *)
(* closes C and goes on with the accept loop.  The role of acceptor so     *)
(* travels from process to process, together with everything that fork     *)
(* copies: descriptors, the exit flag, the SIGINT disposition and the      *)
(* address left in the access-log record.                                  *)
(*                                                                         *)
(* What clientServerInteraction does with C is module Connection.          *)
(***************************************************************************)
EXTENDS Naturals, Sequences, FiniteSets, Functions

CONSTANTS Proc,        \* slots of the process table
          Conn,        \* TCP connections that clients may open
          NoConn,      \* "no descriptor C"
          MaxConnect,  \* backlog given to listen(): config "Max number of connect:"
          MaxLines,    \* bound: lines the operator types on the terminal
          Faults,      \* system calls that may fail
          Interrupts,  \* what SIGINT may reach at a time: the "group" or "one" process
          LogFiles,    \* what accessLoggin.txt may say when the server starts
          LogEdits     \* what may be written to it while the server runs

LogSettings == {"yes", "no", "missing"}
    \* "Client IP address: Y", the same with any other value, or no such line.

FaultKinds == {"socket", "accept", "fork", "stdin"}

ASSUME ConstantsAssumption ==
    /\ NoConn \notin Conn
    /\ {"empty", "garbage"} \cap Conn = {}
    /\ MaxConnect \in Nat
    /\ MaxLines \in Nat
    /\ Faults \subseteq FaultKinds
    /\ Interrupts \subseteq {"group", "one"}
    /\ LogFiles \subseteq LogSettings
    /\ LogEdits \subseteq LogSettings

VARIABLES pc,          \* where each process is in main
          exitCycle,   \* the static exitCycle of auxiliaryFunction.c, per process
          caught,      \* has the process installed sig_handler?
          listening,   \* the processes that hold S open
          cfd,         \* the connection behind descriptor C, per process
          logIP,       \* W3CLog.ClientIPAddress, as the connection it came from
          buffer,      \* what doesServerHaveToWorkCommand has in its buffer
          queue,       \* completed connections not yet accepted
          arrived,     \* connections opened so far
          typed,       \* terminal lines not yet read
          nTyped,      \* how many lines were typed so far
          eof,         \* the terminal was closed
          command,     \* contents of the file "command"
          logClientIP  \* what accessLoggin.txt says of the client's address

procVars == <<pc, exitCycle, caught, listening, cfd, logIP, buffer>>
inputVars == <<typed, nTyped, eof, command, logClientIP>>
vars == <<procVars, queue, arrived, inputVars>>

-----------------------------------------------------------------------------
(* Positions in main. *)

\* The body of the loop "while(checkExit())", in the order of the code.
LoopAt == {"check", "select", "fork", "release", "signal", "stdin", "config"}

\* A process at one of these runs the accept loop, is about to, or leaves it.
AcceptorAt == LoopAt \cup {"boot", "stop"}

\* Between fork's return in the parent and the end of clientServerInteraction.
HandlerAt == {"handoff", "serving"}

\* The points of the loop at which C is open.
HoldsConnAt == {"fork", "release"} \cup HandlerAt

\* The points at which S is open.
HoldsListenerAt == LoopAt \cup {"stop", "handoff"}

Place == {"free"} \cup AcceptorAt \cup HandlerAt

Line == {"out", "other"}
CommandFile == {"exit", "other", "absent"}

Live == {p \in Proc : pc[p] # "free"}
Acceptors == {p \in Proc : pc[p] \in AcceptorAt}
NoAcceptor == Acceptors = {}

TypeOK ==
    /\ pc \in [Proc -> Place]
    /\ exitCycle \in [Proc -> BOOLEAN]
    /\ caught \in [Proc -> BOOLEAN]
    /\ listening \subseteq Proc
    /\ cfd \in [Proc -> Conn \cup {NoConn}]
    /\ logIP \in [Proc -> Conn \cup {"empty", "garbage"}]
    /\ buffer \in [Proc -> Line \cup {""}]
    /\ queue \in Seq(Conn)
    /\ Len(queue) <= MaxConnect + 1
    /\ arrived \subseteq Conn
    /\ typed \in Seq(Line)
    /\ Len(typed) <= nTyped
    /\ nTyped \in 0 .. MaxLines
    /\ eof \in BOOLEAN
    /\ command \in CommandFile
    /\ logClientIP \in LogSettings

\* One process, about to run main (initW3CLog leaves the address empty).
Init ==
    /\ \E first \in Proc : pc = [p \in Proc |-> IF p = first THEN "boot" ELSE "free"]
    /\ exitCycle = [p \in Proc |-> TRUE]
    /\ caught = [p \in Proc |-> FALSE]
    /\ listening = {}
    /\ cfd = [p \in Proc |-> NoConn]
    /\ logIP = [p \in Proc |-> "empty"]
    /\ buffer = [p \in Proc |-> ""]
    /\ queue = <<>>
    /\ arrived = {}
    /\ typed = <<>>
    /\ nTyped = 0
    /\ eof = FALSE
    /\ command \in CommandFile
    /\ logClientIP \in LogFiles

-----------------------------------------------------------------------------
(* What the kernel does for the processes. *)

\* f with the value v for the processes of S.
Set(f, S, v) == [p \in Proc |-> IF p \in S THEN v ELSE f[p]]

\* S leaves the hands of the processes of P; the connections nobody accepted
\* are reset when the last holder has closed it.
DropListener(P) ==
    /\ listening' = listening \ P
    /\ queue' = IF listening' = {} THEN <<>> ELSE queue

\* The processes of P end: their descriptors are closed, their slots free.
Terminate(P) ==
    /\ pc' = Set(pc, P, "free")
    /\ caught' = Set(caught, P, FALSE)
    /\ cfd' = Set(cfd, P, NoConn)
    /\ logIP' = Set(logIP, P, "empty")
    /\ buffer' = Set(buffer, P, "")
    /\ DropListener(P)

Exit(p) ==
    /\ Terminate({p})
    /\ exitCycle' = [exitCycle EXCEPT ![p] = TRUE]
    /\ UNCHANGED <<arrived, inputVars>>

Goto(p, place) == pc' = [pc EXCEPT ![p] = place]

-----------------------------------------------------------------------------
(* connectToSocket, and main up to the loop. *)

ConnectToSocket(p) ==
    /\ pc[p] = "boot"
    /\ Goto(p, "check")
    /\ listening' = listening \cup {p}
    /\ UNCHANGED <<exitCycle, caught, cfd, logIP, buffer, queue, arrived, inputVars>>

\* setsockopt, bind or listen fails: exit(1).
SocketFails(p) ==
    /\ pc[p] = "boot"
    /\ "socket" \in Faults
    /\ Exit(p)

-----------------------------------------------------------------------------
(* The accept loop. *)

\* while(checkExit())
CheckExit(p) ==
    /\ pc[p] = "check"
    /\ Goto(p, IF exitCycle[p] THEN "select" ELSE "stop")
    /\ UNCHANGED <<exitCycle, caught, listening, cfd, logIP, buffer, queue, arrived, inputVars>>

\* isUseInLog reads accessLoggin.txt again on every call.  Without the line it tests a byte
\* that nobody wrote, so the answer may change from call to call.
IsUseInLog ==
    CASE logClientIP = "yes"     -> {TRUE}
      [] logClientIP = "no"      -> {FALSE}
      [] logClientIP = "missing" -> BOOLEAN

\* Mutant: an address already recorded is kept.
RecordClientIP_once(p, from) ==
    \E yes \in IsUseInLog :
        logIP' = IF yes /\ logIP[p] = "empty" THEN [logIP EXCEPT ![p] = from] ELSE logIP

\* acceptWithLogger stores the peer address whatever select and accept said.
RecordClientIP(p, from) ==
    \E yes \in IsUseInLog : logIP' = IF yes THEN [logIP EXCEPT ![p] = from] ELSE logIP

\* select sees nothing for TIME_WAIT_ACCEPT seconds.  socketClient was never
\* written, so the address recorded is whatever the stack holds.
AcceptTimeout(p) ==
    /\ pc[p] = "select"
    /\ queue = <<>>
    /\ RecordClientIP(p, "garbage")
    /\ Goto(p, "signal")
    /\ UNCHANGED <<exitCycle, caught, listening, cfd, buffer, queue, arrived, inputVars>>

AcceptConnection(p) ==
    /\ pc[p] = "select"
    /\ queue # <<>>
    /\ cfd' = [cfd EXCEPT ![p] = Head(queue)]
    /\ queue' = Tail(queue)
    /\ RecordClientIP(p, Head(queue))
    /\ Goto(p, "fork")
    /\ UNCHANGED <<exitCycle, caught, listening, buffer, arrived, inputVars>>

\* select or accept returns -1: main calls exit(1).
AcceptFails(p) ==
    /\ pc[p] = "select"
    /\ "accept" \in Faults
    /\ Exit(p)

\* What fork copies from the process p to the new process q.
Inherit(p, q) ==
    /\ listening' = listening \cup {q}
    /\ cfd' = [cfd EXCEPT ![q] = cfd[p]]
    /\ caught' = [caught EXCEPT ![q] = caught[p]]
    /\ exitCycle' = [exitCycle EXCEPT ![q] = exitCycle[p]]
    /\ logIP' = [logIP EXCEPT ![q] = logIP[p]]

\* The parent (pid # 0) goes to close(S); the child to close(C).
ForkChild(p, q) ==
    /\ pc[p] = "fork"
    /\ pc[q] = "free"
    /\ pc' = [pc EXCEPT ![p] = "handoff", ![q] = "release"]
    /\ Inherit(p, q)
    /\ UNCHANGED <<buffer, queue, arrived, inputVars>>

\* Mutant: a failed fork is only logged.
ForkFails_ignored(p) ==
    /\ pc[p] = "fork"
    /\ "fork" \in Faults \/ \A q \in Proc : pc[q] # "free"
    /\ Goto(p, "signal")
    /\ UNCHANGED <<exitCycle, caught, listening, cfd, logIP, buffer, queue, arrived, inputVars>>

\* pid < 0, for any reason or because the process table is full: exit(1).
ForkFails(p) ==
    /\ pc[p] = "fork"
    /\ "fork" \in Faults \/ \A q \in Proc : pc[q] # "free"
    /\ Exit(p)

\* Mutant: the parent keeps S.
CloseListener_forgotten(p) ==
    /\ pc[p] = "handoff"
    /\ Goto(p, "serving")
    /\ UNCHANGED <<exitCycle, caught, listening, cfd, logIP, buffer, queue, arrived, inputVars>>

\* The parent: close(deskriptionS), then clientServerInteraction.
CloseListener(p) ==
    /\ pc[p] = "handoff"
    /\ Goto(p, "serving")
    /\ DropListener({p})
    /\ UNCHANGED <<exitCycle, caught, cfd, logIP, buffer, arrived, inputVars>>

\* Mutant: no return after clientServerInteraction.
EndInteraction_fallsThrough(p) ==
    /\ pc[p] = "serving"
    /\ Goto(p, "signal")
    /\ cfd' = [cfd EXCEPT ![p] = NoConn]
    /\ UNCHANGED <<exitCycle, caught, listening, logIP, buffer, queue, arrived, inputVars>>

\* clientServerInteraction returns, or the process dies in it; either way
\* main does not come back to the loop.
EndInteraction(p) ==
    /\ pc[p] = "serving"
    /\ Exit(p)

\* Mutants: the child keeps C; the child closes S instead.
CloseClient_forgotten(p) ==
    /\ pc[p] = "release"
    /\ Goto(p, "signal")
    /\ UNCHANGED <<exitCycle, caught, listening, cfd, logIP, buffer, queue, arrived, inputVars>>

CloseClient_wrongDescriptor(p) ==
    /\ pc[p] = "release"
    /\ Goto(p, "signal")
    /\ DropListener({p})
    /\ UNCHANGED <<exitCycle, caught, cfd, logIP, buffer, arrived, inputVars>>

\* The child: close(deskriptionC).
CloseClient(p) ==
    /\ pc[p] = "release"
    /\ Goto(p, "signal")
    /\ cfd' = [cfd EXCEPT ![p] = NoConn]
    /\ UNCHANGED <<exitCycle, caught, listening, logIP, buffer, queue, arrived, inputVars>>

\* Mutant: exitCycle is set whenever the handler is installed.
InstallSignal_rearms(p) ==
    /\ pc[p] = "signal"
    /\ caught' = [caught EXCEPT ![p] = TRUE]
    /\ exitCycle' = [exitCycle EXCEPT ![p] = TRUE]
    /\ Goto(p, "stdin")
    /\ UNCHANGED <<listening, cfd, logIP, buffer, queue, arrived, inputVars>>

\* signal(SIGINT, sig_handler), which the loop reaches only after its first
\* accept; then the call of doesServerHaveToWorkCommand.
InstallSignal(p) ==
    /\ pc[p] = "signal"
    /\ caught' = [caught EXCEPT ![p] = TRUE]
    /\ Goto(p, "stdin")
    /\ UNCHANGED <<exitCycle, listening, cfd, logIP, buffer, queue, arrived, inputVars>>

\* One read of doesServerHaveToWorkCommand.  It returns the first k lines
\* waiting (one from a terminal, several from a pipe) and overwrites the
\* buffer; only a buffer that is exactly "out\n" will count.
ReadCommandLine(p) ==
    /\ pc[p] = "stdin"
    /\ \E k \in 1 .. Len(typed) :
          /\ buffer' = [buffer EXCEPT ![p] = IF k = 1 THEN Head(typed) ELSE "other"]
          /\ typed' = SubSeq(typed, k + 1, Len(typed))
    /\ UNCHANGED <<pc, exitCycle, caught, listening, cfd, logIP, queue, arrived,
                   nTyped, eof, command, logClientIP>>

\* Mutant: "out" is compared without its newline and never matches.
CommandDone_neverMatches(p, b) ==
    /\ Goto(p, "config")
    /\ buffer' = [buffer EXCEPT ![p] = ""]
    /\ UNCHANGED <<exitCycle, caught, listening, cfd, logIP, queue, arrived, inputVars>>

\* The end of doesServerHaveToWorkCommand with the text b in its buffer.
CommandDone(p, b) ==
    /\ Goto(p, IF b = "out" THEN "stop" ELSE "config")
    /\ buffer' = [buffer EXCEPT ![p] = ""]
    /\ UNCHANGED <<exitCycle, caught, listening, cfd, logIP, queue, arrived, inputVars>>

\* select finds nothing to read on the terminal.
NoMoreInput(p) ==
    /\ pc[p] = "stdin"
    /\ typed = <<>>
    /\ ~eof
    /\ CommandDone(p, buffer[p])

\* At the end of the input read returns 0, and buf[0] = 0 empties the buffer.
EndOfInput(p) ==
    /\ pc[p] = "stdin"
    /\ typed = <<>>
    /\ eof
    /\ CommandDone(p, "")

\* select or read returns -1: result is ERROR_RUN, which is not > 0.
InputFails(p) ==
    /\ pc[p] = "stdin"
    /\ "stdin" \in Faults
    /\ CommandDone(p, "")

\* Mutant: memcmp's result without the negation.
ReadConfigCommand_inverted(p) ==
    /\ pc[p] = "config"
    /\ Goto(p, IF command = "other" THEN "stop" ELSE "check")
    /\ UNCHANGED <<exitCycle, caught, listening, cfd, logIP, buffer, queue, arrived, inputVars>>

\* doesServerHaveToWorkConfig; an absent file is ERROR_RUN, which is not > 0.
ReadConfigCommand(p) ==
    /\ pc[p] = "config"
    /\ Goto(p, IF command = "exit" THEN "stop" ELSE "check")
    /\ UNCHANGED <<exitCycle, caught, listening, cfd, logIP, buffer, queue, arrived, inputVars>>

\* After the loop pid is 0 in every process that gets here: close(S), return.
StopServer(p) ==
    /\ pc[p] = "stop"
    /\ Exit(p)

-----------------------------------------------------------------------------
(* The clients, the operator and the kernel. *)

\* Mutant: the limit is read and not handed to listen.
BacklogHasRoom_unlimited == TRUE

\* listen(deskription, maxConnect): Linux completes connections while the backlog is
\* not exceeded.
BacklogHasRoom == Len(queue) <= MaxConnect

ClientConnects(c) ==
    /\ c \notin arrived
    /\ listening # {}
    /\ BacklogHasRoom
    /\ arrived' = arrived \cup {c}
    /\ queue' = Append(queue, c)
    /\ UNCHANGED <<procVars, inputVars>>

TypeLine(line) ==
    /\ nTyped < MaxLines
    /\ ~eof
    /\ nTyped' = nTyped + 1
    /\ typed' = Append(typed, line)
    /\ UNCHANGED <<procVars, queue, arrived, eof, command, logClientIP>>

CloseStdin ==
    /\ ~eof
    /\ eof' = TRUE
    /\ UNCHANGED <<procVars, queue, arrived, typed, nTyped, command, logClientIP>>

WriteCommandFile(text) ==
    /\ command # text
    /\ command' = text
    /\ UNCHANGED <<procVars, queue, arrived, typed, nTyped, eof, logClientIP>>

EditLogConfig ==
    /\ \E text \in LogEdits : logClientIP # text /\ logClientIP' = text
    /\ UNCHANGED <<procVars, queue, arrived, typed, nTyped, eof, command>>

\* Mutant: the handler calls exit.
Interrupt_exits(S) ==
    /\ Terminate(S)
    /\ exitCycle' = [p \in Proc |-> p \in S \/ exitCycle[p]]
    /\ UNCHANGED <<arrived, inputVars>>

\* SIGINT reaches the processes of S.  Without sig_handler a process dies.  In
\* acceptWithLogger's select a caught signal is EINTR, hence ERROR_RUN and exit(1).
\* Anywhere else it clears exitCycle, also between checkExit and that select.
Interrupt(S) ==
    \E inSelect \in SUBSET {p \in S : pc[p] = "select"} :
        LET victims == {p \in S : ~caught[p]} \cup inSelect
        IN  /\ Terminate(victims)
            /\ exitCycle' = [p \in Proc |-> p \in victims \/ (p \notin S /\ exitCycle[p])]
            /\ UNCHANGED <<arrived, inputVars>>

\* Ctrl-C reaches every process of the terminal's process group, kill(1) one.
SigInt ==
    \/ "group" \in Interrupts /\ Live # {} /\ Interrupt(Live)
    \/ "one" \in Interrupts /\ \E p \in Live : Interrupt({p})

-----------------------------------------------------------------------------

\* The steps a running process takes by itself, whatever its client does.
ProcStep(p) ==
    \/ ConnectToSocket(p) \/ SocketFails(p)
    \/ CheckExit(p)
    \/ AcceptTimeout(p) \/ AcceptConnection(p) \/ AcceptFails(p)
    \/ \E q \in Proc : ForkChild(p, q)
    \/ ForkFails(p)
    \/ CloseListener(p)
    \/ CloseClient(p)
    \/ InstallSignal(p)
    \/ ReadCommandLine(p) \/ NoMoreInput(p) \/ EndOfInput(p) \/ InputFails(p)
    \/ ReadConfigCommand(p)
    \/ StopServer(p)

Environment ==
    \/ \E c \in Conn : ClientConnects(c)
    \/ \E line \in Line : TypeLine(line)
    \/ CloseStdin
    \/ \E text \in CommandFile : WriteCommandFile(text)
    \/ EditLogConfig
    \/ SigInt

Next ==
    \/ \E p \in Proc : ProcStep(p) \/ EndInteraction(p)
    \/ Environment

\* The scheduler runs every process; nobody has to connect, to type, to let
\* an interaction end, to send a signal or to edit a file.
Fairness == \A p \in Proc : WF_vars(ProcStep(p))

Spec == Init /\ [][Next]_vars

FairSpec == Spec /\ Fairness

-----------------------------------------------------------------------------
(* Safety. *)

\* At most one process runs the accept loop: the role of acceptor is handed
\* over by fork, never duplicated (main, pid # 0 against pid = 0).
SingleAcceptor == \A p, q \in Acceptors : p = q

\* S is open in two processes only while a parent is between fork and
\* close(deskriptionS), and never in a process that serves a client: a long
\* interaction keeps neither the port nor the backlog alive once the acceptor
\* is gone.
SoleListener ==
    /\ \A p, q \in listening : p # q => "handoff" \in {pc[p], pc[q]}
    /\ \A p \in listening : pc[p] # "serving"

\* Descriptor C: each connection has at most one process that will answer it.
\* The only sharing is with a new acceptor that has not yet closed its copy.
OneHandlerPerConnection ==
    \A p, q \in Proc :
        p # q /\ cfd[p] = cfd[q] /\ cfd[p] # NoConn => "release" \in {pc[p], pc[q]}

\* No acceptor goes back to the loop with a client's descriptor open (it
\* would keep the client waiting for the end of the response for ever), and
\* no connection still in the backlog is also in a process.
NoStrayDescriptor ==
    \A p \in Proc :
        /\ cfd[p] # NoConn <=> pc[p] \in HoldsConnAt
        /\ cfd[p] \notin Range(queue)

\* accessLoggin.h:15, ClientIPAddress is "The IP address of the client that
\* made the request": the process that serves a client has recorded that
\* client's address, or none; never one left by an earlier accept or select.
\* Switching the recording off while the server runs does leave one, and so does
\* a file without the line; this is stated of files that have the line, in which
\* the recording can only be switched on.
NoForeignAddress ==
    \A p \in Proc : pc[p] = "serving" => logIP[p] \in {"empty", cfd[p]}

-----------------------------------------------------------------------------
(* The inductive invariant behind the safety properties. *)

\* Which descriptors are open follows from the position in main.
DescriptorsMatchPlace ==
    \A p \in Proc :
        /\ p \in listening <=> pc[p] \in HoldsListenerAt
        /\ cfd[p] # NoConn <=> pc[p] \in HoldsConnAt

\* A connection waits at one place of the backlog, or is in the processes,
\* and it has arrived.
ConnectionsInOnePlace ==
    /\ \A i, j \in 1 .. Len(queue) : queue[i] = queue[j] => i = j
    /\ \A i \in 1 .. Len(queue) : queue[i] \in arrived
    /\ \A p \in Proc : cfd[p] \in arrived \cup {NoConn}
    /\ \A p \in Proc, i \in 1 .. Len(queue) : cfd[p] # queue[i]

\* The process that opens S is alone until it has, and nobody waits at a closed port.
StartsAlone ==
    /\ \A p, q \in Proc : pc[p] = "boot" /\ p # q => pc[q] = "free"
    /\ listening = {} => queue = <<>>

IndInv ==
    /\ TypeOK
    /\ SingleAcceptor
    /\ DescriptorsMatchPlace
    /\ ConnectionsInOnePlace
    /\ OneHandlerPerConnection
    /\ StartsAlone

-----------------------------------------------------------------------------
(* The promise to the clients. *)

\* What the states of the processes are to the clients.
Phase ==
    IF listening # {} THEN (IF NoAcceptor THEN "closing" ELSE "open")
    ELSE IF NoAcceptor THEN "closed" ELSE "starting"

\* A connection in the acceptor's hands, not yet handed over by fork, still waits.
Accepted == {cfd[p] : p \in {q \in Proc : pc[q] = "fork"}}

Waiting == IF Accepted = {} THEN queue ELSE <<CHOOSE c \in Accepted : TRUE>> \o queue

Serving == {cfd[p] : p \in {q \in Proc : pc[q] \in HandlerAt}}

Listener == INSTANCE ListenerService WITH phase <- Phase, waiting <- Waiting, serving <- Serving

\* Over all hand-overs of the accept loop, failing calls and signals: connections are
\* taken in the order of their arrival, each once; a server that goes on loses none
\* that waits; and one that has stopped does not start again.
ServesInOrder == Listener!Spec

-----------------------------------------------------------------------------
(* Liveness, under FairSpec. *)

Served(c) == \E p \in Proc : pc[p] \in HandlerAt /\ cfd[p] = c

\* A connection in the backlog gets a process of its own, or the server stops.
QueuedIsServed ==
    \A c \in Conn : c \in Range(queue) ~> Served(c) \/ NoAcceptor

\* sig_handler, "stop server when need": once the acceptor's flag is cleared
\* the accept loop ends, even when the flag was cleared just before a fork
\* moved the loop to another process.
InterruptStops ==
    (\E p \in Acceptors : ~exitCycle[p]) ~> NoAcceptor

\* doesServerHaveToWorkConfig, "stop server when need": a command file that
\* says exit, and keeps saying so, stops the server.
ExitFileStops ==
    <>[](command = "exit") => <>NoAcceptor

\* After the server has stopped the port is released, although parents may
\* still have to close their copy of S; no running response keeps it.
StopFreesPort == NoAcceptor ~> listening = {}

\* doesServerHaveToWorkCommand, "stop server when need": a line "out" on the
\* terminal stops the server.
OutStops ==
    (\E i \in DOMAIN typed : typed[i] = "out") ~> NoAcceptor

\* It does when it is the only line and the terminal stays open.
LoneOutStops == ([]~eof) => OutStops

=============================================================================
