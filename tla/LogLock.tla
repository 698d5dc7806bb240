------------------------------- MODULE LogLock -------------------------------
(***************************************************************************)
(* The two semaphores that all processes of the server share: semId of     *)
(* writeLog (debugLogging.c) and semIdW3C of writeInLogFile                *)
(* (accessLoggin.c).  Both functions follow one protocol,                  *)
(*                                                                         *)
(*     wait until semval = 0;  semval + 1;  open, print, close;  semval - 1*)
(*                                                                         *)
(* in which the wait and the increment are two system calls, and           *)
(* writeInLogFile calls writeLog while it is inside (isUseInLog reads the  *)
(* configuration with getValueForKeyString, which logs).                   *)
(*                                                                         *)
(* struct sembuf is a local variable of which only sem_op is set.  Its     *)
(* sem_num and sem_flg are whatever the stack holds at that call, so each  *)
(* call works with a kind of its own:                                      *)
(*     "plain"   both are zero                                             *)
(*     "nowait"  sem_flg has IPC_NOWAIT: a wait never blocks               *)
(*     "undo"    sem_flg has SEM_UNDO: the kernel reverts at exit          *)
(*     "both"    both bits                                                 *)
(*     "bad"     sem_num names no semaphore: each semop fails (EFBIG)      *)
(* The results of semop are ignored, so a failed one is simply passed.     *)
(*                                                                         *)
(* The text of the record is left out: it is written by the one write() of *)
(* fclose on a descriptor opened for appending.                            *)
(***************************************************************************)
EXTENDS Integers, FiniteSets

CONSTANTS Proc,         \* the processes of the server
          Kinds,        \* kinds of sembuf that the build can produce
          NestedCalls,  \* writeLog calls made inside one writeInLogFile
          Signals,      \* may a caught signal interrupt a blocked semop (EINTR)?
          Kills         \* may a process die in the middle of a call?

AllKinds == {"plain", "nowait", "undo", "both", "bad"}

ASSUME ConstantsAssumption ==
    /\ IsFiniteSet(Proc)
    /\ Kinds \subseteq AllKinds
    /\ NestedCalls \in Nat
    /\ Signals \in BOOLEAN
    /\ Kills \in BOOLEAN

VARIABLES at,      \* where each process is in its call for each semaphore
          kind,    \* the sembuf of that call
          left,    \* nested writeLog calls its writeInLogFile has still to make
          semval,  \* the values of the semaphores
          dead     \* processes that died

vars == <<at, kind, left, semval, dead>>

Sem == {"debug", "w3c"}
Place == {"idle", "wait", "inc", "inside", "dec"}

\* p has incremented semaphore s and not yet decremented it.
Holds(p, s) == at[p][s] \in {"inside", "dec"} /\ kind[p][s] # "bad"
Holders(s) == {p \in Proc : Holds(p, s)}

TypeOK ==
    /\ at \in [Proc -> [Sem -> Place]]
    /\ kind \in [Proc -> [Sem -> AllKinds]]
    /\ left \in [Proc -> 0 .. NestedCalls]
    /\ semval \in [Sem -> Nat]
    /\ dead \subseteq Proc

\* startDebug and initW3CLog: semget gives semaphores whose value is zero.
Init ==
    /\ at = [p \in Proc |-> [s \in Sem |-> "idle"]]
    /\ kind = [p \in Proc |-> [s \in Sem |-> "plain"]]
    /\ left = [p \in Proc |-> 0]
    /\ semval = [s \in Sem |-> 0]
    /\ dead = {}

-----------------------------------------------------------------------------
(* The calls. *)

Move(p, s, from, to) ==
    /\ p \notin dead
    /\ at[p][s] = from
    /\ at' = [at EXCEPT ![p][s] = to]

\* Enter the function; its sembuf is what the stack holds.
Call(p, s) ==
    /\ Move(p, s, "idle", "wait")
    /\ \E k \in Kinds : kind' = [kind EXCEPT ![p][s] = k]
    /\ UNCHANGED <<semval, dead>>

\* WRITE_LOG anywhere outside writeInLogFile's section.
CallWriteLog(p) ==
    /\ at[p]["w3c"] = "idle"
    /\ Call(p, "debug")
    /\ UNCHANGED left

CallWriteInLogFile(p) ==
    /\ at[p]["debug"] = "idle"
    /\ Call(p, "w3c")
    /\ left' = [left EXCEPT ![p] = NestedCalls]

\* isUseInLog inside the section of writeInLogFile.
CallNested(p) ==
    /\ at[p]["w3c"] = "inside"
    /\ left[p] > 0
    /\ Call(p, "debug")
    /\ left' = [left EXCEPT ![p] = @ - 1]

\* semop with sem_op = 0.
Passes(p, s) == semval[s] = 0 \/ kind[p][s] \in {"nowait", "both", "bad"}

Wait(p, s) ==
    /\ Passes(p, s)
    /\ Move(p, s, "wait", "inc")
    /\ UNCHANGED <<kind, left, semval, dead>>

\* A caught signal ends the wait with EINTR; the code goes on regardless.
Interrupted(p, s) ==
    /\ Signals
    /\ ~Passes(p, s)
    /\ Move(p, s, "wait", "inc")
    /\ UNCHANGED <<kind, left, semval, dead>>

\* What semop does to the value with sem_op = d: nothing if it fails.
Added(p, s, d) ==
    IF kind[p][s] = "bad" THEN semval ELSE [semval EXCEPT ![s] = @ + d]

\* semop with sem_op = 1.
Increment(p, s) ==
    /\ Move(p, s, "inc", "inside")
    /\ semval' = Added(p, s, 1)
    /\ UNCHANGED <<kind, left, dead>>

\* fopen, fprintf and fclose, after every nested call.
WriteRecord(p, s) ==
    /\ s = "w3c" => left[p] = 0 /\ at[p]["debug"] = "idle"
    /\ Move(p, s, "inside", "dec")
    /\ UNCHANGED <<kind, left, semval, dead>>

\* Mutants: sem_op = -2; the second semop is missing.
Decrement_byTwo(p, s) ==
    /\ semval[s] > 0 \/ kind[p][s] = "bad"
    /\ Move(p, s, "dec", "idle")
    /\ semval' = Added(p, s, -2)
    /\ kind' = [kind EXCEPT ![p][s] = "plain"]
    /\ UNCHANGED <<left, dead>>

Decrement_forgotten(p, s) ==
    /\ Move(p, s, "dec", "idle")
    /\ kind' = [kind EXCEPT ![p][s] = "plain"]
    /\ UNCHANGED <<left, semval, dead>>

\* semop with sem_op = -1: it would block while the value is zero.  The sembuf
\* is gone when the function returns.
Decrement(p, s) ==
    /\ semval[s] > 0 \/ kind[p][s] = "bad"
    /\ Move(p, s, "dec", "idle")
    /\ semval' = Added(p, s, -1)
    /\ kind' = [kind EXCEPT ![p][s] = "plain"]
    /\ UNCHANGED <<left, dead>>

\* The process dies: SIGINT before main installed sig_handler, or a null FILE
\* after fopen failed.  The kernel reverts what was done with SEM_UNDO.
Reverted(p, s) == Holds(p, s) /\ kind[p][s] \in {"undo", "both"}

Kill(p) ==
    /\ Kills
    /\ p \notin dead
    /\ dead' = dead \cup {p}
    /\ semval' = [s \in Sem |-> IF Reverted(p, s) THEN semval[s] - 1 ELSE semval[s]]
    /\ at' = [at EXCEPT ![p] = [s \in Sem |-> IF Reverted(p, s) THEN "idle" ELSE at[p][s]]]
    /\ UNCHANGED <<kind, left>>

-----------------------------------------------------------------------------

\* The steps of a call that has begun, the wait apart.
Proceed(p) ==
    \/ CallNested(p)
    \/ \E s \in Sem : Increment(p, s) \/ WriteRecord(p, s) \/ Decrement(p, s)

Next ==
    \E p \in Proc :
        \/ CallWriteLog(p)
        \/ CallWriteInLogFile(p)
        \/ \E s \in Sem : Wait(p, s) \/ Interrupted(p, s)
        \/ Proceed(p)
        \/ Kill(p)

Spec == Init /\ [][Next]_vars

-----------------------------------------------------------------------------
(* Properties. *)

\* The value of each semaphore is the number of processes that incremented it
\* and have not decremented it, the dead included: no increment is lost and
\* none is given back twice, whatever the sembufs hold and whoever dies.
SemCountsHolders == \A s \in Sem : semval[s] = Cardinality(Holders(s))

\* semop with sem_op = -1 never blocks: leaving the section needs nobody else.
DecrementNeverBlocks ==
    \A p \in Proc, s \in Sem :
        at[p][s] = "dec" /\ kind[p][s] # "bad" => semval[s] > 0

\* A process that died inside and was not reverted.
Orphaned(s) == \E p \in dead : Holds(p, s)

\* debugLogging.c:26-28 and accessLoggin.c:62-64, "waits for semval == 0" and
\* "increment semval by 1": one process at a time is between increment and
\* decrement.
MutualExclusion == \A s \in Sem : \A p, q \in Holders(s) : p = q

=============================================================================
