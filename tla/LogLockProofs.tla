---------------------------- MODULE LogLockProofs ----------------------------
(***************************************************************************)
(* Proof about LogLock, for any finite number of processes, any mixture of *)
(* sembufs, any number of nested calls, with signals and deaths.           *)
(***************************************************************************)
EXTENDS LogLock, FiniteSetTheorems, TLAPS

\* The type invariant is not inductive alone: that a decrement or a reverted
\* death leaves a natural number follows from the count.
IndInv == TypeOK /\ SemCountsHolders

LEMMA HoldersFinite ==
    ASSUME NEW s
    PROVE  IsFiniteSet(Holders(s)) /\ Cardinality(Holders(s)) \in Nat
  <1>1. Holders(s) \subseteq Proc
    BY DEF Holders
  <1> QED
    BY <1>1, FS_Subset, FS_CardinalityType, ConstantsAssumption

\* A holder makes the value positive.
LEMMA HeldIsPositive ==
    ASSUME IndInv, NEW p \in Proc, NEW s \in Sem, Holds(p, s)
    PROVE  semval[s] \in Nat \ {0}
  <1>1. p \in Holders(s)
    BY DEF Holders
  <1>2. Holders(s) # {}
    BY <1>1
  <1>3. Cardinality(Holders(s)) # 0
    BY <1>2, HoldersFinite, FS_EmptySet
  <1> QED
    BY <1>3, HoldersFinite DEF IndInv, SemCountsHolders

\* Where everybody is after p moved.
LEMMA Moved ==
    ASSUME TypeOK, NEW p \in Proc, NEW s \in Sem, NEW from, NEW to, Move(p, s, from, to)
    PROVE  /\ at[p][s] = from
           /\ \A q \in Proc, t \in Sem : at'[q][t] = IF q = p /\ t = s THEN to ELSE at[q][t]
           /\ to \in Place => at' \in [Proc -> [Sem -> Place]]
  BY DEF Move, TypeOK

\* The count is kept by a step that changes neither the holders nor the value,
LEMMA SameCount ==
    ASSUME SemCountsHolders, NEW s \in Sem, semval'[s] = semval[s],
           \A q \in Proc : Holds(q, s)' <=> Holds(q, s)
    PROVE  semval'[s] = Cardinality(Holders(s)')
  <1>1. Holders(s)' = Holders(s)
    BY DEF Holders
  <1> QED
    BY <1>1 DEF SemCountsHolders

\* by one that adds a holder and one to the value,
LEMMA OneMore ==
    ASSUME SemCountsHolders, NEW s \in Sem, NEW p \in Proc, ~Holds(p, s), Holds(p, s)',
           semval'[s] = semval[s] + 1, \A q \in Proc \ {p} : Holds(q, s)' <=> Holds(q, s)
    PROVE  semval'[s] = Cardinality(Holders(s)')
  <1>1. Holders(s)' = Holders(s) \cup {p} /\ p \notin Holders(s)
    BY DEF Holders
  <1> QED
    BY <1>1, HoldersFinite, FS_AddElement DEF SemCountsHolders

\* and by one that removes a holder and one from the value.
LEMMA OneLess ==
    ASSUME SemCountsHolders, NEW s \in Sem, NEW p \in Proc, Holds(p, s), ~Holds(p, s)',
           semval'[s] = semval[s] - 1, \A q \in Proc \ {p} : Holds(q, s)' <=> Holds(q, s)
    PROVE  semval'[s] = Cardinality(Holders(s)')
  <1>1. Holders(s)' = Holders(s) \ {p} /\ p \in Holders(s)
    BY DEF Holders
  <1> QED
    BY <1>1, HoldersFinite, FS_RemoveElement DEF SemCountsHolders

-----------------------------------------------------------------------------

\* Entering a call holds nothing yet.
LEMMA CallStep ==
    ASSUME IndInv, NEW p \in Proc, NEW s \in Sem, Call(p, s), left' \in [Proc -> 0 .. NestedCalls]
    PROVE  IndInv'
  <1>1. PICK k \in Kinds : kind' = [kind EXCEPT ![p][s] = k]
    BY DEF Call
  <1>2. /\ at[p][s] = "idle"
        /\ \A q \in Proc, t \in Sem : at'[q][t] = IF q = p /\ t = s THEN "wait" ELSE at[q][t]
        /\ at' \in [Proc -> [Sem -> Place]]
    BY Moved DEF Call, IndInv, Place
  <1>3. /\ \A q \in Proc, t \in Sem : kind'[q][t] = IF q = p /\ t = s THEN k ELSE kind[q][t]
        /\ kind' \in [Proc -> [Sem -> AllKinds]]
    BY <1>1, ConstantsAssumption DEF IndInv, TypeOK
  <1>4. TypeOK'
    BY <1>2, <1>3 DEF Call, IndInv, TypeOK
  <1>5. \A t \in Sem, q \in Proc : Holds(q, t)' <=> Holds(q, t)
    BY <1>2, <1>3 DEF Holds
  <1>6. \A t \in Sem : semval'[t] = semval[t]
    BY DEF Call
  <1> QED
    BY <1>4, <1>5, <1>6, SameCount DEF IndInv, SemCountsHolders

\* A move that neither enters nor leaves the section.
LEMMA QuietStep ==
    ASSUME IndInv, NEW p \in Proc, NEW s \in Sem, NEW from \in Place, NEW to \in Place,
           from \in {"inside", "dec"} <=> to \in {"inside", "dec"},
           Move(p, s, from, to), UNCHANGED <<kind, left, semval, dead>>
    PROVE  IndInv'
  <1>1. /\ at[p][s] = from
        /\ \A q \in Proc, t \in Sem : at'[q][t] = IF q = p /\ t = s THEN to ELSE at[q][t]
        /\ at' \in [Proc -> [Sem -> Place]]
    BY Moved DEF IndInv
  <1>2. TypeOK'
    BY <1>1 DEF IndInv, TypeOK
  <1>3. \A t \in Sem, q \in Proc : Holds(q, t)' <=> Holds(q, t)
    BY <1>1 DEF Holds
  <1> QED
    BY <1>2, <1>3, SameCount DEF IndInv, SemCountsHolders

LEMMA IncrementStep ==
    ASSUME IndInv, NEW p \in Proc, NEW s \in Sem, Increment(p, s)
    PROVE  IndInv'
  <1>1. /\ at[p][s] = "inc"
        /\ \A q \in Proc, t \in Sem : at'[q][t] = IF q = p /\ t = s THEN "inside" ELSE at[q][t]
        /\ at' \in [Proc -> [Sem -> Place]]
    BY Moved DEF Increment, IndInv, Place
  <1>2. /\ \A t \in Sem : semval'[t] = IF t = s /\ kind[p][s] # "bad" THEN semval[t] + 1 ELSE semval[t]
        /\ semval' \in [Sem -> Nat]
    BY DEF Increment, Added, IndInv, TypeOK
  <1>3. UNCHANGED <<kind, left, dead>>
    BY DEF Increment
  <1>4. TypeOK'
    BY <1>1, <1>2, <1>3 DEF IndInv, TypeOK
  <1>5. \A t \in Sem, q \in Proc : t # s \/ q # p => (Holds(q, t)' <=> Holds(q, t))
    BY <1>1, <1>3 DEF Holds
  <1>6. ~Holds(p, s) /\ (Holds(p, s)' <=> kind[p][s] # "bad")
    BY <1>1, <1>3 DEF Holds
  <1>7. \A t \in Sem : semval'[t] = Cardinality(Holders(t)')
    <2> SUFFICES ASSUME NEW t \in Sem PROVE semval'[t] = Cardinality(Holders(t)')
      OBVIOUS
    <2>1. CASE t = s /\ kind[p][s] # "bad"
      BY <1>2, <1>5, <1>6, <2>1, OneMore DEF IndInv
    <2>2. CASE ~(t = s /\ kind[p][s] # "bad")
      <3>1. semval'[t] = semval[t]
        BY <1>2, <2>2
      <3>2. \A q \in Proc : Holds(q, t)' <=> Holds(q, t)
        BY <1>5, <1>6, <2>2
      <3> QED
        BY <3>1, <3>2, SameCount DEF IndInv
    <2> QED
      BY <2>1, <2>2
  <1> QED
    BY <1>4, <1>7 DEF IndInv, SemCountsHolders

LEMMA DecrementStep ==
    ASSUME IndInv, NEW p \in Proc, NEW s \in Sem, Decrement(p, s)
    PROVE  IndInv'
  <1>1. /\ at[p][s] = "dec"
        /\ \A q \in Proc, t \in Sem : at'[q][t] = IF q = p /\ t = s THEN "idle" ELSE at[q][t]
        /\ at' \in [Proc -> [Sem -> Place]]
    BY Moved DEF Decrement, IndInv, Place
  <1>2. \A t \in Sem : semval'[t] = IF t = s /\ kind[p][s] # "bad" THEN semval[t] - 1 ELSE semval[t]
    BY DEF Decrement, Added, IndInv, TypeOK
  <1>3. /\ \A q \in Proc, t \in Sem : kind'[q][t] = IF q = p /\ t = s THEN "plain" ELSE kind[q][t]
        /\ kind' \in [Proc -> [Sem -> AllKinds]]
    BY DEF Decrement, IndInv, TypeOK, AllKinds
  <1>4. semval' \in [Sem -> Nat]
    <2>1. kind[p][s] # "bad" => semval[s] \in Nat \ {0}
      BY <1>1, HeldIsPositive DEF Holds
    <2>2. CASE kind[p][s] = "bad"
      BY <2>2 DEF Decrement, Added, IndInv, TypeOK
    <2>3. CASE kind[p][s] # "bad"
      <3>1. semval' = [semval EXCEPT ![s] = semval[s] + (-1)]
        BY <2>3 DEF Decrement, Added
      <3>2. semval[s] + (-1) \in Nat
        BY <2>1, <2>3
      <3> QED
        BY <3>1, <3>2 DEF IndInv, TypeOK
    <2> QED
      BY <2>2, <2>3
  <1>5. TypeOK'
    BY <1>1, <1>3, <1>4 DEF Decrement, IndInv, TypeOK
  <1>6. \A t \in Sem, q \in Proc : t # s \/ q # p => (Holds(q, t)' <=> Holds(q, t))
    BY <1>1, <1>3 DEF Holds
  <1>7. ~Holds(p, s)' /\ (Holds(p, s) <=> kind[p][s] # "bad")
    BY <1>1 DEF Holds
  <1>8. \A t \in Sem : semval'[t] = Cardinality(Holders(t)')
    <2> SUFFICES ASSUME NEW t \in Sem PROVE semval'[t] = Cardinality(Holders(t)')
      OBVIOUS
    <2>1. CASE t = s /\ kind[p][s] # "bad"
      BY <1>2, <1>6, <1>7, <2>1, OneLess DEF IndInv
    <2>2. CASE ~(t = s /\ kind[p][s] # "bad")
      <3>1. semval'[t] = semval[t]
        BY <1>2, <2>2
      <3>2. \A q \in Proc : Holds(q, t)' <=> Holds(q, t)
        BY <1>6, <1>7, <2>2
      <3> QED
        BY <3>1, <3>2, SameCount DEF IndInv
    <2> QED
      BY <2>1, <2>2
  <1> QED
    BY <1>5, <1>8 DEF IndInv, SemCountsHolders

\* A death gives back exactly what the kernel had noted; the rest stays held.
LEMMA KillStep ==
    ASSUME IndInv, NEW p \in Proc, Kill(p)
    PROVE  IndInv'
  <1>1. \A t \in Sem : semval'[t] = IF Reverted(p, t) THEN semval[t] - 1 ELSE semval[t]
    BY DEF Kill
  <1>2. /\ at' \in [Proc -> [Sem -> Place]]
        /\ \A q \in Proc, t \in Sem : at'[q][t] = IF q = p /\ Reverted(p, t) THEN "idle" ELSE at[q][t]
    BY DEF Kill, IndInv, TypeOK, Place
  <1>3. UNCHANGED <<kind, left>>
    BY DEF Kill
  <1>4. semval' \in [Sem -> Nat]
    <2>1. \A t \in Sem : Reverted(p, t) => semval[t] \in Nat \ {0}
      BY HeldIsPositive DEF Reverted
    <2>2. semval' = [t \in Sem |-> IF Reverted(p, t) THEN semval[t] - 1 ELSE semval[t]]
      BY DEF Kill
    <2>3. \A t \in Sem : (IF Reverted(p, t) THEN semval[t] - 1 ELSE semval[t]) \in Nat
      BY <2>1 DEF IndInv, TypeOK
    <2> QED
      BY <2>2, <2>3
  <1>5. dead' \subseteq Proc
    BY DEF Kill, IndInv, TypeOK
  <1>6. TypeOK'
    BY <1>2, <1>3, <1>4, <1>5 DEF IndInv, TypeOK
  <1>7. \A t \in Sem : semval'[t] = Cardinality(Holders(t)')
    <2> SUFFICES ASSUME NEW t \in Sem PROVE semval'[t] = Cardinality(Holders(t)')
      OBVIOUS
    <2>1. \A q \in Proc \ {p} : Holds(q, t)' <=> Holds(q, t)
      BY <1>2, <1>3 DEF Holds
    <2>2. CASE Reverted(p, t)
      <3>1. Holds(p, t) /\ ~Holds(p, t)'
        BY <1>2, <2>2 DEF Holds, Reverted
      <3> QED
        BY <1>1, <2>1, <2>2, <3>1, OneLess DEF IndInv
    <2>3. CASE ~Reverted(p, t)
      <3>1. Holds(p, t)' <=> Holds(p, t)
        BY <1>2, <1>3, <2>3 DEF Holds
      <3>2. \A q \in Proc : Holds(q, t)' <=> Holds(q, t)
        BY <2>1, <3>1
      <3> QED
        BY <1>1, <2>3, <3>2, SameCount DEF IndInv
    <2> QED
      BY <2>2, <2>3
  <1> QED
    BY <1>6, <1>7 DEF IndInv, SemCountsHolders

\* Every step keeps the invariant.
LEMMA IndStep ==
    ASSUME IndInv, [Next]_vars
    PROVE  IndInv'
  <1>1. ASSUME NEW p \in Proc, CallWriteLog(p) PROVE IndInv'
    BY <1>1, CallStep DEF CallWriteLog, IndInv, TypeOK, Sem
  <1>2. ASSUME NEW p \in Proc, CallWriteInLogFile(p) PROVE IndInv'
    <2>1. left' \in [Proc -> 0 .. NestedCalls]
      BY <1>2, ConstantsAssumption DEF CallWriteInLogFile, IndInv, TypeOK
    <2> QED
      BY <1>2, <2>1, CallStep DEF CallWriteInLogFile, Sem
  <1>3. ASSUME NEW p \in Proc, NEW s \in Sem, Wait(p, s) PROVE IndInv'
    BY <1>3, QuietStep DEF Wait, Place
  <1>4. ASSUME NEW p \in Proc, NEW s \in Sem, Interrupted(p, s) PROVE IndInv'
    BY <1>4, QuietStep DEF Interrupted, Place
  <1>5. ASSUME NEW p \in Proc, CallNested(p) PROVE IndInv'
    <2>1. left' \in [Proc -> 0 .. NestedCalls]
      BY <1>5, ConstantsAssumption DEF CallNested, IndInv, TypeOK
    <2> QED
      BY <1>5, <2>1, CallStep DEF CallNested, Sem
  <1>6. ASSUME NEW p \in Proc, NEW s \in Sem, Increment(p, s) PROVE IndInv'
    BY <1>6, IncrementStep
  <1>7. ASSUME NEW p \in Proc, NEW s \in Sem, WriteRecord(p, s) PROVE IndInv'
    BY <1>7, QuietStep DEF WriteRecord, Place
  <1>8. ASSUME NEW p \in Proc, NEW s \in Sem, Decrement(p, s) PROVE IndInv'
    BY <1>8, DecrementStep
  <1>9. ASSUME NEW p \in Proc, Kill(p) PROVE IndInv'
    BY <1>9, KillStep
  <1>10. CASE UNCHANGED vars
    BY <1>10 DEF vars, IndInv, TypeOK, SemCountsHolders, Holders, Holds
  <1> QED
    BY <1>1, <1>2, <1>3, <1>4, <1>5, <1>6, <1>7, <1>8, <1>9, <1>10 DEF Next, Proceed

LEMMA IndInit == Init => IndInv
  <1> SUFFICES ASSUME Init PROVE IndInv
    OBVIOUS
  <1>1. TypeOK
    BY ConstantsAssumption DEF Init, TypeOK, Place, AllKinds
  <1>2. \A s \in Sem : Holders(s) = {}
    BY DEF Init, Holders, Holds
  <1>3. \A s \in Sem : semval[s] = 0
    BY DEF Init
  <1> QED
    BY <1>1, <1>2, <1>3, FS_EmptySet DEF IndInv, SemCountsHolders

\* The inductive invariant.
THEOREM Inductive == Spec => []IndInv
  BY IndInit, IndStep, PTL DEF Spec

\* Type correctness; in particular no semaphore is ever driven below zero.
THEOREM TypeCorrect == Spec => []TypeOK
  <1>1. IndInv => TypeOK
    BY DEF IndInv
  <1> QED
    BY <1>1, Inductive, PTL

\* writeLog and writeInLogFile give back exactly what they took: the value of
\* a semaphore is the number of processes between its two semops.
THEOREM ValueIsHolders == Spec => []SemCountsHolders
  <1>1. IndInv => SemCountsHolders
    BY DEF IndInv
  <1> QED
    BY <1>1, Inductive, PTL

\* The semop that leaves the section never blocks, so a process inside depends
\* on no other process to get out.
THEOREM LeavingNeverBlocks == Spec => []DecrementNeverBlocks
  <1>1. IndInv => DecrementNeverBlocks
    BY HeldIsPositive DEF DecrementNeverBlocks, Holds
  <1> QED
    BY <1>1, Inductive, PTL

=============================================================================
