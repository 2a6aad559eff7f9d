--------------------------- MODULE SemaphoreProofs ---------------------------
(***************************************************************************)
(* Proofs about Semaphore for any threads and any bounds.                  *)
(***************************************************************************)
EXTENDS Semaphore, FiniteSetTheorems, TLAPS

\* The count stays within its bound and a thread has an argument exactly while
\* it is in wait (Semaphore::notify, Semaphore::wait).
THEOREM SemaphoreTyping == Spec => []TypeOK
<1>1. Init => TypeOK
  BY SemaphoreAssumption DEF Init, TypeOK
<1>2. TypeOK /\ [Next]_vars => TypeOK'
  <2> SUFFICES ASSUME TypeOK, [Next]_vars PROVE TypeOK'
    OBVIOUS
  <2> USE SemaphoreAssumption DEF TypeOK
  <2>1. ASSUME NEW t \in Threads, NEW m \in 1..MaxTake, WaitCall(t, m)
        PROVE  TypeOK'
    BY <2>1 DEF WaitCall
  <2>2. ASSUME NEW t \in Threads, WaitBlock(t) PROVE TypeOK'
    BY <2>2 DEF WaitBlock
  <2>3. ASSUME NEW t \in Threads, WaitTake(t) PROVE TypeOK'
    BY <2>3 DEF WaitTake
  <2>4. ASSUME NEW t \in Threads, NEW add \in 1..MaxAdd, Notify(t, add)
        PROVE  TypeOK'
    BY <2>4 DEF Notify, Asleep
  <2>5. ASSUME NEW t \in Threads, SpuriousWakeup(t) PROVE TypeOK'
    BY <2>5 DEF SpuriousWakeup
  <2>6. CASE UNCHANGED vars
    BY <2>6 DEF vars
  <2>7. QED
    BY <2>1, <2>2, <2>3, <2>4, <2>5, <2>6 DEF Next
<1>3. QED
  BY <1>1, <1>2, PTL DEF Spec

\* A thread that starts to test the count, and was not testing, adds one to the
\* testing threads; one that stops takes one away.
LEMMA TestingMoves ==
  ASSUME TypeOK
  PROVE  /\ Cardinality(Testing) \in Nat
         /\ \A t \in Threads \ Testing :
               Cardinality(Testing \cup {t}) = Cardinality(Testing) + 1
         /\ \A t \in Testing :
               Cardinality(Testing \ {t}) = Cardinality(Testing) - 1
<1>1. IsFiniteSet(Testing)
  BY SemaphoreAssumption, FS_Subset DEF Testing
<1>2. QED
  BY <1>1, FS_CardinalityType, FS_AddElement, FS_RemoveElement DEF Testing

\* When notify adds one unit at a time, beside a sleeper each free unit has a
\* woken thread on its way to it.
THEOREM UnitsHaveTakersAlways ==
  ASSUME MaxAdd = 1
  PROVE  Spec => []UnitsHaveTakers
<1>1. Init => UnitsHaveTakers
  BY DEF Init, UnitsHaveTakers, Asleep
<1>2. TypeOK /\ TypeOK' /\ UnitsHaveTakers /\ [Next]_vars => UnitsHaveTakers'
  <2> SUFFICES ASSUME TypeOK, TypeOK', UnitsHaveTakers, [Next]_vars, Asleep' # {}
               PROVE  count' <= Cardinality(Testing)'
    BY DEF UnitsHaveTakers
  <2>0. /\ count \in Nat /\ count' \in Nat /\ ask \in [Threads -> Nat]
        /\ st \in [Threads -> {"out", "testing", "asleep"}]
        /\ \A t \in Threads : st[t] = "testing" => ask[t] > 0
    BY SemaphoreAssumption DEF TypeOK
  <2>a. /\ Cardinality(Testing) \in Nat
        /\ \A t \in Threads \ Testing :
              Cardinality(Testing \cup {t}) = Cardinality(Testing) + 1
        /\ \A t \in Testing :
              Cardinality(Testing \ {t}) = Cardinality(Testing) - 1
    BY TestingMoves
  <2>1. ASSUME NEW t \in Threads, NEW m \in 1..MaxTake, WaitCall(t, m)
        PROVE  count' <= Cardinality(Testing)'
    <3>1. Testing' = Testing \cup {t} /\ t \notin Testing /\ Asleep' = Asleep
      BY <2>0, <2>1 DEF WaitCall, Testing, Asleep
    <3>2. QED
      BY <3>1, <2>0, <2>a, <2>1 DEF WaitCall, UnitsHaveTakers
  <2>2. ASSUME NEW t \in Threads, WaitBlock(t)
        PROVE  count' <= Cardinality(Testing)'
    <3>1. Testing' = Testing \ {t} /\ t \in Testing /\ count' = 0
      BY <2>0, <2>2 DEF WaitBlock, Testing
    <3>2. Cardinality(Testing') \in Nat
      BY TestingMoves, SemaphoreAssumption, FS_Subset, FS_CardinalityType DEF Testing
    <3>3. QED
      BY <3>1, <3>2
  <2>3. ASSUME NEW t \in Threads, WaitTake(t)
        PROVE  count' <= Cardinality(Testing)'
    <3>1. Testing' = Testing \ {t} /\ t \in Testing /\ Asleep' = Asleep
      BY <2>0, <2>3 DEF WaitTake, Testing, Asleep
    <3>2. count' = 0 \/ count' <= count - 1
      BY <2>0, <2>3 DEF WaitTake
    <3>3. count <= Cardinality(Testing)
      BY <3>1 DEF UnitsHaveTakers
    <3>4. Cardinality(Testing') \in Nat
      BY SemaphoreAssumption, FS_Subset, FS_CardinalityType DEF Testing
    <3>5. QED
      BY <3>1, <3>2, <3>3, <3>4, <2>0, <2>a
  <2>4. ASSUME NEW t \in Threads, NEW add \in 1..MaxAdd, Notify(t, add)
        PROVE  count' <= Cardinality(Testing)'
    <3>1. Asleep # {}
      BY <2>4 DEF Notify, Asleep
    <3>2. PICK u \in Asleep : st' = [st EXCEPT ![u] = "testing"]
      BY <3>1, <2>4 DEF Notify
    <3>3. Testing' = Testing \cup {u} /\ u \in Threads \ Testing
      BY <3>2, <2>0 DEF Testing, Asleep
    <3>4. count' = count + 1
      BY <2>4, <2>0 DEF Notify
    <3>5. QED
      BY <3>1, <3>3, <3>4, <2>0, <2>a DEF UnitsHaveTakers
  <2>5. ASSUME NEW t \in Threads, SpuriousWakeup(t)
        PROVE  count' <= Cardinality(Testing)'
    <3>1. Testing' = Testing \cup {t} /\ t \in Threads \ Testing /\ Asleep # {}
      BY <2>0, <2>5 DEF SpuriousWakeup, Testing, Asleep
    <3>2. QED
      BY <3>1, <2>0, <2>a, <2>5 DEF SpuriousWakeup, UnitsHaveTakers
  <2>6. CASE UNCHANGED vars
    BY <2>6 DEF vars, UnitsHaveTakers, Testing, Asleep
  <2>7. QED
    BY <2>1, <2>2, <2>3, <2>4, <2>5, <2>6 DEF Next
<1>3. QED
  BY <1>1, <1>2, SemaphoreTyping, PTL DEF Spec

\* So no unit stays free while every thread that wants one sleeps: a count may
\* stand for empty_ and remain_can_send in the model of the evaluator client.
THEOREM NobodyStranded ==
  ASSUME MaxAdd = 1
  PROVE  Spec => []NoStrandedWaiter
<1>1. TypeOK /\ UnitsHaveTakers => NoStrandedWaiter
  BY FS_EmptySet, SemaphoreAssumption DEF TypeOK, UnitsHaveTakers, NoStrandedWaiter
<1>2. QED
  BY <1>1, SemaphoreTyping, UnitsHaveTakersAlways, PTL

\* However many units a notify adds, the monitor is a counting semaphore.
THEOREM SemaphoreRefines == Spec => Refinement
<1> USE DEF Abs!svars
<1>1. Init => Abs!SemInit
  BY DEF Init, Abs!SemInit
<1>2. TypeOK /\ [Next]_vars => [Abs!SemNext]_(Abs!svars)
  <2> SUFFICES ASSUME TypeOK, [Next]_vars PROVE [Abs!SemNext]_(Abs!svars)
    OBVIOUS
  <2>0. /\ count \in Nat /\ ask \in [Threads -> Nat]
        /\ \A t \in Threads : ask[t] = 0 <=> st[t] = "out"
    BY SemaphoreAssumption DEF TypeOK
  <2>1. ASSUME NEW t \in Threads, NEW m \in 1..MaxTake, WaitCall(t, m)
        PROVE  Abs!SemNext
    <3>1. Abs!Ask(t, m)
      BY <2>0, <2>1 DEF WaitCall, Abs!Ask
    <3>2. QED
      BY <3>1 DEF Abs!SemNext
  <2>2. ASSUME NEW t \in Threads, WaitBlock(t) PROVE UNCHANGED Abs!svars
    BY <2>2 DEF WaitBlock
  <2>3. ASSUME NEW t \in Threads, WaitTake(t) PROVE Abs!SemNext
    <3>1. Abs!Grant(t)
      BY <2>0, <2>3 DEF WaitTake, Abs!Grant
    <3>2. QED
      BY <3>1 DEF Abs!SemNext
  <2>4. ASSUME NEW t \in Threads, NEW add \in 1..MaxAdd, Notify(t, add)
        PROVE  Abs!SemNext
    <3>1. Abs!Give(t, add)
      BY <2>0, <2>4 DEF Notify, Abs!Give
    <3>2. QED
      BY <3>1 DEF Abs!SemNext
  <2>5. ASSUME NEW t \in Threads, SpuriousWakeup(t) PROVE UNCHANGED Abs!svars
    BY <2>5 DEF SpuriousWakeup
  <2>6. CASE UNCHANGED vars
    BY <2>6 DEF vars
  <2>7. QED
    BY <2>1, <2>2, <2>3, <2>4, <2>5, <2>6 DEF Next
<1>3. QED
  BY <1>1, <1>2, SemaphoreTyping, PTL DEF Spec, Refinement, Abs!SemSpec
==============================================================================
