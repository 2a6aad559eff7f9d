------------------------------ MODULE Semaphore ------------------------------
(***************************************************************************)
(* The monitor Semaphore of include/Utils.h: a count under a mutex and a   *)
(* condition variable.  Each critical section is one action.  A thread     *)
(* inside wait is either about to test the count ("testing": it has just   *)
(* called, or has been woken and competes for the mutex again) or blocked  *)
(* on the condition variable ("asleep").  notify adds any number of units  *)
(* but wakes a single thread, and the condition variable may wake a thread *)
(* that nobody notified.                                                   *)
(***************************************************************************)
EXTENDS Integers, FiniteSets

CONSTANTS Threads,   \* the threads that share the semaphore
          MaxTake,   \* the largest argument of wait
          MaxAdd,    \* the largest argument of notify
          MaxCount   \* bound on count

ASSUME SemaphoreAssumption ==
    /\ IsFiniteSet(Threads)
    /\ MaxTake \in Nat \ {0}
    /\ MaxAdd \in Nat \ {0}
    /\ MaxCount \in Nat \ {0}

VARIABLES count,     \* Semaphore::count
          st,        \* where each thread is: out of wait, testing, asleep
          ask        \* the argument max of the wait each thread is in

vars == <<count, st, ask>>

Testing == {t \in Threads : st[t] = "testing"}
Asleep  == {t \in Threads : st[t] = "asleep"}

TypeOK ==
    /\ count \in 0..MaxCount
    /\ st \in [Threads -> {"out", "testing", "asleep"}]
    /\ ask \in [Threads -> 0..MaxTake]
    /\ \A t \in Threads : ask[t] = 0 <=> st[t] = "out"

\* The constructor gives the initial count.
Init ==
    /\ count \in 0..MaxCount
    /\ st = [t \in Threads |-> "out"]
    /\ ask = [t \in Threads |-> 0]

\* wait(m) is called: the thread goes for the mutex.
WaitCall(t, m) ==
    /\ st[t] = "out"
    /\ st' = [st EXCEPT ![t] = "testing"]
    /\ ask' = [ask EXCEPT ![t] = m]
    /\ UNCHANGED count

\* The loop test finds no unit: cv.wait gives up the mutex and blocks.
WaitBlock(t) ==
    /\ st[t] = "testing"
    /\ count = 0
    /\ st' = [st EXCEPT ![t] = "asleep"]
    /\ UNCHANGED <<count, ask>>

\* Fault: "if" for "while", so a woken thread no longer tests the count.
WaitTakeIf(t) ==
    /\ st[t] = "testing"
    /\ count' = IF ask[t] > count THEN 0 ELSE count - ask[t]
    /\ st' = [st EXCEPT ![t] = "out"]
    /\ ask' = [ask EXCEPT ![t] = 0]

\* Fault: max is taken off whether or not there are so many.
WaitTakeMax(t) ==
    /\ st[t] = "testing"
    /\ count # 0
    /\ count' = count - ask[t]
    /\ st' = [st EXCEPT ![t] = "out"]
    /\ ask' = [ask EXCEPT ![t] = 0]

\* The loop test finds units: take max of them, or all when there are fewer.
WaitTake(t) ==
    /\ st[t] = "testing"
    /\ count # 0
    /\ count' = IF ask[t] > count THEN 0 ELSE count - ask[t]
    /\ st' = [st EXCEPT ![t] = "out"]
    /\ ask' = [ask EXCEPT ![t] = 0]

\* Fault: notify_one only when the count was 0, "the others are awake already".
NotifyWhenEmpty(t, add) ==
    /\ st[t] = "out"
    /\ count + add <= MaxCount
    /\ count' = count + add
    /\ \/ (Asleep = {} \/ count > 0) /\ UNCHANGED st
       \/ count = 0 /\ \E u \in Asleep : st' = [st EXCEPT ![u] = "testing"]
    /\ UNCHANGED ask

\* Fault: no notify_one at all.
NotifyNobody(t, add) ==
    /\ st[t] = "out"
    /\ count + add <= MaxCount
    /\ count' = count + add
    /\ UNCHANGED <<st, ask>>

\* notify(add): the count grows by add, notify_one wakes one sleeper if any.
Notify(t, add) ==
    /\ st[t] = "out"
    /\ count + add <= MaxCount
    /\ count' = count + add
    /\ \/ Asleep = {} /\ UNCHANGED st
       \/ \E u \in Asleep : st' = [st EXCEPT ![u] = "testing"]
    /\ UNCHANGED ask

\* The condition variable may wake a thread without a notify.
SpuriousWakeup(t) ==
    /\ st[t] = "asleep"
    /\ st' = [st EXCEPT ![t] = "testing"]
    /\ UNCHANGED <<count, ask>>

Next ==
    \E t \in Threads :
        \/ \E m \in 1..MaxTake : WaitCall(t, m)
        \/ WaitBlock(t)
        \/ WaitTake(t)
        \/ \E add \in 1..MaxAdd : Notify(t, add)
        \/ SpuriousWakeup(t)

Spec == Init /\ [][Next]_vars

------------------------------------------------------------------------------
(* Properties *)

\* No unit stays free while every thread that wants one sleeps: were it
\* otherwise a caller of wait (include/Utils.h:55) could block for ever beside
\* a free unit.  notify wakes one thread whatever it adds, so this is a
\* property of the semaphores whose notify adds one unit at a time (empty_ and
\* remain_can_send of the evaluator client), and not of full_.
NoStrandedWaiter == Asleep # {} /\ count > 0 => Testing # {}

\* Why it holds: beside a sleeper, each free unit has a woken thread on its way
\* to it.
UnitsHaveTakers == Asleep # {} => count <= Cardinality(Testing)

\* The mutex and the condition variable together keep the promise of a counting
\* semaphore: however many units a notify adds and whoever it wakes, wait never
\* takes a unit that is not there and never returns without one.
Abs == INSTANCE CountingSemaphore WITH units <- count, want <- ask
Refinement == Abs!SemSpec
==============================================================================
