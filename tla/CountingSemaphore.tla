-------------------------- MODULE CountingSemaphore --------------------------
(***************************************************************************)
(* What a Semaphore (include/Utils.h) promises to the threads that share   *)
(* it: a number of units, threads that wait for some of them, and no more  *)
(* units taken than were given.  Nothing is said here of the mutex, of the *)
(* condition variable or of who sleeps: that is Semaphore.tla.             *)
(***************************************************************************)
EXTENDS Integers

CONSTANTS Threads,   \* the threads that call notify and wait
          MaxTake,   \* the largest argument of wait
          MaxAdd,    \* the largest argument of notify
          MaxCount   \* bound: units given at most so far kept in count

VARIABLES units,     \* units free to take
          want       \* what each thread inside wait asks for, 0 outside wait

svars == <<units, want>>

SemInit ==
    /\ units \in 0..MaxCount
    /\ want = [t \in Threads |-> 0]

\* A thread calls wait(m).
Ask(t, m) ==
    /\ want[t] = 0
    /\ want' = [want EXCEPT ![t] = m]
    /\ UNCHANGED units

\* wait returns with as many units as it asked for, or with all there are.
Grant(t) ==
    /\ want[t] > 0
    /\ units > 0
    /\ units' = units - (IF want[t] > units THEN units ELSE want[t])
    /\ want' = [want EXCEPT ![t] = 0]

\* A thread that is not waiting gives n units.
Give(t, n) ==
    /\ want[t] = 0
    /\ units + n <= MaxCount
    /\ units' = units + n
    /\ UNCHANGED want

SemNext ==
    \E t \in Threads :
        \/ \E m \in 1..MaxTake : Ask(t, m)
        \/ Grant(t)
        \/ \E n \in 1..MaxAdd : Give(t, n)

SemSpec == SemInit /\ [][SemNext]_svars
==============================================================================
