-------------------------------- MODULE TaskPool --------------------------------
(***************************************************************************)
(* What those who commit a task to the executor (utils/Executor.h) may     *)
(* expect of it: tasks are started in the order of their commits, each of  *)
(* them once, and the future of a task is ready when it has been run.      *)
(***************************************************************************)
EXTENDS Sequences, FiniteSets

CONSTANT Tasks

VARIABLES
    waiting,  \* tasks committed and not started
    running,  \* tasks that a thread is in
    ready     \* tasks that have been run, whose futures nobody has collected

PoolInit == waiting = <<>> /\ running = {} /\ ready = {}

\* A task is not committed again before its future is collected.
Submit ==
    \E task \in Tasks :
        /\ task \notin running \cup ready
        /\ \A i \in DOMAIN waiting : waiting[i] # task
        /\ waiting' = Append(waiting, task)
        /\ UNCHANGED <<running, ready>>

Start ==
    /\ waiting # <<>>
    /\ running' = running \cup {Head(waiting)}
    /\ waiting' = Tail(waiting)
    /\ UNCHANGED ready

End ==
    \E task \in running :
        /\ running' = running \ {task}
        /\ ready' = ready \cup {task}
        /\ UNCHANGED waiting

Collect ==
    \E tasks \in SUBSET ready :
        /\ ready' = ready \ tasks
        /\ UNCHANGED <<waiting, running>>

PoolSpec == PoolInit /\ [][Submit \/ Start \/ End \/ Collect]_<<waiting, running, ready>>
==============================================================================
