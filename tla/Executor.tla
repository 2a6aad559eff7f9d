-------------------------------- MODULE Executor --------------------------------
(***************************************************************************)
(* The thread pool of utils/Executor.h: workers that take tasks from one   *)
(* queue.  Who commits tasks, and when a task returns, is the business of  *)
(* the module that extends this one.                                       *)
(*                                                                         *)
(* The constructor starts the workers and sets the exit flag afterwards; a *)
(* worker may read what happens to be in that memory before.  Nothing in   *)
(* the program deletes the executor or calls shutdown and restart.         *)
(***************************************************************************)
EXTENDS Integers, Sequences, SequencesExt

CONSTANTS Workers,  \* the threads of mPool
          Tasks,
          NoTask

ASSUME ExecutorAssumption == IsFiniteSet(Workers) /\ Workers # {} /\ NoTask \notin Tasks

VARIABLES
    built,   \* the constructor has returned
    exit,    \* the flag that schedule reads
    place,   \* where each worker is in schedule and get_task
    task,    \* the task each worker runs
    queue,   \* mTaskQueue
    done     \* tasks whose future is ready

executorVars == <<built, exit, place, task, queue, done>>

ExecutorInit ==
    /\ built = FALSE /\ exit \in BOOLEAN
    /\ place = [w \in Workers |-> "unborn"]
    /\ task = [w \in Workers |-> NoTask]
    /\ queue = <<>> /\ done = {}

WorkerGoes(w, to) == place' = [place EXCEPT ![w] = to]

\* Executor::Executor starts a worker.
Spawn(w) ==
    /\ ~built /\ place[w] = "unborn"
    /\ WorkerGoes(w, "test")
    /\ UNCHANGED <<built, exit, task, queue, done>>

\* exit = false, when all of them are started.
Built ==
    /\ ~built /\ \A w \in Workers : place[w] # "unborn"
    /\ built' = TRUE /\ exit' = FALSE
    /\ UNCHANGED <<place, task, queue, done>>

\* schedule: while (!exit).
TestExit(w) ==
    /\ place[w] = "test"
    /\ WorkerGoes(w, IF exit THEN "ended" ELSE "get")
    /\ UNCHANGED <<built, exit, task, queue, done>>

\* get_task: the condition variable lets go of the mutex.
GetBlock(w) ==
    /\ place[w] = "get" /\ queue = <<>>
    /\ WorkerGoes(w, "asleep")
    /\ UNCHANGED <<built, exit, task, queue, done>>

\* get_task takes the front; the fault leaves it in the queue.
NotPopped(q) == q
Rest(q) == Tail(q)

GetTask(w) ==
    /\ place[w] = "get" /\ queue # <<>>
    /\ task' = [task EXCEPT ![w] = Head(queue)]
    /\ queue' = Rest(queue)
    /\ WorkerGoes(w, "run")
    /\ UNCHANGED <<built, exit, done>>

Wakeup(w) ==
    /\ place[w] = "asleep"
    /\ WorkerGoes(w, "get")
    /\ UNCHANGED <<built, exit, task, queue, done>>

\* The task returns: its future is ready.
TaskReturns(w) ==
    /\ place[w] = "run"
    /\ done' = done \cup {task[w]}
    /\ task' = [task EXCEPT ![w] = NoTask]
    /\ WorkerGoes(w, "test")
    /\ UNCHANGED <<built, exit, queue>>

\* commit, in its two steps: the task is queued under the mutex, and then
\* notify_all wakes who sleeps.  The fault wakes nobody.
Queued(k) ==
    /\ queue' = Append(queue, k)
    /\ UNCHANGED <<built, exit, place, task, done>>
WokenNone(at) == at
Woken(at) == IF at = "asleep" THEN "get" ELSE at
NotifyAll ==
    /\ place' = [w \in Workers |-> Woken(place[w])]
    /\ UNCHANGED <<built, exit, task, queue, done>>

\* Futures are waited for and thrown away.
Collected(tasks) ==
    /\ done' = done \ tasks
    /\ UNCHANGED <<built, exit, place, task, queue>>

WorkerStep(w) == Spawn(w) \/ TestExit(w) \/ GetBlock(w) \/ GetTask(w) \/ Wakeup(w)
RunningTasks == {task[w] : w \in {v \in Workers : place[v] = "run"}}

ExecutorTypes ==
    /\ built \in BOOLEAN /\ exit \in BOOLEAN
    /\ place \in [Workers -> {"unborn", "test", "get", "asleep", "run", "ended"}]
    /\ task \in [Workers -> Tasks \cup {NoTask}]
    /\ queue \in Seq(Tasks)
    /\ done \subseteq Tasks
==============================================================================
