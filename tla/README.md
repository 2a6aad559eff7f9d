# EstarGo: TLA+ models, checks and proofs

EstarGo is a Go engine that speaks GTP.  A GTP loop drives a player, the player
runs search threads over a shared Monte-Carlo tree, and leaves of the tree are
evaluated by remote servers reached through an asynchronous batching client.
The project here models the concurrent core of that program, the life of its
players and threads, its time policy and the reader of its settings; it checks them
with TLC and proves what can be proved with TLAPS.

## The system

Sources are in `src/src` and `src/include` (paths are given as in `PROJECT.json`,
from the directory that holds the repository as `src`); `src/external/pachi` is
vendored and is not modelled.

| Component | State it keeps | Operations | Interacts with |
|---|---|---|---|
| **Semaphore** (`Utils.h`) | count, mutex, condition variable | `wait(max)`, `notify(add)`, `get` | evaluator client |
| **Evaluator client** (`PolicyValueEvaluatorClient.*`, `Evaluator.*`) | request queue, `full_`, `empty_`, `pending_`, `eval_terminate`, per sender a permit semaphore and a proxy counter | `Eval`, `EvalByHistory`, `ProcessEval`, `evaluate_cb`, `failure_cb`, `Stop`, `get_pending` | search threads call `Eval`; sender threads; threads of the Ice pool run callbacks; evaluation servers |
| **Search tree** (`MCTSTree.*`) | nodes and edges with atomic counters, flags without a lock | select path, back-update, choose a move | search threads and callbacks share it |
| **Player** (`MCTSPlayer.*`) | root, root board, time policy, search futures, exit flag | `play`, `gen_apply_move`, `rollout`, `start/stop_pondering` | GTP loop; executor; evaluator |
| **GTP** (`Gtp.*`) | player pointer, pondering, last command | one handler per command | player |
| **Executor** (`Executor.h`) | task queue, workers, stop flag | `commit`, `schedule`, destructor | player |
| **Board** (`GoBoard.*`) | history, colour, repetition flag, pachi board | `apply_move`, `apply_history`, score | player, tree |
| **EvalQueue, EvalCycleQueue** (`EvalQueue.h`) | bounded buffers | push, pop | unused by the program |
| **Time policy** (`MCTSPlayer.cpp`) | time left, time-out, rollouts, speed, shared by the search threads | `est_timeout_rollout`, `cal_rollout_speed`, early exit | GTP's `time_left`, settings |
| **Configuration** (`Config.*`, `INIReader.*`) | the parameters | `Sinit`, `GetInt`, `GetBool`, `GetString` | read once, by `main` |
| **Symmetry**, **Latency**, **logging** | tables, counters | conversions, records | all |

### What is hard in it

* The client has three semaphores, one mutex, two atomics, and four kinds of
  threads, and no test.  Tokens are taken under one lock and the queue is popped
  under another; several slots are given by one `notify` that wakes one thread;
  a failed batch is put back by the thread that reports the failure, with the
  sender's permit in its hand; `Stop` must wake senders that may be asleep.
* The tree is shared without locks: `rq_sent` is tested and set in two steps,
  children are published with a fence, virtual loss is given by one thread and
  taken back by another.
* The player hands parts of the tree to detached threads by reference, and the GTP
  loop hands whole players to them through one shared pointer.
* A worker of the executor may read its `exit` flag before the constructor sets it.
* Every search thread estimates the time-out and the rollouts into fields that all
  of them share, and stores an average of the speed that others have read.
* What the settings file says is found by a search over its lines that a blank or an
  empty line upsets.

The list of hazards, each at its line, is in `PROJECT.json`.

### What makes each component correct

* Semaphore: no unit is taken that is not there; no unit stays free beside
  sleepers when units are given one at a time.
* Client: no request is lost, answered twice or popped from an empty queue; slots,
  tokens and permits are conserved; nobody sleeps for ever on `full_`;
  `get_pending` means what the rollout takes it to mean; `Stop` returns and leaves
  nobody inside.
* Tree: each leaf is sent once; virtual loss comes back to 0; visit counts of a
  node and its edges agree; selection always has a child to go to.
* Player and GTP: one search at a time, tree handed over without a dangling
  reference; no player is deleted twice, used after or left behind.
* Executor: each committed task runs once, in order, and nobody sleeps through it.
* Time policy: a clock that is enough stays enough, the estimate ends, and a search
  has a rollout left when it begins.
* Configuration: a well-formed file means what it says.

## The models

```
CountingSemaphore <--implements-- Semaphore            (Utils.h)
EvalService       <--implements-- EvalClient           (PolicyValueEvaluatorClient)
                                  Search               (MCTSTree, rollout)
                                    ^ extends
                                  Player               (MCTSPlayer, Gtp)

TaskPool          <--implements-- Lifecycle            (Gtp, play, detached threads)
                                    | extends
                                  Executor             (utils/Executor.h)

                                  TimePolicy           (MCTSPlayer, time_left)
                                    | extends
                                  Configuration        (Config, INIReader)
```

`Semaphore` justifies how `EvalClient` treats two of its three semaphores, and
`EvalService` says what `Search` may take for granted about the evaluator.
`Lifecycle` and `TimePolicy` look at the same player from two other sides: in
`Lifecycle` the tree is a root that is there or not and there are many players; in
`TimePolicy` a search is what it costs.  The
`MC*` modules only name threads, lines of moves and bounds for TLC; the `*Proofs`
modules and `SumTheorems` hold the theorems.

### CountingSemaphore, Semaphore

A semaphore with its mutex and condition variable; each critical section is one
action: `WaitCall` goes for the mutex, `WaitBlock` finds no unit and sleeps, `WaitTake`
takes, `Notify` adds units and wakes one sleeper, `SpuriousWakeup` wakes one without
a reason.  `wait(max)` takes as many units as there are up to
`max`.  `CountingSemaphore` is what a user of it expects: a count, units given,
units taken, no sleepers.  With notifies of one unit no free unit stays beside
sleepers only; this is why `EvalClient` may use a guarded action for a wait on
`empty_` and on the permits, and why it may not for `full_`, whose `notify` gives a
batch of slots and wakes one thread: there the sleepers are kept in `asleep`.

### EvalService, EvalClient

`EvalClient` has one action per stretch of code between two points where another
thread matters.

| Code | Actions |
|---|---|
| `rollout` as a client | `CallerEval`, `CallerBreak`, `CallerOver` (the poll of `get_pending`) |
| `Eval`, `EvalByHistory` | `TakeSlot` or `SleepOnFull`, `Push` (under the mutex, with `pending_++`), `Signal` (the token of `empty_`) |
| `ProcessEval` | `LoopTest`, `TakePermit`, `SendDummy` or `SeeRequests`, `TakeTokens`, `Pop` (under the mutex), `ReleaseSlots`, `SendAsyn` or `SendSync`, `SyncAnswer`, `SyncCount`, `SyncThrows`, `Drained` |
| `evaluate_cb` | `Deliver`, `Answer` and `Count` for each request, `ReleasePermit` |
| `failure_cb` | `Fail`, `FailCount` for each request, then the steps of `EvalByHistory` for each, `ReleasePermit` |
| `Stop` | `StopBegin`, `StopLook`, `StopEval` while the queue looks empty, `StopWakeDone`, `StopJoin` |

The size of the queue that `Stop` reads without the mutex is any value between
what concurrent pops and pushes allow (`seen`): the read is a data race.  A
thread of the Ice pool runs one callback at a time (`IceThreads`); a callback that
sleeps on `full_` keeps its thread.  A reply is the server's and has an entry for each
position of its batch; what the code does with a shorter one is outside the model.
`EvalService` is a request's life: fresh,
pending, answered, done, with failed ones set aside and resumed, and a count that
moves with them.  The refinement maps a request to where the client has it
(queue, batch, load of a call) and `outstanding` to `pending_`.

### Search

Threads run the loop of `MCTSPlayer::rollout`; requests (`jobs`) are answered by
callbacks.  The actions of a thread follow the code: `Round`/`Break` for the top of
the loop, `AwaitRoot`, `Select` (one level of the path at a time, giving virtual
loss), `SelectEnds`, `LeafRepeats`, `LeafDecided`, `LeafOpen`, `Test` and `Send` (the
test of `rq_sent` and its assignment, two steps), `Late` (`invalid_visit++`),
`ThreadEdge`/`ThreadTotal` (one level of the back-update, in two steps), and `Over`
(the poll of `get_pending`).  A callback goes through `Expand` (the new vector of
children), `SetReady`, `ReadInvalid`, `JobEdge`/`JobTotal` up to the root, `Retire`.

What is abstracted:

* Scores.  Any child the selection scores may be the best one.  What is kept is
  which children are scored: those before and at the first one never visited, not
  repetitions, and at the root not those that pruning leaves out; and that a score
  with n + vl = 0 may never be the best.  In the code such a score is no number where
  every visit of the edge was a loss, and infinite else; `w` is not modelled, and the
  models take either for possible.
* Moves.  A reply of the evaluator always holds the pass, which is kept whatever its
  probability, so a node that is expanded has a child (`NewKids`), and the paths of
  the code for an empty `nexts` (MCTSTree.cpp:32-36, 189-194) are not taken.  A move
  that the selection takes is one the board takes: where it were not, the process
  exits.
* Steps.  The edge's `vl`, `n` and `w` are atomic each and are updated in one step
  (`UpdateEdge`): a selection that reads them in between sees one more score, and any
  child it scores may be the best already.  `rollout_in_turn++`, `rq_sent = true` and the
  queueing of the request are one step (`Send`): the count is the thread's own, what
  matters of the flag is the read before it (`Test`), and the wait for a slot of the
  queue is `EvalClient`'s.
* Nodes are named by their path; a step of it is a move and which of the vectors
  that `nexts` has pointed to the child is in, so nodes of a replaced vector stay
  apart from the new ones, as they do in memory while somebody points to them.
* The board.  `Repeating` and `Decided` are sets of lines of moves.  A pass never
  repeats a position, as in `GoBoard::apply_move`.
* Time.  `Break` may end the loop at any iteration: time-out, exit flag, early exit
  of the time policy.  Only the number of rollouts is a guard of `Round`.
* The evaluator.  A request is answered, or put aside (`Aside`) and retried (`Retry`), as
  `EvalService` has it; `MaxFails` bounds how often one request fails.
* `is_terminate`, which nothing sets in a tree where no node has it.

### Player

One game.  `CmdPlay`, `CmdPlayEnds` and `CmdGenmove` are the GTP handlers with the
calls they make (stop pondering, apply the move, start the search); `ChooseMove`,
`ChooseEnds` and `ChooseNothing` are `gen_apply_move` after the search.  `CmdPlayEnds` and
`ChooseEnds` are the ends of a game that may come at any move: a resignation of either
side, or `exit(1)` at a move the board does not take; `ChooseNothing` is the exit of
`mcts_select_action` where the root has no children.  `Below` is the
part of the tree that becomes the new tree, with every name shortened by the move.
`above` is the time in which the detached thread of `play` has not yet reset the
father of the new root, when the back-update sees one level more.  Two genmoves in
a row take it that the opponent has passed.  A game may begin from a history (`--history`), so that its
first move may already repeat a position.

`stop_rollout` is set by the first search after `StopAfter` moves, as
`est_timeout_rollout` does it after 200 moves of the engine in a UEC game: its rollouts
find their time over, and from then on `play` does nothing, `gen_apply_move` says pass and
`start_pondering` does nothing (`CmdStopped`).  A game that is not a UEC one has a
`StopAfter` it does not come to.

Requests fail here as in `Search`.  A failed request is not in `get_pending` while it waits
to be sent again, so the rollouts may be over, and the tree may move, while it is
out; its callback then runs with a reference to a local of a rollout that has
returned (`eval_latency`), which is undefined behaviour.  The move that leaves such a
request behind is the action `LeaveRequests`, and the game is followed no further
(phase `lost`): what the properties say of games with failures, they say up to there.

### TaskPool, Executor, Lifecycle

`Executor` is a worker's way through `schedule` and `get_task`.  The constructor
starts the workers (`Spawn`) and sets `exit` afterwards (`Built`); `exit` begins as
either value, because nothing has set it, and `TestExit` may read it in between.
`commit` is two steps of who calls it: the task is queued under the mutex, and
`notify_all` comes after the unlock.  `TaskPool` is what those who commit may expect:
first come, first served, each task once, its future ready when it has run.

`Lifecycle` is the GTP loop, on that executor, with as many players as it makes:

| Code | Actions |
|---|---|
| `GTP::initialize` | `Initialize` |
| reading a command | `ReadCommand`: with no player, commands that use one end the process |
| `stop_pondering` | `StopPondering`: waits for the futures |
| `MCTSPlayer::play` | `PlayAsserts`, `PlayNothing`, `PlayChild`, or `PlayNew` and `PlaySwap`, between which a late thread may reset `tmp` |
| `gen_apply_move` | `SayPass`, or `BeginSearch`, `Commit` and `Notify` for each rollout, `WaitSearch`, `ChooseMove` or `ChooseResign` |
| `start_pondering` | `Commit` and `Notify` again |
| `process_cmd_quit`, `play resign` | `Delete` |
| `process_cmd_clearboard` | `HandOver`; its detached thread is `RecycleBegin`, `RecycleDelete`, `RecycleEnd` |
| detached threads of `play` | `DropTmp`, `DropFather` |
| `est_timeout_rollout` past move 200 | `StopRollout`, in a running rollout |
| `exit(1)`, assertions of the board, the null `best` | `Dies`: a history, a move of the opponent or a chosen move that the board does not take, no move to choose, and in a rollout a move that is none or a node without a best child |

`ChooseMove` stands for the choice of any child: it is `Player` that says which.  What
leads to an exit is abstracted here, so `Dies` may happen wherever the code has one
of these exits; `crash` is kept for a use of a null player or root.
`lagged` is a history variable: the GTP loop came to a pointer that a detached
thread of an earlier command still had to use.  The code does nothing against it.

### Configuration, TimePolicy

`Configuration` reads a file line by line as `INIReader.cpp` does; a line is its
kind and what of it matters (`Matches`, `Number`).  `GetString` looks through the lines
from a section to the next, takes the first line with the key, and calls `at(0)` of
every line before it, which throws for an empty one (`Throws`).  `Asked` is all that
`Config::Sinit` asks for, section by section: an empty line in one of these sections
throws unless every key of the section stands before it (`SinitThrows`).  Only the
parameters that the models use are kept (`Keys`).

`TimePolicy` has a start (`ReadConfig`, `Construct`), GTP's side (`TimeLeft`, `Play`,
`Pass`, `Genmove`, `Moved`) and the search threads, each of which runs
`est_timeout_rollout` (`Fixed`, `StopRollout`, `Halve` and `EstimateLate`,
`EstimateEarly`, then `BudgetRollouts`) and, if enough rollouts were answered,
`cal_rollout_speed` (`MeasureLoad`, `MeasureStore`).  The fields are shared and each
store is a step of its own: another thread's time-out may be the one that is
multiplied, and averages overwrite one another.  The product of two `int`s is
anything when it overflows.  `GameEnds` is where the process ends itself or the engine
resigns.  What is external: a search takes up to the time-out and
`Overrun`; a controller that keeps a clock reports the engine's time before each
`genmove`, and may report the opponent's before that.  The build is optimised, so the
fields are stored once in each call.

## The runs

| Run | Instance | Question |
|---|---|---|
| `semaphore_unit` | 4 threads, up to 2 units taken at once, 1 given | No unit is stranded beside sleepers; the monitor is a counting semaphore |
| `client_resend` | 2 callers, 1 sender, 2 calls, queue 3, batch 2, 3 proxies of which the last is null, 1 failure | Slots and permits are accounted for through a failure and a lost call; `Stop` is clean and pushes what it needs; the service is implemented |
| `client_two_senders` | 1 caller, 2 senders, queue 2, batch 2 | Tokens and pops under two locks agree; rollouts end |
| `client_sync` | 3 callers with 2 requests each, synchronous, queue 2, batch 2, 4 proxies of which the last is null, 1 failure | Several slots with one notify: a full queue forgets nobody; over means answered, with several answers in a batch; the service is implemented |
| `client_live` | 1 caller, queue with room for all, 1 failure | Every request is answered; `Stop` returns |
| `search_one` | 1 thread, 2 moves, 7 rounds of which 5 may count, a line that repeats, one decided, one failure for each request | Leaves are sent once; no virtual loss is taken back that was not given; a child is always found |
| `search_two` | 2 threads, 1 move, 3 rounds each, one failure for each request | Visits and rollouts add up when leaves are sent twice; nobody walks into a node without children; no request is left behind but one that failed |
| `search_two_no_child` | 2 threads, 1 move, 4 and 3 rounds, no failures | **Violated**: no child has a score |
| `player_ponder` | 1 thread, pondering, 4 moves of game, rollouts stopped after 3, one failure for each request | The tree is handed over in quiet; every counted rollout is a visit, across searches; a search that leaves no request has a move to choose; every genmove is answered |
| `player_repeats` | no pondering, the first move repeats | **Violated**: no move to choose |
| `lifecycle_process` | 2 workers, 3 players, pondering, 2 detached threads at a time | Rollouts do not outlive their player; hand-overs are sound while detached threads keep up; null players and roots are explained; the executor is a task pool; searches end |
| `time_policy` | all files of up to 4 of 9 lines, 2 threads, 2 searches, from 9 starts and 5 clocks | Files are read as written; a clock that is enough stays so; the estimate ends; rollouts are left |

Why the bounds are enough.  With 2 callers, 2 calls in flight, `BatchSize` 2 and one
failure the batches are full and not full, calls come back in either order, and a
batch is put back while others are queued; in `client_resend` the null proxy is the
third, so that there are calls to lose a permit beside.  In `client_sync` three callers
with two requests each fill a queue of 2: two of them may sleep on `full_` when a batch of
two gives two slots with one notify, and three good proxies come before the null
one, so that up to six requests are answered.  Two senders split the tokens in every way.  `Limit` gives `Stop` as many
empty boards as it can need, which `StopPushesSuffice` checks.  In the tree, one
thread and seven rounds go several levels deep, with late visits, retried
requests and a second callback thread on the way; two threads and one move are enough for
a leaf sent twice, replaced children and walks in the old vector, and the fourth
round of one of them for the child without a score.  In the game
four moves are two searches of its own with pondering and a reply between, the second of
which begins after three moves and stops the rollouts, or a double genmove and a reply.  Three players are two `clear_board`s, which is what it takes
to hand one over while another waits to be deleted; two detached threads at a time
are enough to meet each other or the GTP loop, and with two workers one may end
early or sleep while the other runs.  The moves that a game begins from are those
on both sides of each boundary of the policy (3, 50, 150, 200, 250), the clocks those
on both sides of what is enough there, the speeds the ends of what may be measured;
two threads are one that overwrites another.  Each property has a mutant of the code that breaks it
under the run's own bounds (`PROJECT.json`, `mutants`); the faulty forms stand beside
the definitions they replace.

`CHECK_DEADLOCK FALSE` is used twice: with two senders `Stop` may really hang (below), and
in `client_resend` a call to the null proxy loses its permit for good, for which the
sender then waits in the loop at its end.

### Fairness

The client: each thread that can run does run, so every step of a putter, a sender,
a callback and the stopper is weakly fair; nothing is assumed of the order in
which a semaphore serves its waiters.  A response arrives or fails in the end: the
Ice pool serves its connections in turn, which is strong fairness of `Deliver` and
`Fail` together, because other calls may keep the pool busy in between.  The loop of
`rollout` has a time-out, so `CallerBreak` is weakly fair and `CallerEval` is not.  In
`Player` the threads, the callbacks together, the sending again of failed requests and
the choice of a move are weakly fair; commands are not: the opponent may never type one.  In `Lifecycle` the GTP loop
goes on in a command, workers run, and each rollout returns, because its loop has a
time-out; detached threads are owed nothing.  In `TimePolicy` search threads run.

### Where the code does not do what it says

* `search_two_no_child` (MCTSPlayer.cpp:285): with two search threads `rq_sent` is
  tested and set in two steps; the virtual loss is taken back twice.
* `player_repeats` (GoBoard.cpp:46): `board_repetition` is never cleared.

Seen with the same models and not kept as runs:

* The client.  A failed batch is put back on a pool thread with its permit in hand
  (PolicyValueEvaluatorClient.cpp:174); into a full queue that never ends, and
  `RolloutBreaks` fails.  A failed request is not counted while it waits to be put back
  (PolicyValueEvaluatorClient.h:87), so a rollout may end with a root that is not
  expanded, from which no move can be chosen (`ChooseNothing`), or leave a callback behind
  that writes to its locals (phase `lost` of `Player`).  With two senders `Stop` wakes one of them and joins the other for ever.
* The tree.  A visit that reads `rq_sent` early and counts itself invalid after the
  callback has read `invalid_visit` leaves its virtual loss behind for the rest of the
  game, so `LossCovered` bounds the loss from below only; with two threads `SentOnce`
  fails.
* The process.  All workers may read an `exit` that was never set and end; the first
  search then waits for ever (`Stuck`).  A second `clear_board` before the detached
  thread of the first has run deletes one player twice and leaves the other; a late
  thread of `play` finds a root that was reset, or `tmp` between its assignment and
  its swap (`lagged`).  After `play resign` the next command that uses the player ends
  the process.
* The time policy.  With less than a second on the clock after move 150 `safe_time`
  is halved to 0 and the loop never ends.  In a UEC game the product of time-out and
  speed overflows around move 198 with a clock near 1000 s, and from move 200 on a
  search has no rollout: a root that is not expanded then ends the process.
  Which game it is decides `is_uec`, a member
  that nothing sets.
* The settings.  `conf/conf.ini` has blanks before `=`, so its keys are never found and
  the defaults hold, and empty lines, at which the reader throws and the program
  ends.  A `true` is read with `atoi`, as 0.  It says `use_async_request` and
  `async_once_send` where the code asks for `use_asyn_request` and `asyn_once_send`.

## The proofs

All are checked by TLAPS for every value of the constants that the named
assumptions allow.

**SemaphoreProofs.**  `SemaphoreTyping`, `UnitsHaveTakersAlways` and `NobodyStranded` (for
notifies of one unit), `SemaphoreRefines`.  The invariant relates sleepers, woken
threads and free units: beside a sleeper each free unit has a woken thread on the
way to it.

**EvalClientProofs** (assumption `ClientAssumption`).  The inductive invariant is
`Types /\ Shape /\ TokenAccounting /\ PermitAccounting`.  `Shape` says what a thread
holds at each place: a sender has fetched something exactly between its tokens and
the release of the slots, a call has requests left while its callbacks are at work
on them, a sender that is done has no call left, a client that puts has something
to put.  Without it the accounting is not inductive: an action adds or takes away
what a thread holds, and only the shape says how much that is.  From it follow `ClientTyping`,
`TokensAccounted` (no sender pops an empty queue), `PermitsAccounted` (also with null
proxies, as in `client_resend`), `SlotsAccounted` (proved on top,
with the slots as one more conjunct), `StopLeavesNobody` and `NobodyIsForgotten`.

A second invariant, `PlaceInv` (`RequestsArePlaced`), follows the requests themselves.
The queue, each sender and each call are holders; `Apart` says that no request has two
of them, `Fates` that the requests held and not yet answered are exactly those which
have reached the queue and have no answer, and that `pending_` is the number of those
that are not being put back after a failure.  `Data` keeps batches free of
repetitions and says which of a call's two lists is which at each of its steps.  Three results rest on it.
`OverIsAnswered`: a rollout that has left its poll of `get_pending` has all its answers,
if no batch can fail or the mode is synchronous; the hypothesis is needed, because
with an asynchronous failure TLC finds `OverMeansAnswered` violated (a failed
request is not counted while it waits to be put back).
`ClientIsService`: every step of the client is a step of `EvalService` or none, and its
initial states are those of the service; the status of a request is read off its holder
(`StatusIs`), and each action is shown to move at most one request.
`StopPushesAreEnough`: `Stop`'s loop needs at most `Limit` empty boards.  Its invariant
`StopInv` counts them: a board that is not waiting was popped by a sender which has
then seen `eval_terminate`, will pop no more, and took at most one batch.

**SearchProofs** (assumption `SearchAssumption`).  The tree has no lock, and the
invariant says why it holds together all the same: a node with children has the
whole vector in the tree; each node but the root has its father there, which has
made the vector the node is in; a callback past its first step has given its leaf
children.  `gen` only grows, so a second callback on the same leaf adds a new
vector and takes none away.  From this follow `SearchTypes` (no walk, up or down,
leaves the tree) and `ReadyNodesHaveChildren`.  `RolloutsLeaveFailed` needs that the
requests are finitely many and that one which is put aside has failed: then a
`get_pending` of 0 means that there is no other.

**SumTheorems** (no assumption).  Sums over finite sets as `MapThenSumSet` computes
them: what adding, taking away or changing one summand does, bounds, and the sum
over an image.  Induction over a set is replaced by a least counterexample among
its subsets, which the well-foundedness of strict inclusion gives without an
operator parameter.

**RolloutProofs** (assumption `SearchAssumption`).  What the rollouts leave in the tree.
`RequestInv` comes first: the requests are finite, and two for one leaf have different
threads, because a thread does not ask where it has set `rq_sent` itself.
* `VisitsAlwaysAddUp`: `VisitsEven` is inductive with it, for any number of threads and with
  leaves sent twice.  A step between the two additions of a back-update is one
  more or one less in `Rising`.
* `CountedRolloutsVisit`: `Tally`, the visits and evaluations that the root has or is owed less
  the rollouts counted, is changed by no step.  The hypothesis is that the root's position is
  not decided: a rollout there is counted and adds nothing.
* `KidsTakeTurns`: by `FlightInv`, whoever is at a child or has visited it came when its
  elder siblings were visited or repeat, and a node that was asked for does not repeat.
* For one thread, `OneThreadSendsOnce`, `OneThreadCoversLoss`, `OneThreadSelects`.  `SoloInv`
  says what the others could undo: `rq_sent` is still false when the thread sends, a request
  not yet answered has no children, a leaf has late visits only after it was asked
  for.  `Cover` is `LossCovered` as a sum over all requests; with it no edge has less than
  no virtual loss, so that each child that is looked at has a score, and by
  `PassNeverRepeats` there is always one to look at.  With two threads all
  three fail (`search_two_no_child`).

**PlayerProofs** (assumption `PlayerAssumption` as well).  The invariants of a search
are kept over the commands of a game.  `BelowNodes` is the heart of it: the paths of
the new tree are those of the old one with the first link taken off, and father,
children, generations, prefixes and lines of moves survive that (`BelowTree`, `OldPrefix`,
`OldKid`, `OldLine`, `OldBelow`).  With the conjunct that a thread which is
in no iteration is at the root, `GameTypes` and `TreeMovesInQuiet` follow: no move of
the game finds a thread in the tree, or a callback but of a request that failed.
Requests may fail as often as `MaxFails` allows, in all of these theorems; a game that
leaves a failed request at a move is followed to that move and no further.  `GamesAddUp`, `GamesTakeTurns` (any
number of threads), `GamesCoverLoss` and `GamesSelect` (one thread) carry the results of
`RolloutProofs` from one search to the whole game.

`GamesAreCounted` and `MovesToChooseFrom` have a hypothesis about every state of the
behaviour.  `SearchesOpen`: while a search goes on, the position at the root is not
decided (else rollouts are counted and add nothing); then `Tally` is `before` throughout,
with `CountInv` saying besides that nobody is in the tree while the loop reads commands.
`SearchesAsk`: besides, the line played does not repeat (else nobody asks for the root, and
`player_repeats` shows a search that ends without a move); then a thread that has gone
round its loop once has found the root asked for, and what was asked for has
children when the search is over and no request of it is left.  That last condition is in
`MoveToChoose` itself: when the request of the root has failed and waits to be sent
again, a move is chosen from a root without children, and the process exits.  Games without repetitions and decided positions
satisfy both, as that of `player_ponder` does.

**LifecycleProofs** (assumptions `ExecutorAssumption`, `LifecycleAssumption`).  The
invariant is `Inv`, seven parts.  `Typed` has the types and, for each step of the GTP
loop, that there is a player and how many rollouts are left to commit.  `Held`: the
player of the GTP loop is alive and none that a detached thread may delete.  `Rooted`:
its tree has a root, but after a resignation of its own, when no rollout is out.
`Sent`: the futures a player keeps are of its own rollouts, which were committed in
the search or the pondering at hand, down to the counter.  `Pooled`: each task is in
one place at most, in the queue, with one worker, or done, and then its future is
kept.  `Prompt`: while no detached thread was late, at most one player is on its way
out, and the threads of `play` will only reset what is the GTP loop's player's.  `Explained`: a
player or a root that is missing was resigned, and whoever meets one has a reason to;
where the process ends on purpose (`Dies`) is no part of the claim.  None of the
properties is inductive alone: that a rollout finds its player needs to know where the
GTP loop is, and that depends on what it has waited for.  From `Inv` follow
`RolloutsFindPlayerHolds`, `SearchesApartHolds`, `HandedOverSoundlyHolds` and
`NullUseExplainedHolds`; `RefinementHolds` shows step by step that the executor in the
hands of the GTP loop is a `TaskPool`, for which `Sent` and `Pooled` say that a task is
not committed twice.  `TypesHold` is the type invariant `LifeTypes`, which no run lists.

**TimePolicyProofs** (assumptions `TimeAssumption`, `BoundsAssumption`,
`NeedAssumption`, `FilesAssumption`).  `ClockLastsHolds` and `RolloutsLeftHolds`, with the default
parameters but for the threads (1 to 8), for every history and number of searches.
`RolloutsLeftHolds` also takes a clock below 1000 s, a game that is not a UEC one and measured
speeds up to 50000 (`ModestSpeeds`).  The code enforces neither the 8 threads nor the
speeds: with 9 threads 10 ms of the first speed are less than a rollout, and with
speeds above about 59700 the product may overflow.  Of `IInv`, `Timed` and `TimeKnown` say that a search is begun with the
engine's own time, whatever was reported of the opponent's; `Turns`, that the parity
of the moves is the turn; `Halving`, that a halved `safe_time` is still at least about
half of what is left; `Budgeted`, that the time-out in the shared field leaves enough
once the first thread has found one, whichever thread stores it again; `Measured` and
`Rolling` bound speeds and time-outs so that the product neither overflows nor
vanishes.  The arithmetic is in lemmas of its own (`EarlyLasts`, `LateLasts`,
`SharedLasts`, `SomeRollouts`).  `Need` is any table that satisfies `NeedAssumption`, a
recurrence for what the late searches of a UEC game lose to overrun and rounding;
the run computes one.

`SettingsMeantHolds` is about files of any length, in which sections and pairs come in any
order (`FilesAssumption` says only that a file is a sequence of `Lines`): by `SearchedIsHeaded`
the reader's search for a section ends at the heading that the section's lines
belong to, and by `GetMeans` a parameter gets the value that stands for it there.
`Unread` is the invariant: until it is read the file is one of `Files`.

Only model-checked: liveness (`EveryRequestAnswered`, `RolloutBreaks`, `StopReturns`,
`GenmoveAnswered`, `SearchAnswered`, `EstimateEnds`), because the prover has no rule for
`ENABLED`.  Each safety property of a passing run is stated by a theorem.  Where a theorem
needs one thread, a mode or a hypothesis on the game, it is said above what happens
without.

## What is not modelled

* **Self-play and dumps**: `selfplay_select_action` has no caller; `dump_best_move`,
  `dump_all_move`, `collect_tree_info` read the quiet tree and print it.
* **Executor**: `shutdown`, `restart` and the destructor, which nothing calls.
* **Evaluation queues**: `EvalQueue` and `EvalCycleQueue` are used by nothing.
* **Configuration**: writing a file and `GetStrings`, which nothing calls; the
  parameters that are not about time are CONSTANTS of the other modules.
* **Dangling locals**: the detached threads of `gen_apply_move` and `play` hold references
  to locals that may be gone (`res.node`, `nexts`, `id`); what they then touch is
  undefined, and the models let them run while the locals are there.
* **Go board**: rules and features are pachi's; the models use only repetition.
* **Symmetry, Latency, logging**: maps of the board that nobody calls, counters for
  the log, output.

## Plan

1. The end of a game in `Player`: two passes after move 300, a root with a result.
2. The early exit of the time policy reads `root->nexts` without looking at `eval_ready`
   (MCTSPlayer.cpp:173): a step of `Search` that reads what a callback is writing.
3. Proofs: which rollouts `LossCovered` leaves uncovered with two threads, as an exact
   account of the late visits (`invalid_visit` read too early); the bound of the queue
   in `Lifecycle`.
