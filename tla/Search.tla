--------------------------------- MODULE Search ---------------------------------
(***************************************************************************)
(* One search over the shared tree (src/MCTSTree.cpp, MCTSPlayer::rollout, *)
(* server_evaluate and on_server_rollout_loop_over): threads select a leaf *)
(* and ask for its evaluation, callbacks expand the leaf and back the      *)
(* result up.  The tree has no lock.                                       *)
(*                                                                         *)
(* Scores are not modelled: any child that the selection scores may be the *)
(* best one; a selected move can always be made on the board (if not, the  *)
(* process ends).  The evaluator is the service of EvalService.tla: a      *)
(* request is answered once, at once or after failures, and one that       *)
(* failed does not count while it waits to be sent again.                  *)
(* is_terminate is left out: nothing in the program makes it true in a     *)
(* tree where it is false everywhere, as it is in a new one.               *)
(***************************************************************************)
EXTENDS Integers, Sequences, SequencesExt

CONSTANTS Threads,      \* search threads, each in one rollout
          Width,        \* moves the evaluator proposes at a position
          PassMove,     \* the one among them that is the pass
          Repeating,    \* lines of moves that repeat a position of the game
          Decided,      \* lines of moves at whose end the result is known
          Loss,         \* virtual_loss
          MaxRollouts,  \* dynamic_rollout
          MaxRounds,    \* bound: how often each thread goes round its loop
          IceThreads,   \* threads of the Ice client pool, which run the callbacks
          MaxFails      \* bound: how often one request fails

Moves == 1..Width

ASSUME SearchAssumption ==
    /\ IsFiniteSet(Threads) /\ Threads # {}
    /\ Width \in Nat \ {0} /\ PassMove \in Moves
    /\ Repeating \subseteq Seq(Moves) /\ Decided \subseteq Seq(Moves)
    /\ Loss \in Nat \ {0} /\ MaxFails \in Nat
    /\ MaxRollouts \in Nat /\ MaxRounds \in [Threads -> Nat] /\ IceThreads \in Nat \ {0}

\* A pass puts no stone on the board, so no line repeats at a pass
\* (GoBoard::apply_move calls _apply_move for other moves only).
ASSUME PassNeverRepeats ==
    \A line \in Repeating : line # <<>> => line[Len(line)] # PassMove

VARIABLES
    tree,    \* the nodes made so far with their edges from above
    pc,      \* where each thread is in rollout
    at,      \* the node each thread has come to: cur_node, then leaf
    counted, \* each thread's rollout_in_turn
    rounds,  \* how often each thread has gone round its loop
    jobs,    \* requests that the evaluator has, and their callbacks
    played,  \* the moves of the game so far, in root_board
    own,     \* max = 1: a search for the engine's own move, not pondering
    above    \* root->father can still be locked

gameVars == <<played, own, above>>
vars == <<tree, pc, at, counted, rounds, jobs, gameVars>>

\* A node is named by its path: at each level the place of the child in nexts
\* and which of the vectors that nexts has pointed to it is in.
Root == <<>>
Father(x) == Front(x)
Line(x) == played \o [i \in DOMAIN x |-> x[i][1]]
KidsOf(x, gen) == {Append(x, <<i, gen>>) : i \in Moves}
Kid(x, i) == Append(x, <<i, tree[x].gen>>)

\* Node and Edge as their constructors leave them.  gen counts the vectors
\* nexts has pointed to: it is NULL while gen is 0.
NewNode == [rq_sent |-> FALSE, eval_ready |-> FALSE, is_repetition |-> FALSE, gen |-> 0,
            invalid_visit |-> 0, total_n |-> 0, n |-> 0, vl |-> 0]

NewTree == [x \in {Root} |-> NewNode]

Init ==
    /\ tree = NewTree
    /\ played = <<>> /\ own = TRUE /\ above = FALSE
    /\ pc = [t \in Threads |-> "top"]
    /\ at = [t \in Threads |-> Root]
    /\ counted = [t \in Threads |-> 0]
    /\ rounds = [t \in Threads |-> 0]
    /\ jobs = {}

Go(t, step) == pc' = [pc EXCEPT ![t] = step]

\* The next iteration: the leaf of this one is a local of the loop.
Again(t) == Go(t, "top") /\ at' = [at EXCEPT ![t] = Root]

------------------------------------------------------------------------------
(* mcts_back_update, by a thread or a callback                              *)

\* The walk goes on while there is a father: up to the root, and one level more
\* while the root's old father is not yet reset.
HasFather(x) == x # Root \/ above

\* The loss of a visit and of its invalid visits is taken back, and the edge
\* has one visit more, in one step: vl and n are atomic each, and a selection
\* that reads them between the two sees another score only.  The fault counts
\* the visit itself twice.
LossTwice(invalid) == (invalid + 2) * Loss
TakenBack(invalid) == (invalid + 1) * Loss

UpdateEdge(x, invalid) ==
    tree' = [tree EXCEPT ![x].vl = @ - TakenBack(invalid), ![x].n = @ + 1]

\* Then the father has one visit more; the root's is no node of the tree.  The
\* faults add it before the walk goes up, and take it away.
TotalOfSelf(x) == tree' = [tree EXCEPT ![x].total_n = @ + 1]
TotalUndone(x) ==
    IF x = Root THEN UNCHANGED tree ELSE tree' = [tree EXCEPT ![Father(x)].total_n = @ - 1]
UpdateTotal(x) ==
    IF x = Root THEN UNCHANGED tree ELSE tree' = [tree EXCEPT ![Father(x)].total_n = @ + 1]
OneLevel(x) == FALSE
GoesOn(x) == x # Root /\ HasFather(Father(x))

------------------------------------------------------------------------------
(* The loop of rollout                                                      *)

\* The loop ends on its time-out, its number of rollouts, an exit flag or the
\* early exit of the time policy; but for the number, any time will do.
Break(t) ==
    /\ pc[t] = "top"
    /\ Go(t, "poll")
    /\ UNCHANGED <<tree, at, counted, rounds, jobs, gameVars>>

Round(t) ==
    /\ pc[t] = "top"
    /\ counted[t] < MaxRollouts
    /\ rounds[t] < MaxRounds[t]
    /\ rounds' = [rounds EXCEPT ![t] = @ + 1]
    /\ Go(t, "wait")
    /\ UNCHANGED <<tree, at, counted, jobs, gameVars>>

\* The root is expanded, or nobody has asked for it yet.
\* The fault waits for it although nobody has asked.
NotReady == ~tree[Root].eval_ready
RootAwaited == tree[Root].rq_sent /\ ~tree[Root].eval_ready

AwaitRoot(t) ==
    /\ pc[t] = "wait"
    /\ ~RootAwaited
    /\ Go(t, "select")
    /\ UNCHANGED <<tree, at, counted, rounds, jobs, gameVars>>

------------------------------------------------------------------------------
(* mcts_select_path_root and mcts_select_path, one level at a time          *)

\* Children that the root leaves out when the rollouts that remain could not
\* lift them to the most visited one.
PruneBelow(t) ==
    LET visits == {tree[Kid(Root, i)].n : i \in Moves}
        most   == CHOOSE m \in visits : \A v \in visits : v <= m
        below  == most - (MaxRollouts - counted[t])
    IN  IF own /\ below > -1 THEN below ELSE -1

\* The fault prunes at every level.
PrunedEverywhere(t, x, i) ==
    tree[Kid(x, i)].is_repetition \/ tree[Kid(x, i)].n < PruneBelow(t)
Skipped(t, x, i) ==
    \/ tree[Kid(x, i)].is_repetition
    \/ x = Root /\ tree[Kid(x, i)].n < PruneBelow(t)

\* The children with a score: the scan goes no further than the first child
\* without a visit; the fault goes through them all.
AllScored(t, x) == {i \in Moves : ~Skipped(t, x, i)}
Scored(t, x) ==
    {i \in Moves : /\ ~Skipped(t, x, i)
                   /\ \A j \in 1..(i - 1) : Skipped(t, x, j) \/ tree[Kid(x, j)].n # 0}

\* The score divides w - vl * max by n + vl, which is 0 only if more virtual loss
\* was taken back than given.  It is then no number where every visit was lost
\* (w = -n * max), and infinite else; w is not modelled, and either may be.
Scores(x, i) == LET e == tree[Kid(x, i)] IN e.n = 0 \/ e.n + e.vl # 0

Select(t) ==
    /\ pc[t] = "select"
    /\ tree[at[t]].eval_ready
    /\ \E i \in Scored(t, at[t]) :
          LET best == Kid(at[t], i)
          IN  /\ tree' = [tree EXCEPT ![best].vl = @ + Loss]
              /\ at' = [at EXCEPT ![t] = best]
    /\ UNCHANGED <<pc, counted, rounds, jobs, gameVars>>

\* The node is not expanded; or the root has no best child.
SelectEnds(t) ==
    /\ pc[t] = "select"
    /\ \/ ~tree[at[t]].eval_ready
       \/ /\ tree[at[t]].eval_ready /\ at[t] = Root
          /\ \A i \in Scored(t, Root) : ~Scores(Root, i)
    /\ Go(t, "leaf")
    /\ UNCHANGED <<tree, at, counted, rounds, jobs, gameVars>>

\* Below the root no best child is a null pointer, and the process ends.
SelectNothing(t) ==
    /\ pc[t] = "select"
    /\ tree[at[t]].eval_ready /\ at[t] # Root
    /\ \A i \in Scored(t, at[t]) : ~Scores(at[t], i)
    /\ Go(t, "crash")
    /\ UNCHANGED <<tree, at, counted, rounds, jobs, gameVars>>

------------------------------------------------------------------------------
(* The leaf                                                                 *)

Repeats(x) == \E line \in Repeating : IsPrefix(line, Line(x))

\* The line repeats: the loop goes on, and the virtual loss stays.
LeafRepeats(t) ==
    /\ pc[t] = "leaf"
    /\ Repeats(at[t])
    /\ tree' = [tree EXCEPT ![at[t]].is_repetition = TRUE]
    /\ Again(t)
    /\ UNCHANGED <<counted, rounds, jobs, gameVars>>

\* The result is known: the thread backs it up itself.
LeafDecided(t) ==
    /\ pc[t] = "leaf"
    /\ ~Repeats(at[t])
    /\ Line(at[t]) \in Decided
    /\ tree' = [tree EXCEPT ![at[t]].is_repetition = FALSE]
    /\ counted' = [counted EXCEPT ![t] = @ + 1]
    /\ IF HasFather(at[t]) THEN Go(t, "edge") /\ UNCHANGED at ELSE Again(t)
    /\ UNCHANGED <<rounds, jobs, gameVars>>

LeafOpen(t) ==
    /\ pc[t] = "leaf"
    /\ ~Repeats(at[t])
    /\ Line(at[t]) \notin Decided
    /\ tree' = [tree EXCEPT ![at[t]].is_repetition = FALSE]
    /\ Go(t, "test")
    /\ UNCHANGED <<at, counted, rounds, jobs, gameVars>>

\* server_evaluate reads rq_sent, and sets it in a later step (with
\* rollout_in_turn++ and the call of the evaluator); the fault reads nothing.
NotTested(x) == FALSE
SentBefore(x) == tree[x].rq_sent

Test(t) ==
    /\ pc[t] = "test"
    /\ Go(t, IF SentBefore(at[t]) THEN "late" ELSE "send")
    /\ UNCHANGED <<tree, at, counted, rounds, jobs, gameVars>>

Send(t) ==
    /\ pc[t] = "send"
    /\ counted' = [counted EXCEPT ![t] = @ + 1]
    /\ tree' = [tree EXCEPT ![at[t]].rq_sent = TRUE]
    /\ jobs' = jobs \cup {[leaf |-> at[t], by |-> t, step |-> "asked", now |-> at[t],
                           invalid |-> 0, failed |-> 0]}
    /\ Again(t)
    /\ UNCHANGED <<rounds, gameVars>>

\* Somebody has asked before: the visit is invalid, and the callback takes its
\* virtual loss back.
Late(t) ==
    /\ pc[t] = "late"
    /\ tree' = [tree EXCEPT ![at[t]].invalid_visit = @ + 1]
    /\ Again(t)
    /\ UNCHANGED <<counted, rounds, jobs, gameVars>>

------------------------------------------------------------------------------
(* The thread backs up a result that is known                               *)

ThreadEdge(t) ==
    /\ pc[t] = "edge"
    /\ UpdateEdge(at[t], 0)
    /\ Go(t, "total")
    /\ UNCHANGED <<at, counted, rounds, jobs, gameVars>>

ThreadTotal(t) ==
    /\ pc[t] = "total"
    /\ UpdateTotal(at[t])
    /\ IF GoesOn(at[t]) THEN Go(t, "edge") /\ at' = [at EXCEPT ![t] = Father(@)]
       ELSE Again(t)
    /\ UNCHANGED <<counted, rounds, jobs, gameVars>>

------------------------------------------------------------------------------
(* The evaluator and the callback that server_evaluate gives it             *)

Becomes(j, k) == jobs' = (jobs \ {j}) \cup {k}
StepTo(j, step) == Becomes(j, [j EXCEPT !.step = step])

\* A failed request is taken out of get_pending, and put back later; the fault
\* forgets it.
Aside(j) ==
    /\ j.step = "asked" /\ j.failed < MaxFails
    /\ Becomes(j, [j EXCEPT !.step = "aside", !.failed = @ + 1])
    /\ UNCHANGED <<tree, pc, at, counted, rounds, gameVars>>

RetryLost(j) ==
    /\ j.step = "aside"
    /\ jobs' = jobs \ {j}
    /\ UNCHANGED <<tree, pc, at, counted, rounds, gameVars>>

Retry(j) ==
    /\ j.step = "aside"
    /\ StepTo(j, "asked")
    /\ UNCHANGED <<tree, pc, at, counted, rounds, gameVars>>

\* nexts points to a new vector of new nodes.  A reply holds the pass, which is
\* kept whatever its probability, so the vector is never empty.
NewKids(x) == KidsOf(x, tree[x].gen + 1)

Running == {j \in jobs : j.step \notin {"asked", "aside"}}

\* The fault leaves nexts NULL.
KidsForgotten(j) ==
    /\ j.step = "asked"
    /\ StepTo(j, "flag")
    /\ UNCHANGED <<tree, pc, at, counted, rounds, gameVars>>

Expand(j) ==
    /\ j.step = "asked"
    /\ Cardinality(Running) < IceThreads
    /\ tree' = [x \in DOMAIN tree \cup NewKids(j.leaf) |->
                   IF x \in NewKids(j.leaf) THEN NewNode
                   ELSE IF x = j.leaf THEN [tree[x] EXCEPT !.gen = @ + 1]
                   ELSE tree[x]]
    /\ StepTo(j, "flag")
    /\ UNCHANGED <<pc, at, counted, rounds, gameVars>>

SetReady(j) ==
    /\ j.step = "flag"
    /\ tree' = [tree EXCEPT ![j.leaf].eval_ready = TRUE]
    /\ StepTo(j, "read")
    /\ UNCHANGED <<pc, at, counted, rounds, gameVars>>

\* leaf->invalid_visit is read once, for the whole way up.
ReadInvalid(j) ==
    /\ j.step = "read"
    /\ Becomes(j, [j EXCEPT !.invalid = tree[j.leaf].invalid_visit,
                            !.step = IF HasFather(j.leaf) THEN "edge" ELSE "end"])
    /\ UNCHANGED <<tree, pc, at, counted, rounds, gameVars>>

JobEdge(j) ==
    /\ j.step = "edge"
    /\ UpdateEdge(j.now, j.invalid)
    /\ StepTo(j, "total")
    /\ UNCHANGED <<pc, at, counted, rounds, gameVars>>

JobTotal(j) ==
    /\ j.step = "total"
    /\ UpdateTotal(j.now)
    /\ IF GoesOn(j.now) THEN Becomes(j, [j EXCEPT !.now = Father(@), !.step = "edge"])
       ELSE StepTo(j, "end")
    /\ UNCHANGED <<pc, at, counted, rounds, gameVars>>

\* pending-- after the callback.
Retire(j) ==
    /\ j.step = "end"
    /\ jobs' = jobs \ {j}
    /\ UNCHANGED <<tree, pc, at, counted, rounds, gameVars>>

\* get_pending.
Pending == Cardinality({j \in jobs : j.step # "aside"})

\* on_server_rollout_loop_over; the fault does not wait.
NotAwaited == TRUE
NoneLeft == ~(Pending > 0)

Over(t) ==
    /\ pc[t] = "poll"
    /\ NoneLeft
    /\ Go(t, "over")
    /\ UNCHANGED <<tree, at, counted, rounds, jobs, gameVars>>

------------------------------------------------------------------------------
ThreadStep(t) ==
    \/ Break(t) \/ Round(t) \/ AwaitRoot(t)
    \/ Select(t) \/ SelectEnds(t) \/ SelectNothing(t)
    \/ LeafRepeats(t) \/ LeafDecided(t) \/ LeafOpen(t)
    \/ Test(t) \/ Send(t) \/ Late(t)
    \/ ThreadEdge(t) \/ ThreadTotal(t) \/ Over(t)

CallbackStep(j) ==
    \/ Expand(j) \/ SetReady(j) \/ ReadInvalid(j)
    \/ JobEdge(j) \/ JobTotal(j) \/ Retire(j)

Crashed == \E t \in Threads : pc[t] = "crash"
AllOver == \A t \in Threads : pc[t] = "over"
Ended == (Crashed \/ (AllOver /\ jobs = {})) /\ UNCHANGED vars

Next ==
    \/ /\ ~Crashed
       /\ \/ \E t \in Threads : ThreadStep(t)
          \/ \E j \in jobs : CallbackStep(j) \/ Aside(j) \/ Retry(j)
    \/ Ended

Spec == Init /\ [][Next]_vars

------------------------------------------------------------------------------
(* Properties                                                               *)

NodeType ==
    [rq_sent : BOOLEAN, eval_ready : BOOLEAN, is_repetition : BOOLEAN, gen : Nat,
     invalid_visit : Nat, total_n : Nat, n : Nat, vl : Int]

Paths == Seq(Moves \X (Nat \ {0}))

TypeOK ==
    /\ DOMAIN tree \subseteq Paths /\ Root \in DOMAIN tree
    /\ tree \in [DOMAIN tree -> NodeType]
    /\ pc \in [Threads -> {"top", "wait", "select", "crash", "leaf", "test", "send",
                           "late", "edge", "total", "poll", "over"}]
    /\ at \in [Threads -> DOMAIN tree]
    /\ counted \in [Threads -> Nat]
    /\ rounds \in [Threads -> Nat]
    /\ played \in Seq(Moves) /\ own \in BOOLEAN /\ above \in BOOLEAN
    /\ jobs \subseteq [leaf : DOMAIN tree, by : Threads, now : DOMAIN tree, invalid : Nat,
                       failed : 0..MaxFails,
                       step : {"asked", "aside", "flag", "read", "edge", "total", "end"}]

\* A node that a thread may walk through has its children: nexts is assigned
\* before eval_ready (the mfence of the callback in server_evaluate).
ReadyHasKids == \A x \in DOMAIN tree : tree[x].eval_ready => tree[x].gen > 0

\* With one search thread a leaf is sent once, and its children are made once
\* and never replaced, though the callback changes it while the thread walks by.
SentOnce ==
    \A x \in DOMAIN tree :
        /\ tree[x].gen <= 1
        /\ Cardinality({j \in jobs : j.leaf = x}) <= 1

\* The losses still to be taken back at the edge above k: a job below k takes
\* back that of its visit and of the invalid ones it has read or will read.
OnWay(k, x) == k # Root /\ IsPrefix(k, x)
Debtors(k) ==
    {j \in jobs : \/ j.step \notin {"total", "end"} /\ OnWay(k, j.now)
                  \/ j.step = "total" /\ j.now # Root /\ OnWay(k, Father(j.now))}
DebtOf(j) ==
    1 + (IF j.step \in {"edge", "total"} THEN j.invalid ELSE tree[j.leaf].invalid_visit)
Walkers(k) ==
    {t \in Threads : \/ pc[t] \in {"select", "leaf", "test", "send", "late", "edge"} /\ OnWay(k, at[t])
                     \/ pc[t] = "total" /\ at[t] # Root /\ OnWay(k, Father(at[t]))}

\* With one search thread the virtual loss of an edge covers every visit that
\* is under way below it, so it is never below 0 and score (MCTSTree.h:52) never
\* divides by 0, whenever the callback reads invalid_visit.
LossCovered ==
    \A k \in DOMAIN tree \ {Root} :
        tree[k].vl >= Loss * (Cardinality(Walkers(k)) + MapThenSumSet(DebtOf, Debtors(k)))

\* No two children of a node wait for their first visit to be backed up: the
\* scan of the selection ends at the first one that does.
OneKidInFlight ==
    \A x \in DOMAIN tree :
        tree[x].gen > 0 =>
            Cardinality({i \in Moves : tree[Kid(x, i)].rq_sent /\ tree[Kid(x, i)].n = 0}) <= 1

\* total_n of a node is the visits of its edges, old vectors of children
\* included, but for those whose back-update is between the two additions.
Rising(x) ==
    Cardinality({j \in jobs : j.step = "total" /\ j.now # Root /\ Father(j.now) = x})
        + Cardinality({t \in Threads : pc[t] = "total" /\ at[t] # Root /\ Father(at[t]) = x})
Visits(k) == tree[k].n
VisitsAddUp ==
    \A x \in DOMAIN tree :
        tree[x].total_n + Rising(x)
            = MapThenSumSet(Visits, {k \in DOMAIN tree \ {Root} : Father(k) = x})

\* When the rollouts are over, each one they counted has become one visit of
\* the root's edges, or was the evaluation of the root.
Counted(t) == counted[t]
RolloutsCounted ==
    AllOver /\ jobs = {} =>
        tree[Root].total_n + tree[Root].gen = MapThenSumSet(Counted, Threads)

\* Rollouts that have waited for get_pending leave no request behind, but for
\* those that failed: they are not counted while they wait to be sent again, and
\* their callbacks come later.
LeftOnlyFailed == AllOver => \A j \in jobs : j.failed > 0

\* Below the root the selection always has a child to go to: "wired score thus
\* no best child is selected" (MCTSTree.cpp:207) does not happen.
SelectionSafe == ~Crashed

\* "it should never happend" (MCTSTree.cpp:289), that nexts is NULL when a move
\* is chosen: a search that has gone round its loop has expanded the root.
RootExpanded == AllOver /\ (\E t \in Threads : rounds[t] > 0) => tree[Root].gen > 0
==============================================================================
