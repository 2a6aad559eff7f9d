-------------------------------- MODULE Lifecycle --------------------------------
(***************************************************************************)
(* The players of a process: the GTP loop (src/Gtp.cpp) makes them, starts *)
(* and stops their rollouts on the executor, and deletes them, itself or   *)
(* in a detached thread; play (src/MCTSPlayer.cpp) hands parts of a player *)
(* to detached threads of its own.                                         *)
(*                                                                         *)
(* A rollout is a task that holds its player and ends at any time: its     *)
(* loop has a time-out, and a stop sets a flag that it sees.  The tree is  *)
(* only a root that is there or not.                                       *)
(***************************************************************************)
EXTENDS Executor

CONSTANTS SearchThreads,  \* Config::search_threads
          PondersToo,     \* Config::is_pondering
          MaxPlayers,     \* bound: players made
          MaxDetached     \* bound: detached threads at a time

Players  == 1..MaxPlayers
NoPlayer == 0
Rollouts(p) == {<<p, i>> : i \in 1..SearchThreads}

ASSUME LifecycleAssumption ==
    /\ SearchThreads \in Nat \ {0} /\ MaxPlayers \in Nat \ {0} /\ MaxDetached \in Nat
    /\ PondersToo \in BOOLEAN
    /\ Tasks = Players \X (1..SearchThreads)
    /\ Cardinality(Workers) = SearchThreads

VARIABLES
    cmd,          \* the command the GTP loop is in
    step,         \* where the GTP loop is in it
    todo,         \* rollouts still to commit
    lcmd,         \* is_lcmd_genmove
    mcts_player,  tmp_mcts_player,
    life,         \* what has become of each player
    root,  tmp,   \* whether these pointers of each player point to a node
    stop_rollout, \* of each player
    futures,      \* search_thread_vec of each player
    drops,        \* of each player: detached threads of play that will reset tmp
    fathers,      \* and those that will reset the father of the root
    recyclers,    \* detached threads of clear_board
    lagged,       \* the GTP loop came to what a detached thread was still to use
    resigned,     \* history: the game was resigned, and not begun again
    misused       \* history: a player that is no more was used, or deleted again

gtpVars == <<cmd, step, todo, lcmd, mcts_player, tmp_mcts_player>>
playerVars == <<life, root, tmp, stop_rollout, futures>>
detachedVars == <<drops, fathers, recyclers>>
historyVars == <<lagged, resigned, misused>>
vars == <<executorVars, gtpVars, playerVars, detachedVars, historyVars>>

Init ==
    /\ ExecutorInit
    /\ cmd = "none" /\ step = "initialize" /\ todo = 0 /\ lcmd = FALSE
    /\ mcts_player = NoPlayer /\ tmp_mcts_player = NoPlayer
    /\ life = [p \in Players |-> "unborn"]
    /\ root = [p \in Players |-> FALSE] /\ tmp = [p \in Players |-> FALSE]
    /\ stop_rollout = [p \in Players |-> FALSE]
    /\ futures = [p \in Players |-> {}]
    /\ drops = [p \in Players |-> 0] /\ fathers = [p \in Players |-> 0]
    /\ recyclers = {}
    /\ lagged = FALSE /\ resigned = FALSE /\ misused = FALSE

\* The GTP loop goes on in the command, or reads the next.
Goes(to) == step' = to /\ cmd' = IF to = "read" THEN "none" ELSE cmd

\* A detached thread of an earlier command has not run yet.
Behind == recyclers # {} \/ \E p \in Players : drops[p] + fathers[p] > 0
SumOf(f) == FoldFunction(LAMBDA n, m : n + m, 0, f)
Lags == lagged' = (lagged \/ Behind)

------------------------------------------------------------------------------
(* GTP: commands begin                                                      *)

\* GTP::initialize: a new player, when the executor is there.
Initialize ==
    /\ step = "initialize" /\ built
    /\ \E p \in Players :
          /\ life[p] = "unborn" /\ \A q \in 1..(p - 1) : life[q] # "unborn"
          /\ life' = [life EXCEPT ![p] = "alive"]
          /\ root' = [root EXCEPT ![p] = TRUE]
          /\ mcts_player' = p
    /\ lcmd' = FALSE /\ resigned' = FALSE
    /\ Goes("read")
    /\ UNCHANGED <<executorVars, todo, tmp_mcts_player, tmp, stop_rollout, futures,
                   detachedVars, lagged, misused>>

\* Commands that use the player without a test: a null pointer ends the process.
Uses == {"play", "resign", "genmove", "look"}
\* These detach a thread at most; clear_board needs a new player.
Detached == Cardinality(recyclers) + SumOf(drops) + SumOf(fathers)
RoomFor(c) ==
    /\ c \in {"play", "resign", "genmove", "clear"} => Detached < MaxDetached
    /\ c = "clear" => \E p \in Players : life[p] = "unborn"

ReadCommand(c) ==
    /\ step = "read" /\ RoomFor(c)
    /\ cmd' = IF c = "look" /\ mcts_player # NoPlayer THEN "none" ELSE c
    /\ step' = (IF mcts_player # NoPlayer THEN (IF c = "look" THEN "read" ELSE "stop")
            ELSE IF c \in Uses THEN "crash"
            ELSE IF c = "clear" THEN "initialize" ELSE "exit")
    /\ UNCHANGED <<executorVars, todo, lcmd, mcts_player, tmp_mcts_player, playerVars,
                   detachedVars, historyVars>>

\* stop_pondering: the futures are waited for and thrown away.  The fault does
\* not wait.
NotWaited(tasks) == TRUE
Waited(tasks) == tasks \subseteq done

StopPondering ==
    /\ step = "stop" /\ Waited(futures[mcts_player])
    /\ Collected(futures[mcts_player])
    /\ futures' = [futures EXCEPT ![mcts_player] = {}]
    /\ Goes(IF cmd \in {"play", "resign"} \/ (cmd = "genmove" /\ lcmd) THEN "play"
            ELSE IF cmd = "genmove" THEN "search"
            ELSE IF cmd = "clear" THEN "handover" ELSE "delete")
    /\ UNCHANGED <<todo, lcmd, mcts_player, tmp_mcts_player, life, root, tmp,
                   stop_rollout, detachedVars, historyVars>>

------------------------------------------------------------------------------
(* MCTSPlayer::play                                                         *)

\* What process_cmd_play and process_cmd_genmove do after play.
AfterPlay ==
    /\ Goes(IF cmd = "play" THEN "read" ELSE IF cmd = "resign" THEN "delete" ELSE "search")
    /\ lcmd' = (cmd = "genmove" /\ lcmd)

\* assert(root != NULL).  A step "crash" is a null player or root that was used.
PlayAsserts ==
    /\ step = "play" /\ ~root[mcts_player]
    /\ Goes("crash")
    /\ UNCHANGED <<executorVars, todo, lcmd, mcts_player, tmp_mcts_player, playerVars,
                   detachedVars, historyVars>>

PlayNothing ==
    /\ step = "play" /\ root[mcts_player] /\ stop_rollout[mcts_player]
    /\ AfterPlay
    /\ UNCHANGED <<executorVars, todo, mcts_player, tmp_mcts_player, playerVars,
                   detachedVars, historyVars>>

\* A move with a child: the child becomes the root.
PlayChild ==
    /\ step = "play" /\ root[mcts_player] /\ ~stop_rollout[mcts_player]
    /\ cmd # "resign"
    /\ fathers' = [fathers EXCEPT ![mcts_player] = @ + 1]
    /\ AfterPlay /\ Lags
    /\ UNCHANGED <<executorVars, todo, mcts_player, tmp_mcts_player, playerVars, drops,
                   recyclers, resigned, misused>>

\* Any other: tmp = a new node, and then root.swap(tmp); a detached thread resets
\* tmp, and the root's depth is set.
PlayNew ==
    /\ step = "play" /\ root[mcts_player] /\ ~stop_rollout[mcts_player]
    /\ tmp' = [tmp EXCEPT ![mcts_player] = TRUE]
    /\ Goes("swap") /\ Lags
    /\ UNCHANGED <<executorVars, todo, lcmd, mcts_player, tmp_mcts_player, life, root,
                   stop_rollout, futures, detachedVars, resigned, misused>>

PlaySwap ==
    /\ step = "swap"
    /\ root' = [root EXCEPT ![mcts_player] = tmp[mcts_player]]
    /\ tmp' = [tmp EXCEPT ![mcts_player] = root[mcts_player]]
    /\ drops' = [drops EXCEPT ![mcts_player] = @ + 1]
    /\ IF tmp[mcts_player] THEN AfterPlay ELSE Goes("crash") /\ UNCHANGED lcmd
    /\ UNCHANGED <<executorVars, todo, mcts_player, tmp_mcts_player, life, stop_rollout,
                   futures, fathers, recyclers, historyVars>>

------------------------------------------------------------------------------
(* gen_apply_move and start_pondering                                       *)

\* After move 200 of a UEC game gen_apply_move says pass, and nothing else.
SayPass ==
    /\ step = "search" /\ stop_rollout[mcts_player]
    /\ Goes("read") /\ lcmd' = TRUE
    /\ UNCHANGED <<executorVars, todo, mcts_player, tmp_mcts_player, playerVars,
                   detachedVars, historyVars>>

BeginSearch ==
    /\ step = "search" /\ ~stop_rollout[mcts_player]
    /\ Goes("commit") /\ todo' = SearchThreads
    /\ UNCHANGED <<executorVars, lcmd, mcts_player, tmp_mcts_player, playerVars,
                   detachedVars, historyVars>>

\* Executor::commit of a rollout, for the move or to ponder, and its notify_all.
Commit ==
    /\ step \in {"commit", "ponder"} /\ todo > 0
    /\ Queued(<<mcts_player, todo>>)
    /\ futures' = [futures EXCEPT ![mcts_player] = @ \cup {<<mcts_player, todo>>}]
    /\ Goes(IF step = "commit" THEN "notify" ELSE "notify_ponder")
    /\ UNCHANGED <<todo, lcmd, mcts_player, tmp_mcts_player, life, root, tmp,
                   stop_rollout, detachedVars, historyVars>>

Notify ==
    /\ step \in {"notify", "notify_ponder"}
    /\ NotifyAll
    /\ todo' = todo - 1
    /\ Goes(IF todo' > 0 THEN (IF step = "notify" THEN "commit" ELSE "ponder")
            ELSE (IF step = "notify" THEN "wait" ELSE "read"))
    /\ UNCHANGED <<lcmd, mcts_player, tmp_mcts_player, playerVars, detachedVars,
                   historyVars>>

\* gen_apply_move waits for the futures and chooses a move; its child becomes
\* the root.  After that pondering may start.
WaitSearch ==
    /\ step = "wait" /\ Waited(futures[mcts_player])
    /\ Collected(futures[mcts_player])
    /\ futures' = [futures EXCEPT ![mcts_player] = {}]
    /\ Goes("choose")
    /\ UNCHANGED <<todo, lcmd, mcts_player, tmp_mcts_player, life, root, tmp,
                   stop_rollout, detachedVars, historyVars>>

Ponders == PondersToo /\ ~stop_rollout[mcts_player]
ChooseMove ==
    /\ step = "choose"
    /\ IF Ponders THEN Goes("ponder") /\ todo' = SearchThreads
       ELSE Goes("read") /\ UNCHANGED todo
    /\ lcmd' = TRUE
    /\ UNCHANGED <<executorVars, mcts_player, tmp_mcts_player, playerVars, detachedVars,
                   historyVars>>

\* root.reset().
ChooseResign ==
    /\ step = "choose"
    /\ root' = [root EXCEPT ![mcts_player] = FALSE]
    /\ Goes("read") /\ lcmd' = TRUE
    /\ resigned' = TRUE /\ Lags
    /\ UNCHANGED <<executorVars, todo, mcts_player, tmp_mcts_player, life, tmp,
                   stop_rollout, futures, detachedVars, misused>>

\* est_timeout_rollout, in a rollout for a move, after move 200.
StopRollout(w) ==
    /\ place[w] = "run" /\ step \in {"commit", "notify", "wait"}
    /\ stop_rollout' = [stop_rollout EXCEPT ![task[w][1]] = TRUE]
    /\ UNCHANGED <<executorVars, gtpVars, life, root, tmp, futures, detachedVars, historyVars>>

------------------------------------------------------------------------------
(* Players are deleted                                                      *)

\* MCTSPlayer::~MCTSPlayer: the player and its pointers are gone.
Destroyed(p) ==
    /\ life' = [life EXCEPT ![p] = "dead"]
    /\ root' = [root EXCEPT ![p] = FALSE]
    /\ tmp' = [tmp EXCEPT ![p] = FALSE]
    /\ stop_rollout' = [stop_rollout EXCEPT ![p] = FALSE]
    /\ UNCHANGED futures

\* process_cmd_play of a resignation, process_cmd_quit: delete, then NULL.
Delete ==
    /\ step = "delete"
    /\ Destroyed(mcts_player)
    /\ mcts_player' = NoPlayer
    /\ IF cmd = "resign" THEN Goes("read") /\ resigned' = TRUE
       ELSE Goes("exit") /\ UNCHANGED resigned
    /\ lcmd' = FALSE /\ Lags
    /\ UNCHANGED <<executorVars, todo, tmp_mcts_player, detachedVars, misused>>

\* process_cmd_clearboard: the player goes to tmp_mcts_player, what was there
\* comes back and is overwritten; a detached thread will delete.  The fault
\* keeps the player that was swapped in.
Kept == "read"
AfterHandOver == "initialize"
HandOver ==
    /\ step = "handover"
    /\ tmp_mcts_player' = mcts_player
    /\ mcts_player' = NoPlayer
    /\ recyclers' = recyclers \cup {[of |-> mcts_player, what |-> NoPlayer, at |-> "begin"]}
    /\ Goes(AfterHandOver) /\ Lags
    /\ UNCHANGED <<executorVars, todo, lcmd, playerVars, drops, fathers, resigned, misused>>

\* The detached thread deletes what tmp_mcts_player points to when it runs; the
\* fault deletes through mcts_player.
ByName == mcts_player
Discarded == tmp_mcts_player

RecycleBegin(r) ==
    /\ r.at = "begin"
    /\ recyclers' = (recyclers \ {r}) \cup {[r EXCEPT !.what = Discarded, !.at = "delete"]}
    /\ IF Discarded = NoPlayer THEN UNCHANGED <<life, misused>>
       ELSE /\ life' = [life EXCEPT ![Discarded] = "dying"]
            /\ misused' = (misused \/ life[Discarded] # "alive")
    /\ UNCHANGED <<executorVars, gtpVars, root, tmp, stop_rollout, futures, drops, fathers,
                   lagged, resigned>>

RecycleDelete(r) ==
    /\ r.at = "delete"
    /\ IF r.what = NoPlayer THEN UNCHANGED playerVars ELSE Destroyed(r.what)
    /\ recyclers' = (recyclers \ {r}) \cup {[r EXCEPT !.at = "clear"]}
    /\ UNCHANGED <<executorVars, gtpVars, drops, fathers, historyVars>>

RecycleEnd(r) ==
    /\ r.at = "clear"
    /\ tmp_mcts_player' = NoPlayer
    /\ recyclers' = recyclers \ {r}
    /\ UNCHANGED <<executorVars, cmd, step, todo, lcmd, mcts_player, playerVars, drops,
                   fathers, historyVars>>

\* The detached threads of play.
Touched(p) == misused' = (misused \/ life[p] = "dead")

DropTmp(p) ==
    /\ drops[p] > 0
    /\ drops' = [drops EXCEPT ![p] = @ - 1]
    /\ tmp' = [tmp EXCEPT ![p] = FALSE]
    /\ Touched(p)
    /\ UNCHANGED <<executorVars, gtpVars, life, root, stop_rollout, futures, fathers,
                   recyclers, lagged, resigned>>

\* root->father.reset().
DropFather(p) ==
    /\ fathers[p] > 0
    /\ fathers' = [fathers EXCEPT ![p] = @ - 1]
    /\ Touched(p)
    /\ IF root[p] \/ life[p] = "dead" THEN UNCHANGED step ELSE step' = "crash"
    /\ UNCHANGED <<executorVars, cmd, todo, lcmd, mcts_player, tmp_mcts_player, playerVars,
                   drops, recyclers, lagged, resigned>>

------------------------------------------------------------------------------
(* The process ends on purpose                                              *)

\* exit(1), or an assertion on the board: a history that cannot be applied
\* (GoBoard::apply_history), a move of the opponent that is no move (play), a
\* search without a move to choose or with one that is no move
\* (mcts_select_action, gen_apply_move), and in a rollout a step that is no move,
\* or a node without a best child (mcts_select_path).
Dies ==
    /\ \/ step = "initialize" /\ built
       \/ /\ step = "play" /\ cmd = "play"
          /\ root[mcts_player] /\ ~stop_rollout[mcts_player]
       \/ step = "choose"
       \/ \E w \in Workers : place[w] = "run"
    /\ step' = "died"
    /\ UNCHANGED <<executorVars, cmd, todo, lcmd, mcts_player, tmp_mcts_player, playerVars,
                   detachedVars, historyVars>>

------------------------------------------------------------------------------
OnExecutor(A) == A /\ UNCHANGED <<gtpVars, playerVars, detachedVars, historyVars>>

Commands == {"play", "resign", "genmove", "look", "clear", "quit"}

GtpStep ==
    \/ Initialize \/ \E c \in Commands : ReadCommand(c)
    \/ StopPondering
    \/ PlayAsserts \/ PlayNothing \/ PlayChild \/ PlayNew \/ PlaySwap
    \/ SayPass \/ BeginSearch \/ Commit \/ Notify \/ WaitSearch
    \/ ChooseMove \/ ChooseResign
    \/ Delete \/ HandOver

ThreadStep ==
    \/ OnExecutor(Built)
    \/ \E w \in Workers : \/ OnExecutor(WorkerStep(w)) \/ OnExecutor(TaskReturns(w))
                          \/ StopRollout(w)
    \/ \E r \in recyclers : RecycleBegin(r) \/ RecycleDelete(r) \/ RecycleEnd(r)
    \/ \E p \in Players : DropTmp(p) \/ DropFather(p)

\* quit returns from main, and every thread ends with it; or the process has ended
\* on purpose, or by a null player or root.
\* When no worker got past the exit flag, the GTP loop waits for ever.
Over == step \in {"exit", "died", "crash"}
AllEnded == \A w \in Workers : place[w] = "ended"
Stuck == step = "wait" /\ AllEnded
Ended == (Over \/ Stuck) /\ UNCHANGED vars

Next == (~Over /\ (GtpStep \/ ThreadStep \/ Dies)) \/ Ended

Spec == Init /\ [][Next]_vars

\* The GTP loop goes on in a command, workers that are not ended run, and each
\* rollout ends (it has a time-out).
Fairness ==
    /\ WF_vars(step # "read" /\ ~Over /\ GtpStep)
    /\ WF_vars(~Over /\ OnExecutor(Built))
    /\ \A w \in Workers :
          /\ WF_vars(~Over /\ OnExecutor(Spawn(w) \/ TestExit(w) \/ GetBlock(w) \/ GetTask(w)))
          /\ WF_vars(~Over /\ OnExecutor(TaskReturns(w)))

LiveSpec == Spec /\ Fairness

------------------------------------------------------------------------------
(* Properties                                                               *)

GtpTypes ==
    /\ cmd \in Commands \cup {"none"}
    /\ step \in {"initialize", "read", "stop", "play", "swap", "search", "commit", "notify",
                 "wait", "choose", "ponder", "notify_ponder", "delete", "handover", "exit",
                 "died", "crash"}
    /\ todo \in 0..SearchThreads /\ lcmd \in BOOLEAN
    /\ mcts_player \in Players \cup {NoPlayer} /\ tmp_mcts_player \in Players \cup {NoPlayer}
PlayerTypes ==
    /\ life \in [Players -> {"unborn", "alive", "dying", "dead"}]
    /\ root \in [Players -> BOOLEAN] /\ tmp \in [Players -> BOOLEAN]
    /\ stop_rollout \in [Players -> BOOLEAN]
    /\ futures \in [Players -> SUBSET Tasks]
DetachedTypes ==
    /\ drops \in [Players -> Nat] /\ fathers \in [Players -> Nat]
    /\ recyclers \subseteq [of : Players, what : Players \cup {NoPlayer},
                            at : {"begin", "delete", "clear"}]
    /\ lagged \in BOOLEAN /\ resigned \in BOOLEAN /\ misused \in BOOLEAN

LifeTypes == ExecutorTypes /\ GtpTypes /\ PlayerTypes /\ DetachedTypes

\* Whatever deletes players, in this thread or a detached one, no rollout that is
\* queued or running has lost its player or the root of its tree.
Outstanding == RunningTasks \cup {queue[i] : i \in DOMAIN queue}
RolloutsFindPlayer ==
    ~Over => \A k \in Outstanding : life[k[1]] = "alive" /\ root[k[1]]

\* assert(search_thread_vec.size() == 0) of gen_apply_move, and more: when a search
\* begins the executor has no rollout left of any player.
SearchesApart == step = "search" => futures[mcts_player] = {} /\ Outstanding = {}

\* If each detached thread has run before the GTP loop next comes to a pointer
\* they share, no player is deleted twice, used after or left behind.
HandedOverSoundly ==
    ~lagged =>
        /\ ~misused
        /\ recyclers = {} => \A p \in Players : life[p] = "alive" => p = mcts_player

\* "any action after play resign will raise assert failure" (MCTSPlayer.cpp:430), and
\* nothing else does: commands and detached threads only meet a player that is
\* NULL, or a root that is, after a resignation, or where a detached thread came
\* late.  Where the process ends on purpose is another matter (Dies).
NullUseExplained == step = "crash" => resigned \/ lagged

\* Each rollout committed is run once, in order: the executor is a task pool.
Pool == INSTANCE TaskPool WITH waiting <- queue, running <- RunningTasks, ready <- done
Refinement == Pool!PoolSpec

\* A search for a move comes to its end, unless every worker has read the exit
\* flag before the constructor set it.
SearchAnswered == step = "wait" ~> step # "wait" \/ AllEnded
==============================================================================
