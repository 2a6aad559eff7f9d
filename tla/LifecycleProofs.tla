----------------------------- MODULE LifecycleProofs -----------------------------
(***************************************************************************)
(* What Lifecycle promises, proved for any number of workers, players and  *)
(* detached threads.                                                       *)
(***************************************************************************)
EXTENDS Lifecycle, SequenceTheorems, TLAPS

------------------------------------------------------------------------------
(* Types                                                                    *)

LEMMA SomeThreads == SearchThreads \in Nat /\ SearchThreads > 0
BY LifecycleAssumption

LEMMA TypesInit == Init => LifeTypes
<1> SUFFICES ASSUME Init PROVE LifeTypes
    OBVIOUS
<1>1. ExecutorTypes
    <2>1. place \in [Workers -> {"unborn", "test", "get", "asleep", "run", "ended"}]
        BY DEF Init, ExecutorInit
    <2>2. task \in [Workers -> Tasks \cup {NoTask}]
        BY DEF Init, ExecutorInit
    <2>3. queue \in Seq(Tasks)
        BY DEF Init, ExecutorInit
    <2> QED
        BY <2>1, <2>2, <2>3 DEF Init, ExecutorInit, ExecutorTypes
<1>2. GtpTypes
    <2>1. todo \in 0..SearchThreads
        BY SomeThreads DEF Init
    <2>2. lcmd \in BOOLEAN
        BY DEF Init
    <2> QED
        BY <2>1, <2>2 DEF Init, GtpTypes
<1>3. PlayerTypes
    BY DEF Init, PlayerTypes
<1>4. DetachedTypes
    BY DEF Init, DetachedTypes
<1> QED
    BY <1>1, <1>2, <1>3, <1>4 DEF LifeTypes

\* What the other threads leave to the GTP loop.
LEMMA ThreadLeaves ==
    ASSUME ThreadStep
    PROVE  /\ UNCHANGED <<cmd, todo, lcmd, mcts_player, futures, lagged, resigned>>
           /\ step' \in {step, "crash"}
           /\ tmp_mcts_player' \in {tmp_mcts_player, NoPlayer}
<1>2. CASE \E w \in Workers : StopRollout(w)
    BY <1>2 DEF StopRollout, gtpVars, historyVars
<1>3. CASE \E r \in recyclers : RecycleBegin(r) \/ RecycleDelete(r) \/ RecycleEnd(r)
    BY <1>3 DEF RecycleBegin, RecycleDelete, RecycleEnd, Destroyed, gtpVars, playerVars, historyVars
<1>4. CASE \E p \in Players : DropTmp(p) \/ DropFather(p)
    BY <1>4 DEF DropTmp, DropFather, gtpVars, playerVars, historyVars
<1>5. CASE OnExecutor(Built) \/ \E w \in Workers : OnExecutor(WorkerStep(w)) \/ OnExecutor(TaskReturns(w))
    BY <1>5 DEF OnExecutor, gtpVars, playerVars, historyVars
<1> QED
    BY <1>2, <1>3, <1>4, <1>5 DEF ThreadStep

\* At these steps there is a player.
Playing ==
    step \in {"stop", "play", "swap", "search", "commit", "notify", "wait", "choose",
              "ponder", "notify_ponder", "delete", "handover"} => mcts_player \in Players

LEMMA PlayingStep ==
    ASSUME GtpTypes, Playing, GtpStep \/ ThreadStep
    PROVE  Playing'
<1> USE DEF Playing, GtpTypes, Goes, NoPlayer
<1>1. CASE Initialize
    BY <1>1 DEF Initialize
<1>2. ASSUME NEW c \in Commands, ReadCommand(c) PROVE Playing'
    BY <1>2 DEF ReadCommand
<1>3. CASE StopPondering
    BY <1>3 DEF StopPondering
<1>4. CASE PlayAsserts \/ PlayNothing \/ PlayChild \/ PlayNew \/ PlaySwap
    BY <1>4 DEF PlayAsserts, PlayNothing, PlayChild, PlayNew, PlaySwap, AfterPlay
<1>5. CASE SayPass \/ BeginSearch \/ Commit \/ Notify
    BY <1>5 DEF SayPass, BeginSearch, Commit, Notify
<1>6. CASE WaitSearch \/ ChooseMove \/ ChooseResign
    BY <1>6 DEF WaitSearch, ChooseMove, ChooseResign
<1>7. CASE Delete \/ HandOver
    BY <1>7 DEF Delete, HandOver, AfterHandOver
<1>8. CASE ThreadStep
    BY <1>8, ThreadLeaves
<1> QED
    BY <1>1, <1>2, <1>3, <1>4, <1>5, <1>6, <1>7, <1>8 DEF GtpStep

\* The GTP loop's own variables, part by part.
CommandTypes ==
    /\ cmd \in Commands \cup {"none"}
    /\ step \in {"initialize", "read", "stop", "play", "swap", "search", "commit", "notify",
                 "wait", "choose", "ponder", "notify_ponder", "delete", "handover", "exit",
                 "died", "crash"}
    /\ step \in {"play", "swap"} => cmd \in {"play", "resign", "genmove"}
    /\ mcts_player \in Players \cup {NoPlayer} /\ tmp_mcts_player \in Players \cup {NoPlayer}

LEMMA CommandTypesStep ==
    ASSUME CommandTypes, Playing, GtpStep \/ ThreadStep
    PROVE  CommandTypes'
<1> USE DEF Playing, CommandTypes, Goes, NoPlayer, Commands
<1>1. CASE Initialize
    BY <1>1 DEF Initialize
<1>2. ASSUME NEW c \in Commands, ReadCommand(c) PROVE CommandTypes'
    BY <1>2 DEF ReadCommand
<1>3. CASE StopPondering
    BY <1>3 DEF StopPondering
<1>4. CASE PlayAsserts \/ PlayNothing \/ PlayChild \/ PlayNew
    <2>1. step = "play" /\ UNCHANGED <<mcts_player, tmp_mcts_player>> /\ mcts_player \in Players
        BY <1>4 DEF PlayAsserts, PlayNothing, PlayChild, PlayNew
    <2>2. cmd' \in {cmd, "none"} /\ step' \in {"crash", "swap", "read", "delete", "search"}
             /\ (step' = "swap" => cmd' = cmd)
        BY <1>4 DEF PlayAsserts, PlayNothing, PlayChild, PlayNew, AfterPlay
    <2> QED
        BY <2>1, <2>2
<1>5. CASE PlaySwap
    BY <1>5 DEF PlaySwap, AfterPlay
<1>6. CASE SayPass \/ BeginSearch \/ Commit \/ Notify
    BY <1>6 DEF SayPass, BeginSearch, Commit, Notify
<1>7. CASE WaitSearch \/ ChooseMove \/ ChooseResign
    BY <1>7 DEF WaitSearch, ChooseMove, ChooseResign
<1>8. CASE Delete \/ HandOver
    BY <1>8 DEF Delete, HandOver, AfterHandOver
<1>9. CASE ThreadStep
    BY <1>9, ThreadLeaves
<1> QED
    BY <1>1, <1>2, <1>3, <1>4, <1>5, <1>6, <1>7, <1>8, <1>9 DEF GtpStep

CountTypes == todo \in 0..SearchThreads
Counting ==
    step \in {"commit", "ponder", "notify", "notify_ponder"} => todo \in 1..SearchThreads

LEMMA CountingStep ==
    ASSUME CountTypes, Counting, GtpStep \/ ThreadStep
    PROVE  CountTypes' /\ Counting'
<1> USE SomeThreads DEF Counting, CountTypes, Goes
<1>1. CASE Initialize \/ \E c \in Commands : ReadCommand(c)
    <2>1. todo' = todo /\ step' \in {"read", "stop", "crash", "initialize", "exit"}
        BY <1>1 DEF Initialize, ReadCommand
    <2> QED
        BY <2>1
<1>2. CASE StopPondering \/ PlayAsserts \/ PlayNothing \/ PlayChild \/ PlayNew \/ PlaySwap
    <2>1. todo' = todo
        BY <1>2 DEF StopPondering, PlayAsserts, PlayNothing, PlayChild, PlayNew, PlaySwap
    <2>2. step' \in {"play", "search", "handover", "delete", "crash", "swap", "read"}
        BY <1>2 DEF StopPondering, PlayAsserts, PlayNothing, PlayChild, PlayNew, PlaySwap, AfterPlay
    <2> QED
        BY <2>1, <2>2
<1>3. CASE SayPass \/ BeginSearch \/ Commit
    BY <1>3 DEF SayPass, BeginSearch, Commit
<1>4. CASE Notify
    BY <1>4 DEF Notify
<1>5. CASE WaitSearch \/ ChooseMove \/ ChooseResign
    BY <1>5 DEF WaitSearch, ChooseMove, ChooseResign
<1>6. CASE Delete \/ HandOver
    BY <1>6 DEF Delete, HandOver, AfterHandOver
<1>7. CASE ThreadStep
    BY <1>7, ThreadLeaves
<1> QED
    BY <1>1, <1>2, <1>3, <1>4, <1>5, <1>6, <1>7 DEF GtpStep

\* What each step does to the executor.
LEMMA ExecutorSteps ==
    ASSUME GtpStep \/ ThreadStep
    PROVE  \/ UNCHANGED executorVars
           \/ Commit \/ Notify \/ StopPondering \/ WaitSearch
           \/ OnExecutor(Built)
           \/ \E w \in Workers : OnExecutor(WorkerStep(w)) \/ OnExecutor(TaskReturns(w))
<1>1. CASE Initialize \/ \E c \in Commands : ReadCommand(c)
    BY <1>1 DEF Initialize, ReadCommand
<1>2. CASE PlayAsserts \/ PlayNothing \/ PlayChild \/ PlayNew \/ PlaySwap
    BY <1>2 DEF PlayAsserts, PlayNothing, PlayChild, PlayNew, PlaySwap
<1>3. CASE SayPass \/ BeginSearch \/ ChooseMove \/ ChooseResign \/ Delete \/ HandOver
    BY <1>3 DEF SayPass, BeginSearch, ChooseMove, ChooseResign, Delete, HandOver
<1>4. CASE \E w \in Workers : StopRollout(w)
    BY <1>4 DEF StopRollout
<1>5. CASE \E r \in recyclers : RecycleBegin(r) \/ RecycleDelete(r) \/ RecycleEnd(r)
    BY <1>5 DEF RecycleBegin, RecycleDelete, RecycleEnd
<1>6. CASE \E p \in Players : DropTmp(p) \/ DropFather(p)
    BY <1>6 DEF DropTmp, DropFather
<1> QED
    BY <1>1, <1>2, <1>3, <1>4, <1>5, <1>6 DEF GtpStep, ThreadStep

LEMMA TheTask ==
    ASSUME CommandTypes, Playing, CountTypes, Counting, Commit
    PROVE  <<mcts_player, todo>> \in Tasks
<1>1. mcts_player \in Players
    BY DEF Commit, Playing
<1>2. todo \in 1..SearchThreads
    BY DEF Commit, Counting
<1> QED
    BY <1>1, <1>2, LifecycleAssumption

\* A worker that runs has a task.
Occupied == \A w \in Workers : place[w] = "run" => task[w] \in Tasks

LEMMA ExecutorTypesStep ==
    ASSUME ExecutorTypes, Occupied, CommandTypes, Playing, CountTypes, Counting,
           GtpStep \/ ThreadStep
    PROVE  ExecutorTypes' /\ Occupied'
<1> USE DEF ExecutorTypes, Occupied, executorVars
<1>1. CASE UNCHANGED executorVars
    BY <1>1
<1>2. CASE Commit
    <2>1. queue' = Append(queue, <<mcts_player, todo>>)
        BY <1>2 DEF Commit, Queued
    <2>2. queue' \in Seq(Tasks)
        BY <1>2, <2>1, TheTask, AppendProperties
    <2> QED
        BY <1>2, <2>2 DEF Commit, Queued
<1>3. CASE Notify
    BY <1>3 DEF Notify, NotifyAll, Woken
<1>4. CASE StopPondering \/ WaitSearch
    BY <1>4 DEF StopPondering, WaitSearch, Collected
<1>5. CASE OnExecutor(Built)
    BY <1>5 DEF OnExecutor, Built
<1>6. ASSUME NEW w \in Workers, OnExecutor(WorkerStep(w)) \/ OnExecutor(TaskReturns(w))
      PROVE  ExecutorTypes' /\ Occupied'
    <2>1. CASE Spawn(w) \/ TestExit(w) \/ GetBlock(w) \/ Wakeup(w)
        BY <2>1 DEF Spawn, TestExit, GetBlock, Wakeup, WorkerGoes
    <2>2. CASE GetTask(w)
        <3>1. Head(queue) \in Tasks /\ Tail(queue) \in Seq(Tasks)
            BY <2>2, HeadTailProperties DEF GetTask
        <3> QED
            BY <2>2, <3>1 DEF GetTask, Rest, WorkerGoes
    <2>3. CASE TaskReturns(w)
        <3>1. task[w] \in Tasks
            BY <2>3 DEF TaskReturns
        <3> QED
            BY <2>3, <3>1 DEF TaskReturns, WorkerGoes
    <2> QED
        BY <1>6, <2>1, <2>2, <2>3 DEF OnExecutor, WorkerStep
<1> QED
    BY <1>1, <1>2, <1>3, <1>4, <1>5, <1>6, ExecutorSteps

\* What each step does to the players.
LEMMA PlayerSteps ==
    ASSUME GtpStep \/ ThreadStep
    PROVE  \/ UNCHANGED playerVars
           \/ Initialize \/ PlayNew \/ PlaySwap \/ ChooseResign \/ Delete
           \/ Commit \/ StopPondering \/ WaitSearch
           \/ \E w \in Workers : StopRollout(w)
           \/ \E r \in recyclers : RecycleBegin(r) \/ RecycleDelete(r)
           \/ \E p \in Players : DropTmp(p)
<1>1. CASE \E c \in Commands : ReadCommand(c)
    BY <1>1 DEF ReadCommand
<1>2. CASE PlayAsserts \/ PlayNothing \/ PlayChild
    BY <1>2 DEF PlayAsserts, PlayNothing, PlayChild
<1>3. CASE SayPass \/ BeginSearch \/ ChooseMove \/ HandOver \/ Notify
    BY <1>3 DEF SayPass, BeginSearch, ChooseMove, HandOver, Notify
<1>4. CASE \/ OnExecutor(Built)
           \/ \E w \in Workers : OnExecutor(WorkerStep(w)) \/ OnExecutor(TaskReturns(w))
    BY <1>4 DEF OnExecutor
<1>5. CASE \E r \in recyclers : RecycleEnd(r)
    BY <1>5 DEF RecycleEnd
<1>6. CASE \E p \in Players : DropFather(p)
    BY <1>6 DEF DropFather
<1> QED
    BY <1>1, <1>2, <1>3, <1>4, <1>5, <1>6 DEF GtpStep, ThreadStep

LEMMA PlayerTypesStep ==
    ASSUME LifeTypes, Occupied, Playing, Counting, CommandTypes, GtpStep \/ ThreadStep
    PROVE  PlayerTypes'
<1> USE DEF PlayerTypes
<1>0. PlayerTypes /\ DetachedTypes /\ ExecutorTypes
    BY DEF LifeTypes
<1>1. CASE UNCHANGED playerVars
    BY <1>0, <1>1 DEF playerVars
<1>2. CASE Initialize \/ ChooseResign
    BY <1>0, <1>2 DEF Initialize, ChooseResign
<1>3. CASE PlayNew \/ PlaySwap
    <2>1. mcts_player \in Players
        BY <1>3 DEF PlayNew, PlaySwap, Playing
    <2> QED
        BY <1>0, <1>3, <2>1 DEF PlayNew, PlaySwap
<1>4. CASE Commit
    <2>1. <<mcts_player, todo>> \in Tasks
        BY <1>4, TheTask DEF LifeTypes, GtpTypes, CountTypes
    <2>2. futures' \in [Players -> SUBSET Tasks]
        BY <1>0, <1>4, <2>1 DEF Commit
    <2> QED
        BY <1>0, <1>4, <2>2 DEF Commit
<1>5. CASE StopPondering \/ WaitSearch
    BY <1>0, <1>5 DEF StopPondering, WaitSearch
<1>6. CASE Delete
    BY <1>0, <1>6 DEF Delete, Destroyed
<1>7. ASSUME NEW w \in Workers, StopRollout(w) PROVE PlayerTypes'
    BY <1>0, <1>7 DEF StopRollout
<1>8. ASSUME NEW r \in recyclers, RecycleBegin(r) \/ RecycleDelete(r) PROVE PlayerTypes'
    <2>1. CASE RecycleBegin(r)
        BY <1>0, <2>1 DEF RecycleBegin, playerVars
    <2>2. CASE RecycleDelete(r)
        BY <1>0, <2>2 DEF RecycleDelete, Destroyed, playerVars
    <2> QED
        BY <1>8, <2>1, <2>2
<1>9. ASSUME NEW p \in Players, DropTmp(p) PROVE PlayerTypes'
    BY <1>0, <1>9 DEF DropTmp
<1> QED
    BY <1>1, <1>2, <1>3, <1>4, <1>5, <1>6, <1>7, <1>8, <1>9, PlayerSteps

\* What each step does to the detached threads, and to what is remembered of them.
LEMMA DetachedSteps ==
    ASSUME GtpStep \/ ThreadStep
    PROVE  \/ UNCHANGED <<detachedVars, historyVars>>
           \/ Initialize \/ PlayChild \/ PlayNew \/ PlaySwap \/ ChooseResign
           \/ Delete \/ HandOver
           \/ \E r \in recyclers : RecycleBegin(r) \/ RecycleDelete(r) \/ RecycleEnd(r)
           \/ \E p \in Players : DropTmp(p) \/ DropFather(p)
<1>1. CASE \E c \in Commands : ReadCommand(c)
    BY <1>1 DEF ReadCommand
<1>2. CASE PlayAsserts \/ PlayNothing \/ StopPondering \/ Commit \/ Notify
    BY <1>2 DEF PlayAsserts, PlayNothing, StopPondering, Commit, Notify
<1>3. CASE SayPass \/ BeginSearch \/ WaitSearch \/ ChooseMove
    BY <1>3 DEF SayPass, BeginSearch, WaitSearch, ChooseMove
<1>4. CASE \/ OnExecutor(Built)
           \/ \E w \in Workers : OnExecutor(WorkerStep(w)) \/ OnExecutor(TaskReturns(w))
    BY <1>4 DEF OnExecutor
<1>5. CASE \E w \in Workers : StopRollout(w)
    BY <1>5 DEF StopRollout
<1> QED
    BY <1>1, <1>2, <1>3, <1>4, <1>5 DEF GtpStep, ThreadStep

Recycler == [of : Players, what : Players \cup {NoPlayer}, at : {"begin", "delete", "clear"}]

LEMMA RecyclersStep ==
    ASSUME CommandTypes, Playing, recyclers \subseteq Recycler, GtpStep \/ ThreadStep
    PROVE  recyclers' \subseteq Recycler
<1> USE DEF Recycler
<1>1. CASE Initialize \/ PlayChild \/ PlayNew \/ PlaySwap \/ ChooseResign \/ Delete
    BY <1>1 DEF Initialize, PlayChild, PlayNew, PlaySwap, ChooseResign, Delete, detachedVars
<1>2. CASE HandOver
    <2>1. mcts_player \in Players
        BY <1>2 DEF HandOver, Playing
    <2> QED
        BY <1>2, <2>1 DEF HandOver
<1>3. ASSUME NEW r \in recyclers, RecycleBegin(r) \/ RecycleDelete(r) \/ RecycleEnd(r)
      PROVE  recyclers' \subseteq Recycler
    <2>1. r \in Recycler
        OBVIOUS
    <2>2. [r EXCEPT !.what = tmp_mcts_player, !.at = "delete"] \in Recycler
        BY <2>1 DEF CommandTypes
    <2>3. [r EXCEPT !.at = "clear"] \in Recycler
        BY <2>1
    <2> QED
        BY <1>3, <2>2, <2>3 DEF RecycleBegin, RecycleDelete, RecycleEnd, Discarded
<1>4. CASE \E p \in Players : DropTmp(p) \/ DropFather(p)
    BY <1>4 DEF DropTmp, DropFather
<1>5. CASE UNCHANGED <<detachedVars, historyVars>>
    BY <1>5 DEF detachedVars
<1> QED
    BY <1>1, <1>2, <1>3, <1>4, <1>5, DetachedSteps

LEMMA CountersStep ==
    ASSUME drops \in [Players -> Nat], fathers \in [Players -> Nat], GtpStep \/ ThreadStep
    PROVE  drops' \in [Players -> Nat] /\ fathers' \in [Players -> Nat]
<1>1. CASE Initialize \/ PlayNew \/ ChooseResign \/ Delete
    BY <1>1 DEF Initialize, PlayNew, ChooseResign, Delete, detachedVars
<1>2. CASE PlayChild \/ PlaySwap \/ HandOver
    BY <1>2 DEF PlayChild, PlaySwap, HandOver
<1>3. ASSUME NEW r \in recyclers, RecycleBegin(r) \/ RecycleDelete(r) \/ RecycleEnd(r)
      PROVE  UNCHANGED <<drops, fathers>>
    BY <1>3 DEF RecycleBegin, RecycleDelete, RecycleEnd
<1>4. ASSUME NEW p \in Players, DropTmp(p) \/ DropFather(p)
      PROVE  drops' \in [Players -> Nat] /\ fathers' \in [Players -> Nat]
    BY <1>4 DEF DropTmp, DropFather
<1>5. CASE UNCHANGED <<detachedVars, historyVars>>
    BY <1>5 DEF detachedVars
<1> QED
    BY <1>1, <1>2, <1>3, <1>4, <1>5, DetachedSteps

Remembered == lagged \in BOOLEAN /\ resigned \in BOOLEAN /\ misused \in BOOLEAN

LEMMA RememberedStep ==
    ASSUME Remembered, GtpStep \/ ThreadStep
    PROVE  Remembered'
<1> USE DEF Remembered, Lags, historyVars
<1>1. CASE Initialize \/ PlayChild \/ PlayNew \/ PlaySwap
    BY <1>1 DEF Initialize, PlayChild, PlayNew, PlaySwap
<1>2. CASE ChooseResign \/ Delete \/ HandOver
    BY <1>2 DEF ChooseResign, Delete, HandOver
<1>3. ASSUME NEW r \in recyclers, RecycleBegin(r) \/ RecycleDelete(r) \/ RecycleEnd(r)
      PROVE  Remembered'
    BY <1>3 DEF RecycleBegin, RecycleDelete, RecycleEnd
<1>4. ASSUME NEW p \in Players, DropTmp(p) \/ DropFather(p)
      PROVE  Remembered'
    BY <1>4 DEF DropTmp, DropFather, Touched
<1>5. CASE UNCHANGED <<detachedVars, historyVars>>
    BY <1>5
<1> QED
    BY <1>1, <1>2, <1>3, <1>4, <1>5, DetachedSteps

\* The types, with what they rest on.
Typed == LifeTypes /\ CommandTypes /\ Playing /\ Counting /\ Occupied

LEMMA TypedInit == Init => Typed
<1> SUFFICES ASSUME Init PROVE Typed
    OBVIOUS
<1>1. LifeTypes
    BY TypesInit
<1> QED
    BY <1>1 DEF Typed, LifeTypes, GtpTypes, CommandTypes, Playing, Counting, Occupied, Init,
                ExecutorInit

\* The process ends on purpose: only the step of the GTP loop changes.
LEMMA DiesLeaves ==
    ASSUME Dies
    PROVE  /\ step' = "died"
           /\ UNCHANGED <<executorVars, cmd, todo, lcmd, mcts_player, tmp_mcts_player,
                          playerVars, detachedVars, historyVars>>
BY DEF Dies

LEMMA TypedStep == Typed /\ [Next]_vars => Typed'
<1> SUFFICES ASSUME Typed, [Next]_vars PROVE Typed'
    OBVIOUS
<1>1. CASE UNCHANGED vars
    BY <1>1 DEF Typed, LifeTypes, ExecutorTypes, GtpTypes, PlayerTypes, DetachedTypes,
                CommandTypes, Playing, Counting, Occupied, vars, executorVars, gtpVars,
                playerVars, detachedVars, historyVars
<1>2. CASE GtpStep \/ ThreadStep
    <2>1. CountTypes /\ Remembered /\ ExecutorTypes /\ recyclers \subseteq Recycler
          /\ drops \in [Players -> Nat] /\ fathers \in [Players -> Nat]
        BY DEF Typed, LifeTypes, GtpTypes, DetachedTypes, CountTypes, Remembered, Recycler
    <2>2. CommandTypes'
        BY <1>2, CommandTypesStep DEF Typed
    <2>3. Playing'
        BY <1>2, PlayingStep DEF Typed, LifeTypes
    <2>4. CountTypes' /\ Counting'
        BY <1>2, <2>1, CountingStep DEF Typed
    <2>5. ExecutorTypes' /\ Occupied'
        BY <1>2, <2>1, ExecutorTypesStep DEF Typed
    <2>6. PlayerTypes'
        BY <1>2, PlayerTypesStep DEF Typed
    <2>7. DetachedTypes'
        BY <1>2, <2>1, RecyclersStep, CountersStep, RememberedStep
           DEF Typed, DetachedTypes, Recycler, Remembered
    <2>8. lcmd' \in BOOLEAN
        <3>1. lcmd \in BOOLEAN
            BY DEF Typed, LifeTypes, GtpTypes
        <3>2. CASE ThreadStep
            BY <3>1, <3>2, ThreadLeaves
        <3>3. CASE Initialize \/ \E c \in Commands : ReadCommand(c)
            BY <3>1, <3>3 DEF Initialize, ReadCommand
        <3>4. CASE StopPondering \/ PlayAsserts \/ PlayNothing \/ PlayChild \/ PlayNew
            BY <3>1, <3>4 DEF StopPondering, PlayAsserts, PlayNothing, PlayChild, PlayNew, AfterPlay
        <3>5. CASE PlaySwap
            BY <3>1, <3>5 DEF PlaySwap, AfterPlay
        <3>6. CASE SayPass \/ BeginSearch \/ Commit \/ Notify \/ WaitSearch
            BY <3>1, <3>6 DEF SayPass, BeginSearch, Commit, Notify, WaitSearch
        <3>7. CASE ChooseMove \/ ChooseResign \/ Delete \/ HandOver
            BY <3>1, <3>7 DEF ChooseMove, ChooseResign, Delete, HandOver
        <3> QED
            BY <1>2, <3>2, <3>3, <3>4, <3>5, <3>6, <3>7 DEF GtpStep
    <2>9. GtpTypes'
        BY <2>2, <2>4, <2>8 DEF GtpTypes, CommandTypes, CountTypes
    <2> QED
        BY <2>2, <2>3, <2>4, <2>5, <2>6, <2>7, <2>9 DEF Typed, LifeTypes
<1>3. CASE Dies
    <2> USE <1>3, DiesLeaves DEF executorVars, playerVars, detachedVars, historyVars
    <2>1. CommandTypes' /\ Playing' /\ Counting'
        BY DEF Typed, CommandTypes, Playing, Counting
    <2>2. ExecutorTypes' /\ Occupied'
        BY DEF Typed, LifeTypes, ExecutorTypes, Occupied
    <2>3. GtpTypes'
        BY DEF Typed, LifeTypes, GtpTypes
    <2>4. PlayerTypes' /\ DetachedTypes'
        BY DEF Typed, LifeTypes, PlayerTypes, DetachedTypes
    <2> QED
        BY <2>1, <2>2, <2>3, <2>4 DEF Typed, LifeTypes
<1> QED
    BY <1>1, <1>2, <1>3 DEF Next, Ended

\* Every variable of the process has its type in every state.
THEOREM TypesHold == Spec => []LifeTypes
<1>1. Typed => LifeTypes
    BY DEF Typed
<1> QED
    BY TypedInit, TypedStep, <1>1, PTL DEF Spec

------------------------------------------------------------------------------
(* Players                                                                  *)

\* The player of the GTP loop is alive, and none that a detached thread may
\* delete.
Held ==
    /\ step = "initialize" => mcts_player = NoPlayer
    /\ mcts_player # NoPlayer => life[mcts_player] = "alive"
    /\ tmp_mcts_player # NoPlayer =>
          life[tmp_mcts_player] # "unborn" /\ tmp_mcts_player # mcts_player
    /\ \A r \in recyclers :
          r.what # NoPlayer => life[r.what] # "unborn" /\ r.what # mcts_player

LEMMA HeldStep ==
    ASSUME Typed, Held, GtpStep \/ ThreadStep
    PROVE  Held'
<1> USE DEF Held
<1>0. life \in [Players -> {"unborn", "alive", "dying", "dead"}]
      /\ recyclers \subseteq Recycler /\ NoPlayer \notin Players
      /\ mcts_player \in Players \cup {NoPlayer} /\ tmp_mcts_player \in Players \cup {NoPlayer}
    BY DEF Typed, LifeTypes, PlayerTypes, DetachedTypes, CommandTypes, Recycler, Players, NoPlayer
<1>1. CASE Initialize
    BY <1>0, <1>1 DEF Initialize, Goes, detachedVars, Recycler
<1>2. CASE Delete
    <2>1. mcts_player' = NoPlayer /\ UNCHANGED <<tmp_mcts_player, recyclers>>
        BY <1>2 DEF Delete, detachedVars
    <2>2. step' # "initialize" /\ life' = [life EXCEPT ![mcts_player] = "dead"]
        BY <1>2 DEF Delete, Destroyed, Goes
    <2> QED
        BY <1>0, <2>1, <2>2 DEF Recycler
<1>3. CASE HandOver
    <2>1. life[mcts_player] = "alive" /\ mcts_player \in Players
        BY <1>3 DEF HandOver, Typed, Playing, Players, NoPlayer
    <2>2. tmp_mcts_player' = mcts_player /\ mcts_player' = NoPlayer /\ life' = life
          /\ \A r \in recyclers' : r \in recyclers \/ r.what = NoPlayer
        BY <1>3 DEF HandOver, playerVars
    <2> QED
        BY <1>0, <2>1, <2>2 DEF Recycler
<1>4. ASSUME NEW r \in recyclers, RecycleBegin(r) \/ RecycleDelete(r) \/ RecycleEnd(r)
      PROVE  Held'
    <2>0. UNCHANGED <<step, mcts_player>> /\ r \in Recycler
        BY <1>0, <1>4 DEF RecycleBegin, RecycleDelete, RecycleEnd, gtpVars
    <2>1. CASE RecycleBegin(r)
        <3>1. \A q \in recyclers' : q \in recyclers \/ q.what = tmp_mcts_player
            BY <2>0, <2>1 DEF RecycleBegin, Discarded, Recycler
        <3>2. \A p \in Players : life[p] # "unborn" => life'[p] # "unborn"
            BY <1>0, <2>1 DEF RecycleBegin, Discarded
        <3>3. mcts_player # NoPlayer => life'[mcts_player] = "alive"
            BY <1>0, <2>1 DEF RecycleBegin, Discarded
        <3>4. tmp_mcts_player' = tmp_mcts_player
            BY <2>1 DEF RecycleBegin, gtpVars
        <3> QED
            BY <1>0, <2>0, <3>1, <3>2, <3>3, <3>4 DEF Recycler
    <2>2. CASE RecycleDelete(r)
        <3>1. \A q \in recyclers' : q \in recyclers \/ q.what = r.what
            BY <2>0, <2>2 DEF RecycleDelete, Recycler
        <3>2. \A p \in Players : life[p] # "unborn" => life'[p] # "unborn"
            BY <1>0, <2>2 DEF RecycleDelete, Destroyed, playerVars
        <3>3. mcts_player # NoPlayer => life'[mcts_player] = "alive"
            BY <1>0, <2>2 DEF RecycleDelete, Destroyed, playerVars
        <3>4. tmp_mcts_player' = tmp_mcts_player
            BY <2>2 DEF RecycleDelete, gtpVars
        <3> QED
            BY <1>0, <2>0, <3>1, <3>2, <3>3, <3>4 DEF Recycler
    <2>3. CASE RecycleEnd(r)
        BY <2>0, <2>3 DEF RecycleEnd, playerVars
    <2> QED
        BY <1>4, <2>1, <2>2, <2>3
<1>5. ASSUME NEW c \in Commands, ReadCommand(c) PROVE Held'
    <2>1. UNCHANGED <<mcts_player, tmp_mcts_player, life, recyclers>>
        BY <1>5 DEF ReadCommand, playerVars, detachedVars
    <2>2. step' = "initialize" => mcts_player = NoPlayer
        BY <1>5 DEF ReadCommand
    <2> QED
        BY <2>1, <2>2
<1>6. CASE \/ StopPondering \/ PlayAsserts \/ PlayNothing \/ PlayChild \/ PlayNew \/ PlaySwap
           \/ SayPass \/ BeginSearch \/ Commit \/ Notify \/ WaitSearch
           \/ ChooseMove \/ ChooseResign
    <2>1. UNCHANGED <<mcts_player, tmp_mcts_player, life, recyclers>>
        <3>1. CASE StopPondering \/ PlayAsserts \/ PlayNothing \/ PlayChild \/ PlayNew
            BY <3>1 DEF StopPondering, PlayAsserts, PlayNothing, PlayChild, PlayNew,
                        playerVars, detachedVars
        <3>2. CASE PlaySwap \/ SayPass \/ BeginSearch \/ Commit \/ Notify
            BY <3>2 DEF PlaySwap, SayPass, BeginSearch, Commit, Notify, playerVars, detachedVars
        <3>3. CASE WaitSearch \/ ChooseMove \/ ChooseResign
            BY <3>3 DEF WaitSearch, ChooseMove, ChooseResign, playerVars, detachedVars
        <3> QED
            BY <1>6, <3>1, <3>2, <3>3
    <2>2. step' # "initialize"
        <3>1. CASE StopPondering \/ PlayAsserts \/ PlayNothing \/ PlayChild \/ PlayNew
            BY <3>1 DEF StopPondering, PlayAsserts, PlayNothing, PlayChild, PlayNew, AfterPlay, Goes
        <3>2. CASE PlaySwap \/ SayPass \/ BeginSearch \/ Commit \/ Notify
            BY <3>2 DEF PlaySwap, SayPass, BeginSearch, Commit, Notify, AfterPlay, Goes
        <3>3. CASE WaitSearch \/ ChooseMove \/ ChooseResign
            BY <3>3 DEF WaitSearch, ChooseMove, ChooseResign, Goes
        <3> QED
            BY <1>6, <3>1, <3>2, <3>3
    <2> QED
        BY <2>1, <2>2
<1>7. CASE \/ OnExecutor(Built)
           \/ \E w \in Workers : OnExecutor(WorkerStep(w)) \/ OnExecutor(TaskReturns(w))
                                \/ StopRollout(w)
           \/ \E p \in Players : DropTmp(p) \/ DropFather(p)
    <2>1. UNCHANGED <<mcts_player, tmp_mcts_player, life, recyclers>>
        BY <1>7 DEF OnExecutor, StopRollout, DropTmp, DropFather, gtpVars, playerVars, detachedVars
    <2>2. step' \in {step, "crash"}
        BY <1>7 DEF OnExecutor, StopRollout, DropTmp, DropFather, gtpVars
    <2> QED
        BY <2>1, <2>2
<1> QED
    BY <1>1, <1>2, <1>3, <1>4, <1>5, <1>6, <1>7 DEF GtpStep, ThreadStep

\* The other threads leave the root of the player of the GTP loop.
LEMMA RootKept ==
    ASSUME Typed, Held, ThreadStep, mcts_player \in Players
    PROVE  root'[mcts_player] = root[mcts_player]
<1>0. root \in [Players -> BOOLEAN] /\ NoPlayer \notin Players
    BY DEF Typed, LifeTypes, PlayerTypes, Players, NoPlayer
<1>1. ASSUME NEW r \in recyclers, RecycleBegin(r) \/ RecycleDelete(r) \/ RecycleEnd(r)
      PROVE  root'[mcts_player] = root[mcts_player]
    <2>1. r.what # mcts_player
        BY <1>0, <1>1 DEF Held
    <2> QED
        BY <1>0, <1>1, <2>1 DEF RecycleBegin, RecycleDelete, RecycleEnd, Destroyed, playerVars
<1>2. CASE \/ OnExecutor(Built)
           \/ \E w \in Workers : OnExecutor(WorkerStep(w)) \/ OnExecutor(TaskReturns(w))
                                \/ StopRollout(w)
           \/ \E p \in Players : DropTmp(p) \/ DropFather(p)
    BY <1>2 DEF OnExecutor, StopRollout, DropTmp, DropFather, playerVars
<1> QED
    BY <1>1, <1>2 DEF ThreadStep

------------------------------------------------------------------------------
(* Rollouts                                                                 *)

\* The futures that are kept are of the rollouts that the player of the GTP loop
\* has committed.
Idle == {"initialize", "play", "swap", "search", "choose", "handover", "delete"}
Sent ==
    \A p \in Players : \A k \in futures[p] :
        /\ k[1] = p /\ p = mcts_player /\ step \notin Idle
        /\ step \in {"commit", "ponder"} => k[2] > todo
        /\ step \in {"notify", "notify_ponder"} => k[2] >= todo

LEMMA SentStep ==
    ASSUME Typed, Sent, GtpStep \/ ThreadStep
    PROVE  Sent'
<1> USE DEF Sent, Idle
<1>0. futures \in [Players -> SUBSET Tasks]
    BY DEF Typed, LifeTypes, PlayerTypes
<1>1. CASE Initialize
    BY <1>1 DEF Initialize
<1>2. ASSUME NEW c \in Commands, ReadCommand(c) PROVE Sent'
    <2>1. UNCHANGED <<futures, mcts_player>> /\ step = "read"
        BY <1>2 DEF ReadCommand, playerVars
    <2>2. mcts_player # NoPlayer => step' \in {"read", "stop"}
        BY <1>2 DEF ReadCommand
    <2> QED
        BY <2>1, <2>2 DEF Players, NoPlayer
<1>3. CASE StopPondering \/ WaitSearch
    <2>1. mcts_player \in Players /\ mcts_player' = mcts_player
        BY <1>3 DEF StopPondering, WaitSearch, Typed, Playing
    <2>2. futures' = [futures EXCEPT ![mcts_player] = {}]
        BY <1>3 DEF StopPondering, WaitSearch
    <2> QED
        BY <1>0, <2>1, <2>2
<1>4. CASE PlayAsserts \/ PlayNothing \/ PlayChild \/ PlayNew \/ PlaySwap
    <2>1. step \in Idle /\ UNCHANGED futures
        BY <1>4 DEF PlayAsserts, PlayNothing, PlayChild, PlayNew, PlaySwap, playerVars
    <2> QED
        BY <2>1
<1>5. CASE SayPass \/ BeginSearch \/ ChooseMove \/ ChooseResign \/ HandOver \/ Delete
    <2>1. step \in Idle /\ UNCHANGED futures
        BY <1>5 DEF SayPass, BeginSearch, ChooseMove, ChooseResign, HandOver, Delete, Destroyed, playerVars
    <2> QED
        BY <2>1
<1>6. CASE Commit
    <2>1. mcts_player \in Players /\ mcts_player' = mcts_player /\ todo' = todo
        BY <1>6 DEF Commit, Typed, Playing
    <2>2. futures' = [futures EXCEPT ![mcts_player] = @ \cup {<<mcts_player, todo>>}]
        BY <1>6 DEF Commit
    <2>3. step \in {"commit", "ponder"} /\ step' \in {"notify", "notify_ponder"}
        BY <1>6 DEF Commit, Goes
    <2>4. todo \in Nat
        BY <2>3, SomeThreads DEF Typed, Counting
    <2>5. \A k \in Tasks : k[2] \in Nat
        BY LifecycleAssumption
    <2>6. ASSUME NEW p \in Players, NEW k \in futures'[p]
          PROVE  k[1] = p /\ p = mcts_player /\ k[2] >= todo
        <3>1. CASE k \in futures[p]
            BY <1>0, <2>3, <2>4, <2>5, <3>1
        <3>2. CASE p = mcts_player /\ k = <<mcts_player, todo>>
            BY <2>4, <3>2
        <3> QED
            BY <1>0, <2>1, <2>2, <2>6, <3>1, <3>2
    <2> QED
        BY <2>1, <2>3, <2>6
<1>7. CASE Notify
    <2>1. UNCHANGED <<futures, mcts_player>> /\ step \in {"notify", "notify_ponder"}
          /\ todo' = todo - 1
        BY <1>7 DEF Notify, playerVars
    <2>2. step' \in {"commit", "ponder", "wait", "read"}
        BY <1>7 DEF Notify, Goes
    <2>3. todo \in Nat
        BY <2>1, SomeThreads DEF Typed, Counting
    <2>4. \A k \in Tasks : k[2] \in Nat
        BY LifecycleAssumption
    <2>5. ASSUME NEW p \in Players, NEW k \in futures[p]
          PROVE  k[1] = p /\ p = mcts_player /\ k[2] > todo'
        BY <1>0, <2>1, <2>3, <2>4
    <2> QED
        BY <2>1, <2>2, <2>5
<1>8. CASE ThreadStep
    BY <1>8, ThreadLeaves
<1> QED
    BY <1>1, <1>2, <1>3, <1>4, <1>5, <1>6, <1>7, <1>8 DEF GtpStep

\* At other steps the tree has a root, and always when is_lcmd_genmove is not set
\* or rollouts are out.
Rooted ==
    ~Over /\ mcts_player # NoPlayer =>
        \/ root[mcts_player]
        \/ /\ lcmd /\ step \in {"read", "stop", "play", "handover", "delete"}
           /\ futures[mcts_player] = {}

LEMMA RootedStep ==
    ASSUME Typed, Held, Sent, Rooted, ~Over, GtpStep \/ ThreadStep
    PROVE  Rooted'
<1> USE DEF Rooted, Over
<1>0. root \in [Players -> BOOLEAN] /\ NoPlayer \notin Players
      /\ mcts_player \in Players \cup {NoPlayer}
      /\ futures \in [Players -> SUBSET Tasks]
    BY DEF Typed, LifeTypes, PlayerTypes, CommandTypes, Players, NoPlayer
<1>1. CASE Initialize
    BY <1>0, <1>1 DEF Initialize, Goes
<1>2. ASSUME NEW c \in Commands, ReadCommand(c) PROVE Rooted'
    <2>1. UNCHANGED <<lcmd, mcts_player, root, futures>>
        BY <1>2 DEF ReadCommand, playerVars
    <2>2. mcts_player # NoPlayer => step = "read" /\ step' \in {"read", "stop"}
        BY <1>2 DEF ReadCommand
    <2> QED
        BY <2>1, <2>2
<1>3. CASE StopPondering
    <2>1. UNCHANGED <<lcmd, mcts_player, root>> /\ step = "stop"
        BY <1>3 DEF StopPondering
    <2>2. lcmd => step' \in {"play", "handover", "delete"}
        BY <1>3 DEF StopPondering, Goes
    <2>3. mcts_player # NoPlayer => futures'[mcts_player] = {}
        BY <1>0, <1>3 DEF StopPondering
    <2> QED
        BY <2>1, <2>2, <2>3
<1>4. CASE PlayAsserts
    BY <1>4 DEF PlayAsserts, Goes
<1>5. CASE PlayNothing \/ PlayChild \/ PlayNew
    <2>1. UNCHANGED <<mcts_player, root>> /\ root[mcts_player]
        BY <1>5 DEF PlayNothing, PlayChild, PlayNew, playerVars
    <2> QED
        BY <2>1
<1>6. CASE PlaySwap
    <2>1. mcts_player' = mcts_player /\ mcts_player \in Players
        BY <1>6 DEF PlaySwap, Typed, Playing
    <2>2. root'[mcts_player] = tmp[mcts_player]
        BY <1>0, <1>6, <2>1 DEF PlaySwap
    <2>3. ~tmp[mcts_player] => step' = "crash"
        BY <1>6 DEF PlaySwap, Goes
    <2> QED
        BY <2>1, <2>2, <2>3
<1>7. CASE SayPass \/ BeginSearch \/ Commit \/ Notify \/ WaitSearch \/ ChooseMove
    <2>1. UNCHANGED <<mcts_player, root>>
        BY <1>7 DEF SayPass, BeginSearch, Commit, Notify, WaitSearch, ChooseMove, playerVars
    <2>2. step \notin {"read", "stop", "play", "handover", "delete"}
        BY <1>7 DEF SayPass, BeginSearch, Commit, Notify, WaitSearch, ChooseMove
    <2> QED
        BY <2>1, <2>2
<1>8. CASE ChooseResign
    <2>1. mcts_player \in Players => futures[mcts_player] = {}
        BY <1>8 DEF ChooseResign, Sent, Idle
    <2> QED
        BY <1>0, <1>8, <2>1 DEF ChooseResign, Goes
<1>9. CASE Delete
    BY <1>9 DEF Delete
<1>10. CASE HandOver
    BY <1>10 DEF HandOver
<1>11. CASE ThreadStep
    <2>1. UNCHANGED <<mcts_player, lcmd, futures>> /\ step' \in {step, "crash"}
        BY <1>11, ThreadLeaves
    <2>2. mcts_player \in Players => root'[mcts_player] = root[mcts_player]
        BY <1>11, RootKept
    <2> QED
        BY <1>0, <2>1, <2>2
<1> QED
    BY <1>1, <1>2, <1>3, <1>4, <1>5, <1>6, <1>7, <1>8, <1>9, <1>10, <1>11 DEF GtpStep

\* A rollout is in one place only, and its future is kept.
Pooled ==
    /\ \A i, j \in DOMAIN queue : queue[i] = queue[j] => i = j
    /\ \A v, w \in Workers :
          place[v] = "run" /\ place[w] = "run" /\ task[v] = task[w] => v = w
    /\ \A k \in RunningTasks : k \notin done /\ \A i \in DOMAIN queue : queue[i] # k
    /\ \A i \in DOMAIN queue : queue[i] \notin done
    /\ \A k \in Outstanding \cup done : k \in futures[k[1]]

LEMMA FuturesSteps ==
    ASSUME GtpStep \/ ThreadStep
    PROVE  futures' = futures \/ Commit \/ StopPondering \/ WaitSearch
BY PlayerSteps DEF playerVars, Initialize, PlayNew, PlaySwap, ChooseResign, Delete, Destroyed,
                   StopRollout, RecycleBegin, RecycleDelete, DropTmp

\* What every step does to the tasks: nothing, or what the pool does.
Unmoved ==
    /\ UNCHANGED <<queue, RunningTasks, done, futures>>
    /\ \A w \in Workers : /\ place'[w] = "run" <=> place[w] = "run"
                          /\ place[w] = "run" => task'[w] = task[w]
Started(w) ==
    /\ place[w] # "run" /\ queue # <<>> /\ queue' = Tail(queue) /\ done' = done
    /\ place' = [place EXCEPT ![w] = "run"] /\ task' = [task EXCEPT ![w] = Head(queue)]
Returned(w) ==
    /\ place[w] = "run" /\ done' = done \cup {task[w]} /\ queue' = queue
    /\ place' = [place EXCEPT ![w] = "test"] /\ task' = [task EXCEPT ![w] = NoTask]

LEMMA TaskSteps ==
    ASSUME Typed, GtpStep \/ ThreadStep
    PROVE  \/ Commit \/ StopPondering \/ WaitSearch
           \/ Unmoved
           \/ \E w \in Workers : (Started(w) \/ Returned(w)) /\ futures' = futures
<1>0. place \in [Workers -> {"unborn", "test", "get", "asleep", "run", "ended"}]
      /\ task \in [Workers -> Tasks \cup {NoTask}]
    BY DEF Typed, LifeTypes, ExecutorTypes
<1>1. CASE UNCHANGED executorVars
    BY <1>1, FuturesSteps DEF executorVars, Unmoved, RunningTasks
<1>2. CASE Notify
    BY <1>0, <1>2 DEF Notify, NotifyAll, Woken, Unmoved, RunningTasks, playerVars
<1>3. CASE OnExecutor(Built)
    BY <1>3 DEF OnExecutor, Built, Unmoved, RunningTasks, playerVars
<1>4. ASSUME NEW w \in Workers,
             OnExecutor(Spawn(w) \/ TestExit(w) \/ GetBlock(w) \/ Wakeup(w))
      PROVE  Unmoved
    <2>1. UNCHANGED <<queue, done, task, futures>>
        BY <1>4 DEF OnExecutor, Spawn, TestExit, GetBlock, Wakeup, playerVars
    <2>2. \A v \in Workers : place'[v] = "run" <=> place[v] = "run"
        BY <1>0, <1>4 DEF OnExecutor, Spawn, TestExit, GetBlock, Wakeup, WorkerGoes
    <2> QED
        BY <2>1, <2>2 DEF Unmoved, RunningTasks
<1>5. ASSUME NEW w \in Workers, OnExecutor(GetTask(w))
      PROVE  Started(w) /\ futures' = futures
    BY <1>5 DEF OnExecutor, GetTask, Rest, WorkerGoes, Started, playerVars
<1>6. ASSUME NEW w \in Workers, OnExecutor(TaskReturns(w))
      PROVE  Returned(w) /\ futures' = futures
    BY <1>6 DEF OnExecutor, TaskReturns, WorkerGoes, Returned, playerVars
<1>7. ASSUME NEW w \in Workers, OnExecutor(WorkerStep(w))
      PROVE  OnExecutor(Spawn(w) \/ TestExit(w) \/ GetBlock(w) \/ Wakeup(w))
             \/ OnExecutor(GetTask(w))
    BY <1>7 DEF OnExecutor, WorkerStep
<1> QED
    BY <1>1, <1>2, <1>3, <1>4, <1>5, <1>6, <1>7, ExecutorSteps

\* The rollout that is committed is nowhere yet.
LEMMA FreshTask ==
    ASSUME Typed, Sent, Pooled, Commit
    PROVE  /\ <<mcts_player, todo>> \in Tasks
           /\ <<mcts_player, todo>> \notin Outstanding \cup done
<1>1. <<mcts_player, todo>> \in Tasks
    BY TheTask DEF Typed, LifeTypes, GtpTypes, CountTypes
<1>2. mcts_player \in Players /\ step \in {"commit", "ponder"}
    BY DEF Commit, Typed, Playing
<1>3. todo \in Nat
    BY <1>2, SomeThreads DEF Typed, Counting
<1>4. <<mcts_player, todo>> \notin futures[mcts_player]
    BY <1>2, <1>3 DEF Sent
<1> QED
    BY <1>1, <1>4 DEF Pooled

\* When the futures of the player are waited for, the executor has no task left.
LEMMA NothingLeft ==
    ASSUME Typed, Sent, Pooled, StopPondering \/ WaitSearch
    PROVE  /\ Outstanding = {} /\ futures[mcts_player] \subseteq done
           /\ done' = {} /\ UNCHANGED <<queue, place, task>>
<1>1. mcts_player \in Players
    BY DEF StopPondering, WaitSearch, Typed, Playing
<1>2. futures[mcts_player] \subseteq done /\ done' = done \ futures[mcts_player]
      /\ UNCHANGED <<queue, place, task>>
    BY DEF StopPondering, WaitSearch, Waited, Collected
<1>3. ASSUME NEW k \in Outstanding \cup done PROVE k \in futures[mcts_player]
    <2>1. k \in futures[k[1]]
        BY <1>3 DEF Pooled
    <2>2. k \in Tasks
        <3>1. \A w \in Workers : place[w] = "run" => task[w] \in Tasks
            BY DEF Typed, Occupied
        <3>2. \A i \in DOMAIN queue : queue[i] \in Tasks
            BY ElementOfSeq DEF Typed, LifeTypes, ExecutorTypes
        <3>3. done \subseteq Tasks
            BY DEF Typed, LifeTypes, ExecutorTypes
        <3> QED
            BY <1>3, <3>1, <3>2, <3>3 DEF Outstanding, RunningTasks
    <2>3. k[1] \in Players
        BY <2>2, LifecycleAssumption
    <2> QED
        BY <2>1, <2>3 DEF Sent
<1>4. \A k \in Outstanding : k \notin done
    BY DEF Pooled, Outstanding
<1> QED
    BY <1>2, <1>3, <1>4

LEMMA PooledStep ==
    ASSUME Typed, Sent, Pooled, GtpStep \/ ThreadStep
    PROVE  Pooled'
<1>0. place \in [Workers -> {"unborn", "test", "get", "asleep", "run", "ended"}]
      /\ task \in [Workers -> Tasks \cup {NoTask}] /\ queue \in Seq(Tasks)
      /\ done \subseteq Tasks
    BY DEF Typed, LifeTypes, ExecutorTypes
<1>1. CASE Unmoved
    <2>1. UNCHANGED <<queue, RunningTasks, done, futures>>
        BY <1>1 DEF Unmoved
    <2>2. Outstanding' = Outstanding
        BY <2>1 DEF Outstanding
    <2>3. \A v, w \in Workers :
             place'[v] = "run" /\ place'[w] = "run" /\ task'[v] = task'[w] => v = w
        <3> SUFFICES ASSUME NEW v \in Workers, NEW w \in Workers,
                            place'[v] = "run", place'[w] = "run", task'[v] = task'[w]
                     PROVE  v = w
            OBVIOUS
        <3>1. place[v] = "run" /\ place[w] = "run" /\ task'[v] = task[v] /\ task'[w] = task[w]
            BY <1>1 DEF Unmoved
        <3> QED
            BY <3>1 DEF Pooled
    <2> QED
        BY <2>1, <2>2, <2>3 DEF Pooled
<1>2. CASE Commit
    <2> DEFINE k == <<mcts_player, todo>>
    <2>1. k \in Tasks /\ k \notin Outstanding \cup done
        BY <1>2, FreshTask
    <2>2. queue' = Append(queue, k) /\ UNCHANGED <<place, task, done>>
        BY <1>2 DEF Commit, Queued
    <2>3. futures' = [futures EXCEPT ![mcts_player] = @ \cup {k}] /\ k[1] = mcts_player
        BY <1>2 DEF Commit
    <2>4. mcts_player \in Players /\ futures \in [Players -> SUBSET Tasks]
        BY <1>2 DEF Commit, Typed, Playing, LifeTypes, PlayerTypes
    <2> HIDE DEF k
    <2>5. /\ DOMAIN queue = 1..Len(queue) /\ Len(queue) \in Nat
          /\ DOMAIN queue' = 1..Len(queue) + 1 /\ queue'[Len(queue) + 1] = k
          /\ \A i \in 1..Len(queue) : queue'[i] = queue[i]
        BY <1>0, <2>1, <2>2, AppendProperties
    <2>6. \A i \in DOMAIN queue' : \/ i \in DOMAIN queue /\ queue'[i] = queue[i]
                                   \/ i = Len(queue) + 1 /\ queue'[i] = k
        <3>1. \A i \in 1..Len(queue) + 1 : i \in 1..Len(queue) \/ i = Len(queue) + 1
            BY <2>5
        <3> QED
            BY <2>5, <3>1
    <2>7. \A i \in DOMAIN queue : queue[i] # k
        BY <2>1 DEF Outstanding
    <2>8. \A i, j \in DOMAIN queue' : queue'[i] = queue'[j] => i = j
        BY <2>6, <2>7 DEF Pooled
    <2>9. RunningTasks' = RunningTasks
        BY <2>2 DEF RunningTasks
    <2>10. \A m \in RunningTasks' : m \notin done' /\ \A i \in DOMAIN queue' : queue'[i] # m
        BY <2>1, <2>2, <2>6, <2>9 DEF Pooled, Outstanding
    <2>11. \A i \in DOMAIN queue' : queue'[i] \notin done'
        BY <2>1, <2>2, <2>6 DEF Pooled
    <2>12. \A p \in Players : futures[p] \subseteq futures'[p]
        BY <2>3, <2>4
    <2>13. ASSUME NEW m \in Outstanding' \cup done' PROVE m \in futures'[m[1]]
        <3>1. CASE m = k
            BY <2>3, <2>4, <3>1
        <3>2. CASE m # k
            <4>1. m \in Outstanding \cup done
                BY <2>2, <2>6, <2>9, <2>13, <3>2 DEF Outstanding
            <4>2. m \in futures[m[1]]
                BY <4>1 DEF Pooled
            <4>3. m[1] \in Players
                <5>1. m \in Tasks
                    BY <1>0, <4>1, ElementOfSeq DEF Outstanding, RunningTasks, Typed, Occupied
                <5> QED
                    BY <5>1, LifecycleAssumption
            <4> QED
                BY <2>12, <4>2, <4>3
        <3> QED
            BY <3>1, <3>2
    <2> QED
        BY <2>2, <2>8, <2>10, <2>11, <2>13 DEF Pooled
<1>3. CASE StopPondering \/ WaitSearch
    <2>1. Outstanding = {} /\ done' = {} /\ UNCHANGED <<queue, place, task>>
        BY <1>3, NothingLeft
    <2>2. Outstanding' = {} /\ RunningTasks' = {} /\ DOMAIN queue' = {}
        BY <2>1 DEF Outstanding, RunningTasks
    <2>3. \A w \in Workers : place'[w] # "run"
        BY <2>2 DEF RunningTasks
    <2> QED
        BY <2>1, <2>2, <2>3 DEF Pooled
<1>4. ASSUME NEW w \in Workers, Started(w), futures' = futures PROVE Pooled'
    <2> DEFINE k == Head(queue)
    <2>1. queue # <<>> /\ queue' = Tail(queue) /\ done' = done
          /\ place' = [place EXCEPT ![w] = "run"] /\ task' = [task EXCEPT ![w] = k]
          /\ place[w] # "run"
        BY <1>4 DEF Started
    <2>2. /\ DOMAIN queue = 1..Len(queue) /\ Len(queue) \in Nat /\ Len(queue) >= 1
          /\ DOMAIN queue' = 1..Len(queue) - 1 /\ k = queue[1]
          /\ \A i \in 1..Len(queue) - 1 : queue'[i] = queue[i + 1]
        BY <1>0, <2>1, HeadTailProperties, EmptySeq
    <2> HIDE DEF k
    <2>3. \A i \in DOMAIN queue' : i + 1 \in DOMAIN queue /\ queue'[i] = queue[i + 1] /\ i \in Nat
        BY <2>2
    <2>4. 1 \in DOMAIN queue
        BY <2>2
    <2>5. \A i \in DOMAIN queue' : queue'[i] # k
        BY <2>2, <2>3, <2>4 DEF Pooled
    <2>6. \A v \in Workers : /\ place'[v] = "run" <=> v = w \/ place[v] = "run"
                             /\ task'[v] = IF v = w THEN k ELSE task[v]
        BY <1>0, <2>1
    <2>7. RunningTasks' = RunningTasks \cup {k}
        BY <2>1, <2>6 DEF RunningTasks
    <2>8. \A i, j \in DOMAIN queue' : queue'[i] = queue'[j] => i = j
        BY <2>3 DEF Pooled
    <2>9. k \notin RunningTasks /\ k \notin done
        BY <2>2, <2>4 DEF Pooled
    <2>10. \A u, v \in Workers :
              place'[u] = "run" /\ place'[v] = "run" /\ task'[u] = task'[v] => u = v
        BY <2>6, <2>9 DEF Pooled, RunningTasks
    <2>11. \A m \in RunningTasks' : m \notin done' /\ \A i \in DOMAIN queue' : queue'[i] # m
        BY <2>1, <2>3, <2>5, <2>7, <2>9 DEF Pooled
    <2>12. \A i \in DOMAIN queue' : queue'[i] \notin done'
        BY <2>1, <2>3 DEF Pooled
    <2>13. Outstanding' \subseteq Outstanding
        BY <2>2, <2>3, <2>4, <2>7 DEF Outstanding
    <2> QED
        BY <1>4, <2>1, <2>8, <2>10, <2>11, <2>12, <2>13 DEF Pooled
<1>5. ASSUME NEW w \in Workers, Returned(w), futures' = futures PROVE Pooled'
    <2>1. place[w] = "run" /\ done' = done \cup {task[w]} /\ queue' = queue
          /\ place' = [place EXCEPT ![w] = "test"] /\ task' = [task EXCEPT ![w] = NoTask]
        BY <1>5 DEF Returned
    <2>2. \A v \in Workers : /\ v # w => place'[v] = place[v] /\ task'[v] = task[v]
                             /\ v = w => place'[v] # "run"
        BY <1>0, <2>1
    <2>3. RunningTasks' = RunningTasks \ {task[w]}
        <3>1. \A v \in Workers : v # w /\ place[v] = "run" => task[v] # task[w]
            BY <2>1 DEF Pooled
        <3>2. RunningTasks' = {task[v] : v \in {u \in Workers : u # w /\ place[u] = "run"}}
            BY <2>2 DEF RunningTasks
        <3> QED
            BY <3>1, <3>2 DEF RunningTasks
    <2>4. task[w] \in RunningTasks
        BY <2>1 DEF RunningTasks
    <2>5. Outstanding' \cup done' \subseteq Outstanding \cup done
        BY <2>1, <2>3, <2>4 DEF Outstanding
    <2>6. \A i \in DOMAIN queue' : queue'[i] \notin done'
        BY <2>1, <2>4 DEF Pooled
    <2>7. \A m \in RunningTasks' : m \notin done' /\ \A i \in DOMAIN queue' : queue'[i] # m
        BY <2>1, <2>3 DEF Pooled
    <2>8. \A u, v \in Workers :
             place'[u] = "run" /\ place'[v] = "run" /\ task'[u] = task'[v] => u = v
        <3> SUFFICES ASSUME NEW u \in Workers, NEW v \in Workers,
                            place'[u] = "run", place'[v] = "run", task'[u] = task'[v]
                     PROVE  u = v
            OBVIOUS
        <3>1. place[u] = "run" /\ place[v] = "run" /\ task'[u] = task[u] /\ task'[v] = task[v]
            BY <2>2
        <3> QED
            BY <3>1 DEF Pooled
    <2>9. \A m \in Outstanding' \cup done' : m \in futures'[m[1]]
        BY <1>5, <2>5 DEF Pooled
    <2>10. \A i, j \in DOMAIN queue' : queue'[i] = queue'[j] => i = j
        BY <2>1 DEF Pooled
    <2> QED
        BY <2>6, <2>7, <2>8, <2>9, <2>10 DEF Pooled
<1> QED
    BY <1>1, <1>2, <1>3, <1>4, <1>5, TaskSteps

------------------------------------------------------------------------------
(* Detached threads                                                         *)

\* As long as each detached thread runs before the GTP loop comes to what they
\* share, one player at most is on its way out, and what the threads of play will
\* reset is of the player of the GTP loop.
Promptly ==
    /\ ~misused
    /\ \A p \in Players : drops[p] > 0 \/ fathers[p] > 0 => p = mcts_player
    /\ \A p \in Players : fathers[p] > 0 => root[p]
    /\ step = "swap" => tmp[mcts_player] /\ drops[mcts_player] = 0
    /\ \A q, r \in recyclers : q = r
    /\ \A r \in recyclers :
          r.at = "begin" => tmp_mcts_player = r.of /\ life[r.of] = "alive"
    /\ \A p \in Players : life[p] = "alive" =>
          p = mcts_player \/ \E r \in recyclers : r.at = "begin" /\ r.of = p
Prompt == lagged \/ Promptly

LEMMA NotBehind ==
    ASSUME Typed, ~Behind
    PROVE  recyclers = {} /\ \A p \in Players : drops[p] = 0 /\ fathers[p] = 0
<1>1. drops \in [Players -> Nat] /\ fathers \in [Players -> Nat]
    BY DEF Typed, LifeTypes, DetachedTypes
<1> QED
    BY <1>1 DEF Behind

LEMMA PromptStep ==
    ASSUME Typed, Held, Prompt, GtpStep \/ ThreadStep
    PROVE  Prompt'
<1> SUFFICES ASSUME ~lagged' PROVE Promptly'
    BY DEF Prompt
<1>0. /\ life \in [Players -> {"unborn", "alive", "dying", "dead"}]
      /\ root \in [Players -> BOOLEAN] /\ tmp \in [Players -> BOOLEAN]
      /\ drops \in [Players -> Nat] /\ fathers \in [Players -> Nat]
      /\ recyclers \subseteq Recycler /\ NoPlayer \notin Players
      /\ mcts_player \in Players \cup {NoPlayer} /\ tmp_mcts_player \in Players \cup {NoPlayer}
    BY DEF Typed, LifeTypes, PlayerTypes, DetachedTypes, Recycler, CommandTypes, Players, NoPlayer
<1>1. ~lagged /\ Promptly
    <2>1. CASE UNCHANGED <<detachedVars, historyVars>> \/ Initialize \/ PlaySwap
        BY <2>1 DEF historyVars, Initialize, PlaySwap, Prompt
    <2>2. CASE PlayChild \/ PlayNew \/ ChooseResign \/ Delete \/ HandOver
        BY <2>2 DEF PlayChild, PlayNew, ChooseResign, Delete, HandOver, Lags, Prompt
    <2>3. CASE ThreadStep
        BY <2>3, ThreadLeaves DEF Prompt
    <2> QED
        BY <2>1, <2>2, <2>3, DetachedSteps DEF ThreadStep
<1> USE DEF Promptly
<1>2. CASE Initialize
    <2>1. PICK p \in Players :
              /\ life' = [life EXCEPT ![p] = "alive"] /\ root' = [root EXCEPT ![p] = TRUE]
              /\ mcts_player' = p
        BY <1>2 DEF Initialize
    <2>2. UNCHANGED <<tmp_mcts_player, tmp, drops, fathers, recyclers, misused>> /\ step' = "read"
        BY <1>2 DEF Initialize, detachedVars, Goes
    <2>3. mcts_player = NoPlayer
        BY <1>2 DEF Initialize, Held
    <2>4. \A q \in Players : drops[q] = 0 /\ fathers[q] = 0
        BY <1>0, <1>1, <2>3
    <2>5. \A r \in recyclers : r.of \in Players
        BY <1>0 DEF Recycler
    <2>6. \A r \in recyclers : r.at = "begin" => tmp_mcts_player' = r.of /\ life'[r.of] = "alive"
        BY <1>0, <1>1, <2>1, <2>2, <2>5
    <2>7. \A q \in Players : life'[q] = "alive" =>
             q = mcts_player' \/ \E r \in recyclers : r.at = "begin" /\ r.of = q
        BY <1>0, <1>1, <2>1, <2>3
    <2> QED
        BY <1>1, <2>2, <2>4, <2>6, <2>7
<1>3. CASE PlayChild
    <2>1. ~Behind /\ mcts_player \in Players /\ root[mcts_player]
        BY <1>1, <1>3 DEF PlayChild, Lags, Typed, Playing
    <2>2. recyclers = {} /\ \A p \in Players : drops[p] = 0 /\ fathers[p] = 0
        BY <2>1, NotBehind
    <2>3. UNCHANGED <<mcts_player, tmp_mcts_player, life, root, tmp, drops, recyclers, misused>>
          /\ fathers' = [fathers EXCEPT ![mcts_player] = @ + 1]
        BY <1>3 DEF PlayChild, playerVars
    <2>4. step' # "swap"
        BY <1>3 DEF PlayChild, AfterPlay, Goes
    <2> QED
        BY <1>0, <1>1, <2>1, <2>2, <2>3, <2>4
<1>4. CASE PlayNew
    <2>1. ~Behind /\ mcts_player \in Players
        BY <1>1, <1>4 DEF PlayNew, Lags, Typed, Playing
    <2>2. recyclers = {} /\ \A p \in Players : drops[p] = 0 /\ fathers[p] = 0
        BY <2>1, NotBehind
    <2>3. UNCHANGED <<mcts_player, tmp_mcts_player, life, root, drops, fathers, recyclers, misused>>
          /\ tmp' = [tmp EXCEPT ![mcts_player] = TRUE]
        BY <1>4 DEF PlayNew, detachedVars
    <2> QED
        BY <1>0, <1>1, <2>1, <2>2, <2>3
<1>5. CASE PlaySwap
    <2>1. tmp[mcts_player] /\ mcts_player \in Players
        BY <1>1, <1>5 DEF PlaySwap, Typed, Playing
    <2>2. /\ UNCHANGED <<mcts_player, tmp_mcts_player, life, fathers, recyclers, misused>>
          /\ root' = [root EXCEPT ![mcts_player] = tmp[mcts_player]]
          /\ drops' = [drops EXCEPT ![mcts_player] = @ + 1]
        BY <1>5 DEF PlaySwap, historyVars
    <2>3. step' # "swap"
        BY <1>5 DEF PlaySwap, AfterPlay, Goes
    <2>4. \A p \in Players : drops'[p] > 0 \/ fathers'[p] > 0 => p = mcts_player'
        BY <1>0, <1>1, <2>1, <2>2
    <2>5. \A p \in Players : fathers'[p] > 0 => root'[p]
        BY <1>0, <1>1, <2>1, <2>2
    <2> QED
        BY <1>1, <2>2, <2>3, <2>4, <2>5
<1>6. CASE ChooseResign
    <2>1. ~Behind
        BY <1>1, <1>6 DEF ChooseResign, Lags
    <2>2. recyclers = {} /\ \A p \in Players : drops[p] = 0 /\ fathers[p] = 0
        BY <2>1, NotBehind
    <2>3. UNCHANGED <<mcts_player, tmp_mcts_player, life, drops, fathers, recyclers, misused>>
          /\ step' = "read"
        BY <1>6 DEF ChooseResign, Goes, detachedVars
    <2> QED
        BY <1>0, <1>1, <2>2, <2>3
<1>7. CASE Delete
    <2>1. ~Behind /\ mcts_player \in Players
        BY <1>1, <1>7 DEF Delete, Lags, Typed, Playing
    <2>2. recyclers = {} /\ \A p \in Players : drops[p] = 0 /\ fathers[p] = 0
        BY <2>1, NotBehind
    <2>3. UNCHANGED <<drops, fathers, recyclers, misused>>
          /\ life' = [life EXCEPT ![mcts_player] = "dead"]
        BY <1>7 DEF Delete, Destroyed, detachedVars
    <2>4. step' # "swap"
        BY <1>7 DEF Delete, Goes
    <2> QED
        BY <1>0, <1>1, <2>1, <2>2, <2>3, <2>4
<1>8. CASE HandOver
    <2>1. ~Behind /\ mcts_player \in Players /\ life[mcts_player] = "alive"
        BY <1>0, <1>1, <1>8 DEF HandOver, Lags, Typed, Playing, Held
    <2>2. recyclers = {} /\ \A p \in Players : drops[p] = 0 /\ fathers[p] = 0
        BY <2>1, NotBehind
    <2>3. /\ UNCHANGED <<drops, fathers, life, misused>>
          /\ tmp_mcts_player' = mcts_player /\ mcts_player' = NoPlayer
          /\ recyclers' = {[of |-> mcts_player, what |-> NoPlayer, at |-> "begin"]}
        BY <1>8, <2>2 DEF HandOver, playerVars
    <2>4. step' = "initialize"
        BY <1>8 DEF HandOver, Goes, AfterHandOver
    <2> QED
        BY <1>0, <1>1, <2>1, <2>2, <2>3, <2>4
<1>9. ASSUME NEW r \in recyclers, RecycleBegin(r) PROVE Promptly'
    <2>1. r \in Recycler /\ \A q \in recyclers : q = r
        BY <1>0, <1>1
    <2>2. /\ r.at = "begin" /\ tmp_mcts_player = r.of /\ life[r.of] = "alive" /\ r.of \in Players
          /\ tmp_mcts_player # NoPlayer
        BY <1>0, <1>1, <1>9, <2>1 DEF RecycleBegin, Recycler
    <2>3. /\ life' = [life EXCEPT ![r.of] = "dying"] /\ misused' = (misused \/ life[r.of] # "alive")
          /\ UNCHANGED <<step, mcts_player, tmp_mcts_player, root, tmp, drops, fathers>>
        BY <1>9, <2>2 DEF RecycleBegin, Discarded, gtpVars
    <2>4. PICK q : recyclers' = {q} /\ q.at = "delete"
        <3>1. recyclers' = {[r EXCEPT !.what = tmp_mcts_player, !.at = "delete"]}
            BY <1>9, <2>1 DEF RecycleBegin, Discarded
        <3>2. [r EXCEPT !.what = tmp_mcts_player, !.at = "delete"].at = "delete"
            BY <2>1 DEF Recycler
        <3> QED
            BY <3>1, <3>2
    <2>5. \A p \in Players : life'[p] = "alive" => p = mcts_player'
        BY <1>0, <1>1, <2>1, <2>3
    <2> QED
        BY <1>1, <2>2, <2>3, <2>4, <2>5
<1>10. ASSUME NEW r \in recyclers, RecycleDelete(r) PROVE Promptly'
    <2>1. r \in Recycler /\ (\A q \in recyclers : q = r) /\ r.at = "delete"
        BY <1>0, <1>1, <1>10 DEF RecycleDelete
    <2>2. UNCHANGED <<step, mcts_player, tmp_mcts_player, drops, fathers, misused>>
        BY <1>10 DEF RecycleDelete, gtpVars, historyVars
    <2>3. PICK q : recyclers' = {q} /\ q.at = "clear"
        <3>1. recyclers' = {[r EXCEPT !.at = "clear"]}
            BY <1>10, <2>1 DEF RecycleDelete
        <3>2. [r EXCEPT !.at = "clear"].at = "clear"
            BY <2>1 DEF Recycler
        <3> QED
            BY <3>1, <3>2
    <2>4. r.what # NoPlayer => r.what # mcts_player /\ r.what \in Players
        BY <1>0, <2>1 DEF Held, Recycler
    <2>5. \A p \in Players :
             /\ life'[p] = "alive" => life[p] = "alive"
             /\ p = mcts_player => root'[p] = root[p] /\ tmp'[p] = tmp[p]
        BY <1>0, <1>10, <2>4 DEF RecycleDelete, Destroyed, playerVars
    <2>6. \A p \in Players : fathers'[p] > 0 => root'[p]
        BY <1>1, <2>2, <2>5
    <2>7. step' = "swap" => tmp'[mcts_player'] /\ drops'[mcts_player'] = 0
        BY <1>1, <2>2, <2>5 DEF Typed, Playing
    <2>8. \A p \in Players : life'[p] = "alive" => p = mcts_player'
        BY <1>1, <2>1, <2>2, <2>5
    <2> QED
        BY <1>1, <2>2, <2>3, <2>6, <2>7, <2>8
<1>11. ASSUME NEW r \in recyclers, RecycleEnd(r) PROVE Promptly'
    <2>1. (\A q \in recyclers : q = r) /\ r.at = "clear" /\ recyclers' = {}
        BY <1>1, <1>11 DEF RecycleEnd
    <2>2. UNCHANGED <<step, mcts_player, life, root, tmp, drops, fathers, misused>>
        BY <1>11 DEF RecycleEnd, playerVars, historyVars
    <2> QED
        BY <1>1, <2>1, <2>2
<1>12. ASSUME NEW p \in Players, DropTmp(p) PROVE Promptly'
    <2>1. p = mcts_player /\ life[p] # "dead" /\ drops[p] > 0
        BY <1>0, <1>1, <1>12 DEF DropTmp, Held
    <2>2. /\ UNCHANGED <<step, mcts_player, tmp_mcts_player, life, root, fathers, recyclers>>
          /\ ~misused' /\ drops' = [drops EXCEPT ![p] = @ - 1]
        BY <1>1, <1>12, <2>1 DEF DropTmp, gtpVars, Touched
    <2>3. step # "swap"
        BY <1>1, <2>1
    <2> QED
        BY <1>0, <1>1, <2>1, <2>2, <2>3
<1>13. ASSUME NEW p \in Players, DropFather(p) PROVE Promptly'
    <2>1. p = mcts_player /\ life[p] # "dead" /\ root[p]
        BY <1>0, <1>1, <1>13 DEF DropFather, Held
    <2>2. /\ UNCHANGED <<step, mcts_player, tmp_mcts_player, life, root, tmp, drops, recyclers>>
          /\ ~misused' /\ fathers' = [fathers EXCEPT ![p] = @ - 1]
        BY <1>1, <1>13, <2>1 DEF DropFather, Touched, playerVars
    <2>3. \A q \in Players : fathers'[q] > 0 => fathers[q] > 0
        BY <1>0, <2>2
    <2> QED
        BY <1>1, <2>2, <2>3
<1>14. CASE UNCHANGED <<detachedVars, historyVars>>
    <2>1. UNCHANGED <<drops, fathers, recyclers, misused>>
        BY <1>14 DEF detachedVars, historyVars
    <2>2. CASE \/ Initialize \/ PlayNew \/ PlaySwap \/ ChooseResign \/ Delete \/ HandOver
               \/ \E r \in recyclers : RecycleBegin(r) \/ RecycleDelete(r) \/ RecycleEnd(r)
               \/ \E p \in Players : DropTmp(p) \/ DropFather(p)
        BY <1>2, <1>4, <1>5, <1>6, <1>7, <1>8, <1>9, <1>10, <1>11, <1>12, <1>13, <2>2
    <2>3. ASSUME UNCHANGED <<life, root, tmp, mcts_player, tmp_mcts_player>>,
                 step' = "swap" => step = "swap"
          PROVE  Promptly'
        BY <1>1, <2>1, <2>3
    <2>4. CASE \E c \in Commands : ReadCommand(c)
        BY <2>3, <2>4 DEF ReadCommand, playerVars
    <2>5. CASE StopPondering \/ PlayAsserts \/ PlayNothing \/ PlayChild
        <3>1. UNCHANGED <<life, root, tmp, mcts_player, tmp_mcts_player>>
            BY <2>5 DEF StopPondering, PlayAsserts, PlayNothing, PlayChild, playerVars
        <3>2. step' # "swap"
            BY <2>5 DEF StopPondering, PlayAsserts, PlayNothing, PlayChild, AfterPlay, Goes
        <3> QED
            BY <2>3, <3>1, <3>2
    <2>6. CASE SayPass \/ BeginSearch \/ Commit \/ Notify \/ WaitSearch \/ ChooseMove
        <3>1. UNCHANGED <<life, root, tmp, mcts_player, tmp_mcts_player>>
            BY <2>6 DEF SayPass, BeginSearch, Commit, Notify, WaitSearch, ChooseMove, playerVars
        <3>2. step' # "swap"
            BY <2>6 DEF SayPass, BeginSearch, Commit, Notify, WaitSearch, ChooseMove, Goes
        <3> QED
            BY <2>3, <3>1, <3>2
    <2>7. CASE OnExecutor(Built) \/ \E w \in Workers : \/ OnExecutor(WorkerStep(w))
                                                      \/ OnExecutor(TaskReturns(w))
                                                      \/ StopRollout(w)
        BY <2>3, <2>7 DEF OnExecutor, StopRollout, gtpVars, playerVars
    <2> QED
        BY <2>2, <2>4, <2>5, <2>6, <2>7 DEF GtpStep, ThreadStep
<1> QED
    BY <1>2, <1>3, <1>4, <1>5, <1>6, <1>7, <1>8, <1>9, <1>10, <1>11, <1>12, <1>13, <1>14,
       DetachedSteps

\* Why a null player or root is met.
Explained ==
    /\ ~Over /\ mcts_player = NoPlayer /\ step # "initialize" => resigned
    /\ ~Over /\ mcts_player # NoPlayer /\ ~root[mcts_player] => resigned
    /\ step = "crash" => resigned \/ lagged

LEMMA ExplainedStep ==
    ASSUME Typed, Held, Prompt, Explained, ~Over, GtpStep \/ ThreadStep
    PROVE  Explained'
<1> USE DEF Explained, Over
<1>0. /\ root \in [Players -> BOOLEAN] /\ NoPlayer \notin Players
      /\ mcts_player \in Players \cup {NoPlayer}
    BY DEF Typed, LifeTypes, PlayerTypes, CommandTypes, Players, NoPlayer
<1>1. CASE Initialize
    BY <1>0, <1>1 DEF Initialize, Goes
<1>2. ASSUME NEW c \in Commands, ReadCommand(c) PROVE Explained'
    <2>1. UNCHANGED <<mcts_player, root, resigned, lagged>> /\ step = "read"
        BY <1>2 DEF ReadCommand, playerVars, historyVars
    <2>2. mcts_player # NoPlayer => step' # "crash"
        BY <1>2 DEF ReadCommand
    <2> QED
        BY <2>1, <2>2
<1>3. CASE StopPondering \/ PlayNothing \/ PlayChild \/ PlayNew
    <2>1. UNCHANGED <<mcts_player, root, resigned>> /\ mcts_player # NoPlayer
        BY <1>0, <1>3 DEF StopPondering, PlayNothing, PlayChild, PlayNew, playerVars,
                          historyVars, Typed, Playing
    <2>2. step' # "crash"
        BY <1>3 DEF StopPondering, PlayNothing, PlayChild, PlayNew, AfterPlay, Goes
    <2> QED
        BY <2>1, <2>2
<1>4. CASE PlayAsserts
    BY <1>0, <1>4 DEF PlayAsserts, historyVars, playerVars, Typed, Playing
<1>5. CASE PlaySwap
    <2>1. mcts_player' = mcts_player /\ mcts_player \in Players /\ UNCHANGED <<lagged, resigned>>
        BY <1>5 DEF PlaySwap, historyVars, Typed, Playing
    <2>2. root'[mcts_player] = tmp[mcts_player]
        BY <1>0, <1>5, <2>1 DEF PlaySwap
    <2>3. IF tmp[mcts_player] THEN step' \in {"read", "delete", "search"} ELSE step' = "crash"
        BY <1>5 DEF PlaySwap, AfterPlay, Goes
    <2>4. tmp[mcts_player] \/ lagged
        BY <1>5 DEF PlaySwap, Prompt, Promptly
    <2> QED
        BY <1>0, <2>1, <2>2, <2>3, <2>4
<1>6. CASE SayPass \/ BeginSearch \/ Commit \/ Notify \/ WaitSearch \/ ChooseMove
    <2>1. UNCHANGED <<mcts_player, root, resigned>> /\ mcts_player # NoPlayer
        BY <1>0, <1>6 DEF SayPass, BeginSearch, Commit, Notify, WaitSearch, ChooseMove,
                          playerVars, historyVars, Typed, Playing
    <2>2. step' # "crash"
        BY <1>6 DEF SayPass, BeginSearch, Commit, Notify, WaitSearch, ChooseMove, Goes
    <2> QED
        BY <2>1, <2>2
<1>7. CASE ChooseResign
    BY <1>7 DEF ChooseResign, Goes
<1>8. CASE Delete
    BY <1>8 DEF Delete, Goes
<1>9. CASE HandOver
    BY <1>9 DEF HandOver, Goes, AfterHandOver
<1>10. CASE ThreadStep
    <2>1. UNCHANGED <<mcts_player, lagged, resigned>> /\ step' \in {step, "crash"}
        BY <1>10, ThreadLeaves
    <2>2. mcts_player \in Players => root'[mcts_player] = root[mcts_player]
        BY <1>10, RootKept
    <2>3. step' = step \/ lagged
        <3>1. ASSUME NEW p \in Players, DropFather(p) PROVE step' = step \/ lagged
            BY <3>1 DEF DropFather, Prompt, Promptly
        <3>2. CASE \/ OnExecutor(Built)
                   \/ \E w \in Workers : OnExecutor(WorkerStep(w)) \/ OnExecutor(TaskReturns(w))
                                        \/ StopRollout(w)
                   \/ \E r \in recyclers : RecycleBegin(r) \/ RecycleDelete(r) \/ RecycleEnd(r)
                   \/ \E p \in Players : DropTmp(p)
            BY <3>2 DEF OnExecutor, StopRollout, RecycleBegin, RecycleDelete, RecycleEnd,
                        DropTmp, gtpVars
        <3> QED
            BY <1>10, <3>1, <3>2 DEF ThreadStep
    <2> QED
        BY <1>0, <2>1, <2>2, <2>3
<1> QED
    BY <1>1, <1>2, <1>3, <1>4, <1>5, <1>6, <1>7, <1>8, <1>9, <1>10 DEF GtpStep

------------------------------------------------------------------------------
(* Theorems                                                                 *)

Inv == Typed /\ Held /\ Rooted /\ Sent /\ Pooled /\ Prompt /\ Explained

LEMMA InvInit == Init => Inv
<1> SUFFICES ASSUME Init PROVE Inv
    OBVIOUS
<1>1. Typed
    BY TypedInit
<1>2. Held
    BY DEF Init, Held
<1>3. Rooted /\ Explained
    BY DEF Init, Rooted, Explained
<1>4. Sent
    BY DEF Init, Sent
<1>5. Pooled
    <2>1. queue = <<>> /\ done = {} /\ \A w \in Workers : place[w] # "run"
        BY DEF Init, ExecutorInit
    <2>2. DOMAIN queue = {} /\ RunningTasks = {}
        BY <2>1, EmptySeq DEF RunningTasks
    <2> QED
        BY <2>1, <2>2 DEF Pooled, Outstanding
<1>6. Promptly
    BY DEF Init, Promptly
<1> QED
    BY <1>1, <1>2, <1>3, <1>4, <1>5, <1>6 DEF Inv, Prompt

LEMMA InvStep == Inv /\ [Next]_vars => Inv'
<1> SUFFICES ASSUME Inv, [Next]_vars PROVE Inv'
    OBVIOUS
<1>0. Typed /\ Held /\ Rooted /\ Sent /\ Pooled /\ Prompt /\ Explained
    BY DEF Inv
<1>1. Typed'
    BY <1>0, TypedStep
<1>2. CASE UNCHANGED vars
    <2> USE <1>2 DEF vars, executorVars, gtpVars, playerVars, detachedVars, historyVars
    <2>1. Held' /\ Rooted'
        BY <1>0 DEF Held, Rooted, Over
    <2>2. Sent' /\ Pooled'
        BY <1>0 DEF Sent, Idle, Pooled, Outstanding, RunningTasks
    <2>3. Prompt' /\ Explained'
        BY <1>0 DEF Prompt, Promptly, Explained, Over
    <2> QED
        BY <1>1, <2>1, <2>2, <2>3 DEF Inv
<1>3. CASE ~Over /\ (GtpStep \/ ThreadStep)
    BY <1>0, <1>1, <1>3, HeldStep, RootedStep, SentStep, PooledStep, PromptStep, ExplainedStep
       DEF Inv
<1>4. CASE Dies
    <2> USE <1>4, DiesLeaves DEF executorVars, playerVars, detachedVars, historyVars
    <2>1. Held' /\ Rooted'
        BY <1>0 DEF Held, Rooted, Over
    <2>2. Sent' /\ Pooled'
        BY <1>0 DEF Sent, Idle, Pooled, Outstanding, RunningTasks
    <2>3. Prompt' /\ Explained'
        BY <1>0 DEF Prompt, Promptly, Explained, Over
    <2> QED
        BY <1>1, <2>1, <2>2, <2>3 DEF Inv
<1> QED
    BY <1>2, <1>3, <1>4 DEF Next, Ended

LEMMA InvHolds == Spec => []Inv
BY InvInit, InvStep, PTL DEF Spec

LEMMA OutstandingFutures ==
    ASSUME Inv, NEW k \in Outstanding
    PROVE  k[1] \in Players /\ k \in futures[k[1]]
<1>1. k \in Tasks
    BY ElementOfSeq DEF Inv, Typed, LifeTypes, ExecutorTypes, Occupied, Outstanding, RunningTasks
<1>2. k[1] \in Players
    BY <1>1, LifecycleAssumption
<1> QED
    BY <1>2 DEF Inv, Pooled

\* No rollout that is queued or running has lost its player or the root of its
\* tree: players are deleted only when stop_pondering has waited for their futures.
THEOREM RolloutsFindPlayerHolds == Spec => []RolloutsFindPlayer
<1>1. Inv => RolloutsFindPlayer
    <2> SUFFICES ASSUME Inv, ~Over, NEW k \in Outstanding
                 PROVE  life[k[1]] = "alive" /\ root[k[1]]
        BY DEF RolloutsFindPlayer
    <2>1. k[1] \in Players /\ k \in futures[k[1]]
        BY OutstandingFutures
    <2>2. k[1] = mcts_player /\ step \notin Idle
        BY <2>1 DEF Inv, Sent
    <2>3. life[mcts_player] = "alive"
        BY <2>1, <2>2 DEF Inv, Held, Players, NoPlayer
    <2>4. \/ root[mcts_player]
          \/ futures[mcts_player] = {}
        BY <2>1, <2>2 DEF Inv, Rooted, Players, NoPlayer
    <2> QED
        BY <2>1, <2>2, <2>3, <2>4
<1> QED
    BY InvHolds, <1>1, PTL

\* When a search for a move begins, the executor has no rollout left, and nothing
\* is left in search_thread_vec.
THEOREM SearchesApartHolds == Spec => []SearchesApart
<1>1. Inv => SearchesApart
    <2> SUFFICES ASSUME Inv, step = "search"
                 PROVE  futures[mcts_player] = {} /\ Outstanding = {}
        BY DEF SearchesApart
    <2>1. \A p \in Players : futures[p] = {}
        BY DEF Inv, Sent, Idle
    <2>2. mcts_player \in Players
        BY DEF Inv, Typed, Playing
    <2> QED
        BY <2>1, <2>2, OutstandingFutures
<1> QED
    BY InvHolds, <1>1, PTL

\* No player is deleted twice, used after or left behind, as long as each detached
\* thread runs before the GTP loop comes to what they share.
THEOREM HandedOverSoundlyHolds == Spec => []HandedOverSoundly
<1>1. Inv => HandedOverSoundly
    BY DEF Inv, Prompt, Promptly, HandedOverSoundly
<1> QED
    BY InvHolds, <1>1, PTL

\* A null player or root is met only after a resignation, or when a detached thread
\* came late.
THEOREM NullUseExplainedHolds == Spec => []NullUseExplained
<1>1. Inv => NullUseExplained
    BY DEF Inv, Explained, NullUseExplained
<1> QED
    BY InvHolds, <1>1, PTL

\* Every step of the process is one of the task pool, or none to it.
LEMMA PoolStep ==
    ASSUME Inv, [Next]_vars
    PROVE  \/ Pool!Submit \/ Pool!Start \/ Pool!End \/ Pool!Collect
           \/ UNCHANGED <<queue, RunningTasks, done>>
<1>0. Typed /\ Sent /\ Pooled
    BY DEF Inv
<1>1. CASE UNCHANGED vars
    BY <1>1 DEF vars, executorVars, RunningTasks
<1>2. CASE Unmoved
    BY <1>2 DEF Unmoved
<1>3. CASE Commit
    <2>1. /\ <<mcts_player, todo>> \in Tasks
          /\ <<mcts_player, todo>> \notin Outstanding \cup done
        BY <1>0, <1>3, FreshTask
    <2>2. queue' = Append(queue, <<mcts_player, todo>>) /\ UNCHANGED <<place, task, done>>
        BY <1>3 DEF Commit, Queued
    <2>3. RunningTasks' = RunningTasks
        BY <2>2 DEF RunningTasks
    <2> QED
        BY <2>1, <2>2, <2>3 DEF Pool!Submit, Outstanding
<1>4. CASE StopPondering \/ WaitSearch
    <2>1. done' = {} /\ UNCHANGED <<queue, place, task>>
        BY <1>0, <1>4, NothingLeft
    <2>2. RunningTasks' = RunningTasks
        BY <2>1 DEF RunningTasks
    <2> QED
        BY <2>1, <2>2 DEF Pool!Collect
<1>5. ASSUME NEW w \in Workers, Started(w) PROVE Pool!Start
    <2>1. place \in [Workers -> {"unborn", "test", "get", "asleep", "run", "ended"}]
          /\ task \in [Workers -> Tasks \cup {NoTask}]
        BY <1>0 DEF Typed, LifeTypes, ExecutorTypes
    <2>2. \A v \in Workers : (place'[v] = "run" <=> v = w \/ place[v] = "run")
                             /\ task'[v] = IF v = w THEN Head(queue) ELSE task[v]
        BY <1>5, <2>1 DEF Started
    <2>3. RunningTasks' = RunningTasks \cup {Head(queue)}
        BY <1>5, <2>2 DEF Started, RunningTasks
    <2> QED
        BY <1>5, <2>3 DEF Started, Pool!Start
<1>6. ASSUME NEW w \in Workers, Returned(w) PROVE Pool!End
    <2>1. place \in [Workers -> {"unborn", "test", "get", "asleep", "run", "ended"}]
          /\ task \in [Workers -> Tasks \cup {NoTask}]
        BY <1>0 DEF Typed, LifeTypes, ExecutorTypes
    <2>2. \A v \in Workers : (v # w => place'[v] = place[v] /\ task'[v] = task[v])
                             /\ (v = w => place'[v] # "run")
        BY <1>6, <2>1 DEF Returned
    <2>3. \A v \in Workers : v # w /\ place[v] = "run" => task[v] # task[w]
        BY <1>0, <1>6 DEF Pooled, Returned
    <2>4. RunningTasks' = RunningTasks \ {task[w]}
        <3>1. RunningTasks' = {task[v] : v \in {u \in Workers : u # w /\ place[u] = "run"}}
            BY <2>2 DEF RunningTasks
        <3> QED
            BY <2>3, <3>1 DEF RunningTasks
    <2>5. task[w] \in RunningTasks
        BY <1>6 DEF Returned, RunningTasks
    <2> QED
        BY <1>6, <2>4, <2>5 DEF Returned, Pool!End
<1>7. CASE Dies
    BY <1>7, DiesLeaves DEF executorVars, RunningTasks
<1> QED
    BY <1>0, <1>1, <1>2, <1>3, <1>4, <1>5, <1>6, <1>7, TaskSteps DEF Next, Ended

\* The executor is a task pool: whatever workers, the GTP loop and detached threads
\* do, tasks are started in the order of their commits and run once.
THEOREM RefinementHolds == Spec => Refinement
<1>1. Init => Pool!PoolInit
    <2> SUFFICES ASSUME Init PROVE queue = <<>> /\ RunningTasks = {} /\ done = {}
        BY DEF Pool!PoolInit
    <2>1. queue = <<>> /\ done = {} /\ \A w \in Workers : place[w] # "run"
        BY DEF Init, ExecutorInit
    <2> QED
        BY <2>1 DEF RunningTasks
<1>2. Inv /\ [Next]_vars =>
          [Pool!Submit \/ Pool!Start \/ Pool!End \/ Pool!Collect]_<<queue, RunningTasks, done>>
    BY PoolStep
<1> QED
    BY InvHolds, <1>1, <1>2, PTL DEF Spec, Refinement, Pool!PoolSpec

==============================================================================
