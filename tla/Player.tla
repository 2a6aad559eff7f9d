--------------------------------- MODULE Player ---------------------------------
(***************************************************************************)
(* A game: the GTP loop (src/Gtp.cpp) drives the player                    *)
(* (src/MCTSPlayer.cpp), which starts searches of Search.tla, chooses a    *)
(* move when they are over, and hands the part of the tree below the move  *)
(* over to the next search.  With pondering a search also runs while the   *)
(* opponent thinks, and a command first stops it.                          *)
(*                                                                         *)
(* A stop sets an exit flag that the loop of rollout sees on its next      *)
(* iteration; Search lets the loop end at any iteration, so the flag needs *)
(* no variable.  Commands that only print are left out.                    *)
(*                                                                         *)
(* A failed request can outlive the rollout that sent it.  Its callback    *)
(* then writes to a local of the rollout (eval_latency), so a game in      *)
(* which a move leaves such a request behind is followed no further: its   *)
(* phase is "lost".                                                        *)
(***************************************************************************)
EXTENDS Search

CONSTANTS Pondering,  \* is_pondering
          StopAfter,  \* moves after which a UEC game is only passed (400)
          MaxMoves    \* bound: moves of the game

ASSUME PlayerAssumption ==
    Pondering \in BOOLEAN /\ StopAfter \in Nat /\ MaxMoves \in Nat

VARIABLES
    phase,    \* what the GTP loop does: it reads commands, with or without
              \* pondering beside it, it waits for a search, or it has ended
    genmove,  \* is_lcmd_genmove: the last command was genmove
    passed,   \* op_action is the pass
    before,   \* visits that the root had when the search began
    stop_rollout

playerVars == <<phase, genmove, passed, before, stop_rollout>>
allVars == <<vars, playerVars>>

GameInit ==
    /\ tree = NewTree /\ played = <<>> /\ own = TRUE /\ above = FALSE
    /\ pc = [t \in Threads |-> "over"]
    /\ at = [t \in Threads |-> Root]
    /\ counted = [t \in Threads |-> 0]
    /\ rounds = [t \in Threads |-> 0]
    /\ jobs = {}
    /\ phase = "gtp" /\ genmove = FALSE /\ passed = FALSE /\ before = 0
    /\ stop_rollout = FALSE

Playing == phase \in {"gtp", "think", "ponder"}

\* The rollouts have returned: stop_pondering waits for their futures.  The
\* fault does not wait.
NotStopped == TRUE
Quiet == AllOver
MayMove == phase \in {"gtp", "ponder"} /\ Quiet /\ ~Crashed

------------------------------------------------------------------------------
(* The tree is handed over                                                  *)

\* root.swap: the child becomes the root and keeps what is below it.
Below(i) ==
    LET k == <<i, tree[Root].gen>>
    IN  [x \in {Tail(y) : y \in {z \in DOMAIN tree : z # Root /\ Head(z) = k}} |->
            tree[<<k>> \o x]]

\* play: the opponent's move.  A detached thread will reset the father of the
\* new root.  A move without a child in nexts gives a new tree.
Replied(i) ==
    /\ played' = Append(played, i)
    /\ passed' = (i = PassMove)
    /\ \/ tree[Root].gen > 0 /\ tree' = Below(i) /\ above' = TRUE
       \/ tree' = NewTree /\ above' = FALSE

\* Nobody has a move to add beyond the bound.
Room(n) == Len(played) + n <= MaxMoves

------------------------------------------------------------------------------
(* Commands                                                                 *)

\* Each thread of the executor takes a rollout.  est_timeout_rollout leaves it no
\* time when it sets stop_rollout.
StartThreads(mine) ==
    /\ pc' = [t \in Threads |-> IF stop_rollout' THEN "poll" ELSE "top"]
    /\ at' = [t \in Threads |-> Root]
    /\ counted' = [t \in Threads |-> 0]
    /\ rounds' = [t \in Threads |-> 0]
    /\ own' = mine
    /\ before' = tree'[Root].total_n + tree'[Root].gen

\* play, after pondering is stopped.
CmdPlay ==
    /\ MayMove /\ ~stop_rollout /\ jobs = {} /\ Room(1)
    /\ \E i \in Moves : Replied(i)
    /\ phase' = "gtp" /\ genmove' = FALSE
    /\ UNCHANGED <<pc, at, counted, rounds, jobs, own, before, stop_rollout>>

\* play of a resignation: the player is deleted.  Of a move that is none: exit(1).
CmdPlayEnds ==
    /\ MayMove
    /\ phase' = "ended"
    /\ UNCHANGED <<vars, genmove, passed, before, stop_rollout>>

\* genmove, after pondering is stopped: a second one in a row takes it that the
\* opponent has passed.
CmdGenmove ==
    /\ MayMove /\ ~stop_rollout /\ jobs = {} /\ Room(IF genmove THEN 2 ELSE 1)
    /\ IF genmove THEN Replied(PassMove) ELSE UNCHANGED <<tree, played, passed, above>>
    /\ phase' = "think"
    /\ stop_rollout' = (Len(played') >= StopAfter)
    /\ StartThreads(TRUE)
    /\ UNCHANGED <<jobs, genmove>>

\* When stop_rollout is set, play does nothing, gen_apply_move says pass and
\* start_pondering does nothing.
CmdStopped ==
    /\ MayMove /\ stop_rollout
    /\ phase' = "gtp" /\ genmove' \in BOOLEAN
    /\ UNCHANGED <<vars, passed, before, stop_rollout>>

\* mcts_select_action: the first of the children with the most visits, where the
\* pass counts only if it is safe; or the pass, in reply to a pass.
FirstOfMost(S) ==
    {i \in S : \A j \in S :
        \/ tree[Kid(Root, i)].n > tree[Kid(Root, j)].n
        \/ tree[Kid(Root, i)].n = tree[Kid(Root, j)].n /\ i <= j}
BestMoves ==
    FirstOfMost(Moves)
        \cup (IF Moves = {PassMove} THEN {PassMove} ELSE FirstOfMost(Moves \ {PassMove}))
        \cup (IF passed THEN {PassMove} ELSE {})

\* gen_apply_move goes on when the rollouts are over.
Searched == phase = "think" /\ AllOver /\ tree[Root].gen > 0

ChooseMove ==
    /\ Searched /\ jobs = {}
    /\ \E i \in BestMoves :
          /\ tree' = Below(i)
          /\ played' = Append(played, i)
    /\ above' = FALSE
    /\ genmove' = TRUE
    /\ UNCHANGED <<jobs, passed, stop_rollout>>
    /\ IF Pondering /\ ~stop_rollout THEN phase' = "ponder" /\ StartThreads(FALSE)
       ELSE phase' = "gtp" /\ UNCHANGED <<pc, at, counted, rounds, own, before>>

\* The win rate of the move is below resign_threshold, and root is reset; or the
\* board refuses the move: exit(1).
ChooseEnds ==
    /\ Searched
    /\ phase' = "ended"
    /\ UNCHANGED <<vars, genmove, passed, before, stop_rollout>>

\* nexts is NULL: "it should never happend", exit(1).
ChooseNothing ==
    /\ phase = "think" /\ AllOver /\ tree[Root].gen = 0
    /\ phase' = "ended"
    /\ UNCHANGED <<vars, genmove, passed, before, stop_rollout>>

\* A move of either side while a failed request waits to be sent again, or has
\* been: get_pending did not count it.
LeaveRequests ==
    /\ jobs # {}
    /\ (MayMove /\ ~stop_rollout) \/ Searched
    /\ phase' = "lost"
    /\ UNCHANGED <<vars, genmove, passed, before, stop_rollout>>

\* The detached thread of play resets root->father.
Recycle ==
    /\ above /\ Playing
    /\ above' = FALSE
    /\ UNCHANGED <<tree, pc, at, counted, rounds, jobs, played, own, playerVars>>

------------------------------------------------------------------------------
During(A) == Playing /\ ~Crashed /\ A /\ UNCHANGED playerVars
SearchStep ==
    \/ During(\E t \in Threads : ThreadStep(t))
    \/ During(\E j \in jobs : CallbackStep(j) \/ Aside(j) \/ Retry(j))

GameOver == (~Playing \/ Crashed \/ ~Room(1)) /\ UNCHANGED allVars

GameNext ==
    \/ SearchStep
    \/ CmdPlay \/ CmdPlayEnds \/ CmdGenmove \/ CmdStopped
    \/ ChooseMove \/ ChooseEnds \/ ChooseNothing
    \/ LeaveRequests
    \/ Recycle
    \/ GameOver

GameSpec == GameInit /\ [][GameNext]_allVars

\* The search goes on as Search has it, a failed request is sent again (the loop of
\* the client), and the GTP loop goes on when the search is over.
GameFairness ==
    /\ \A t \in Threads : WF_allVars(During(ThreadStep(t)))
    /\ WF_allVars(During(\E j \in jobs : CallbackStep(j)))
    /\ WF_allVars(During(\E j \in jobs : Retry(j)))
    /\ WF_allVars(phase = "think" /\ (ChooseMove \/ ChooseEnds \/ ChooseNothing \/ LeaveRequests))

LiveGameSpec == GameSpec /\ GameFairness

------------------------------------------------------------------------------
(* Properties                                                               *)

GameTypeOK ==
    /\ TypeOK
    /\ phase \in {"gtp", "think", "ponder", "lost", "ended"}
    /\ genmove \in BOOLEAN /\ passed \in BOOLEAN /\ before \in Nat
    /\ stop_rollout \in BOOLEAN

\* The tree is handed over only when no thread is in it, and no callback but of
\* a request that has failed: no other is left above the new root (assert in
\* gen_apply_move; stop_pondering).
TreeMoves == played' # played \/ (phase' = "lost" /\ phase # "lost")
MovedWhenQuiet == [][TreeMoves => AllOver /\ \A j \in jobs : j.failed > 0]_allVars

\* Over the whole game each rollout counted becomes one visit below the root,
\* pondering and handed-over subtrees included.
GameCounted ==
    AllOver /\ jobs = {} /\ phase \in {"think", "ponder"} =>
        tree[Root].total_n + tree[Root].gen = before + MapThenSumSet(Counted, Threads)

\* "it should never happend" (MCTSTree.cpp:289): when the search for a move has
\* gone round its loop and no request of it is left, the root has children to
\* choose from.
MoveToChoose == phase = "think" /\ jobs = {} => RootExpanded

\* Every genmove is answered: neither the wait for the root nor the poll of
\* get_pending, for a move or in stop_pondering, lasts for ever.
GenmoveAnswered == phase = "think" ~> phase # "think"
==============================================================================
