-------------------------------- MODULE TimePolicy --------------------------------
(***************************************************************************)
(* The time and the rollouts of a search: est_timeout_rollout and          *)
(* cal_rollout_speed of src/MCTSPlayer.cpp, run by every search thread on  *)
(* fields that the threads share, with the parameters of the configuration *)
(* file and the time that GTP's time_left reports.                         *)
(*                                                                         *)
(* Times are in milliseconds, as the code has them, where it does not take *)
(* whole seconds.  What a search costs is the environment's: any of what   *)
(* the time-out allows, and Overrun.  The build is optimised (-O2), so     *)
(* est_timeout_rollout stores dynamic_timeout and dynamic_rollout once.    *)
(***************************************************************************)
EXTENDS Configuration

CONSTANTS Files,        \* configuration files
          Starts,       \* bound: moves of the history the program is started with
          Clocks,       \* bound: the engine's clock at the start, in ms
          OtherClocks,  \* bound: times reported for the opponent, in s
          Speeds,       \* bound: rollouts per second that are measured
          MaxThreads,   \* bound: search_threads
          MaxSearches,  \* bound: searches
          Overrun,      \* what a search takes beyond its time-out
          Need          \* see EnoughTime

MaxInt == 2147483647
InitRolloutSpeed == 850
Threads == 1..MaxThreads

ASSUME TimeAssumption == Overrun \in 0..200 /\ MaxThreads \in Nat \ {0}
ASSUME FilesAssumption == Files \subseteq Seq(Lines)
ASSUME BoundsAssumption ==
    /\ Starts \subseteq Nat /\ Clocks \subseteq Nat /\ OtherClocks \subseteq Nat
    /\ Speeds \subseteq Nat
ASSUME NeedAssumption ==
    /\ Need \in [1..50 -> Nat]
    /\ \A r \in 2..50 : (r - 1) * Need[r] >= r * (Need[r - 1] + Overrun) + 1000

VARIABLES
    phase,            \* boot, theirs, ours, searching, or why it is over
    file,             \* the configuration file, while it is read
    config,           \* the parameters
    moves,            \* root_board->get_total_moves()
    color,            \* the colour the engine plays
    clock,            \* the engine's clock
    reported,         \* time_left was sent for the engine in this turn
    time_remain,
    is_uec,
    stop_rollout,
    dynamic_timeout,
    dynamic_rollout,
    rollout_speed,
    pc,               \* where each search thread is
    safe_time,        \* its local
    loaded,           \* the rollout_speed it computes with
    searches          \* history: searches begun

setup == <<file, config, color, is_uec>>
board == <<moves, stop_rollout>>
timing == <<clock, reported, time_remain>>
budget == <<dynamic_timeout, dynamic_rollout, rollout_speed>>
locals == <<pc, safe_time, loaded>>
vars == <<phase, setup, board, timing, budget, locals, searches>>

Init ==
    /\ phase = "boot" /\ file \in Files
    /\ config = [key \in Keys |-> Default(key)]
    /\ moves = 0 /\ color = 0 /\ clock = 0 /\ reported = FALSE
    /\ time_remain = 600 /\ is_uec = FALSE /\ stop_rollout = FALSE
    /\ dynamic_timeout = 0 /\ dynamic_rollout = 0 /\ rollout_speed = 0
    /\ pc = [t \in Threads |-> "done"]
    /\ safe_time = [t \in Threads |-> 0] /\ loaded = [t \in Threads |-> 0]
    /\ searches = 0

------------------------------------------------------------------------------
(* The program starts                                                       *)

\* Config::Sinit; main has no handler for what the reader throws.
ReadConfig ==
    /\ phase = "boot"
    /\ file' = <<>>
    /\ IF ~Opens(file) \/ SinitThrows(file)
       THEN phase' = "aborted" /\ UNCHANGED config
       ELSE phase' = "configured" /\ config' = Sinit(file)
    /\ UNCHANGED <<color, is_uec, board, timing, budget, locals, searches>>

Truncated(a, b) == IF a >= 0 THEN a \div b ELSE -((-a) \div b)
MyMove == moves \div 2

\* MCTSPlayer::MCTSPlayer, with a history.  is_uec is whatever is in that memory.
Construct ==
    /\ phase = "configured"
    /\ moves' \in Starts /\ color' \in {0, 1} /\ clock' \in Clocks /\ is_uec' \in BOOLEAN
    /\ rollout_speed' =
           Truncated(InitRolloutSpeed * config["asyn_once_send"], config["search_threads"])
    /\ phase' = IF moves' % 2 = color' THEN "ours" ELSE "theirs"
    /\ UNCHANGED <<file, config, stop_rollout, reported, time_remain, dynamic_timeout,
                   dynamic_rollout, locals, searches>>

------------------------------------------------------------------------------
(* GTP                                                                      *)

\* process_cmd_timeleft: a time is taken when it is reported for the colour to
\* move.  The fault takes any.
AnyColor(c) == TRUE
ColorToMove(c) == c = moves % 2

TimeLeft ==
    /\ phase \in {"theirs", "ours"}
    /\ \E c \in {0, 1} : \E time \in (IF c = color THEN {clock \div 1000} ELSE OtherClocks) :
          /\ time_remain' = IF ColorToMove(c) THEN time ELSE time_remain
          /\ reported' = (reported \/ (c = color /\ phase = "ours"))
    /\ UNCHANGED <<phase, setup, board, clock, budget, locals, searches>>

\* The opponent's move, when the board takes it; play does nothing once
\* stop_rollout is set.
Play ==
    /\ phase = "theirs"
    /\ phase' = "ours"
    /\ moves' = IF stop_rollout THEN moves ELSE moves + 1
    /\ UNCHANGED <<setup, stop_rollout, timing, budget, locals, searches>>

\* gen_apply_move.  A controller that keeps a clock reports it before.
Pass ==
    /\ phase = "ours" /\ reported /\ stop_rollout
    /\ phase' = "theirs" /\ reported' = FALSE
    /\ UNCHANGED <<setup, board, clock, time_remain, budget, locals, searches>>

Genmove ==
    /\ phase = "ours" /\ reported /\ ~stop_rollout /\ searches < MaxSearches
    /\ phase' = "searching"
    /\ pc' = [t \in Threads |-> IF t <= config["search_threads"] THEN "est" ELSE "done"]
    /\ safe_time' = [t \in Threads |-> config["stage_150_safe_time_s"]]
    /\ searches' = searches + 1
    /\ UNCHANGED <<setup, board, timing, budget, loaded>>

------------------------------------------------------------------------------
(* est_timeout_rollout                                                      *)

Policy == config["time_policy_enabled"] # 0
Early  == Policy /\ MyMove < 150
Stops  == Policy /\ is_uec /\ MyMove >= 200
Late   == Policy /\ MyMove >= 150 /\ ~Stops

GoesTo(t, at) == pc' = [pc EXCEPT ![t] = at]
Estimated(t, timeout) ==
    /\ dynamic_timeout' = timeout
    /\ GoesTo(t, "rollout")
    /\ UNCHANGED <<phase, setup, moves, timing, dynamic_rollout, rollout_speed, safe_time,
                   loaded, searches>>

Fixed(t) ==
    /\ pc[t] = "est" /\ ~Policy
    /\ Estimated(t, config["time_out_ms"])
    /\ UNCHANGED stop_rollout

\* The end of a UEC game.
StopRollout(t) ==
    /\ pc[t] = "est" /\ Stops
    /\ Estimated(t, 0)
    /\ stop_rollout' = TRUE

\* while (time_remain<=safe_time) safe_time=safe_time/2.  The fault rounds up.
RoundedUp(n) == (n + 1) \div 2
Halved(n) == n \div 2

Halve(t) ==
    /\ pc[t] = "est" /\ Late /\ time_remain <= safe_time[t]
    /\ safe_time' = [safe_time EXCEPT ![t] = Halved(@)]
    /\ UNCHANGED <<phase, setup, board, timing, budget, pc, loaded, searches>>

MovesLeft == IF is_uec THEN 200 - MyMove ELSE 100
EstimateLate(t) ==
    /\ pc[t] = "est" /\ Late /\ time_remain > safe_time[t]
    /\ Estimated(t, ((time_remain - safe_time[t]) * 1000) \div MovesLeft)
    /\ UNCHANGED stop_rollout

\* f_early is 2.  A time below the threshold is the constant 1000 of the code.
Share == ((time_remain - config["stage_0_safe_time_s"]) * 1000)
             \div (50 + (IF MyMove > 50 THEN 0 ELSE 50 - MyMove))
EarlyTimeout ==
    IF MyMove < config["quick_play_move_num"] THEN config["quick_play_move_time_out_ms"]
    ELSE IF Share > config["over_using_thr_time_out_ms"] THEN 2 * Share
    ELSE IF Share < config["under_using_thr_time_out_ms"] THEN 1000
    ELSE Share

EstimateEarly(t) ==
    /\ pc[t] = "est" /\ Early
    /\ Estimated(t, EarlyTimeout)
    /\ UNCHANGED stop_rollout

\* dynamic_timeout*rollout_speed/1000: an int product, which may be anything when
\* it overflows.  The fault counts whole seconds.
Fits(timeout, speed) == speed = 0 \/ timeout <= MaxInt \div speed
WholeSeconds(timeout, speed) == {(timeout \div 1000) * speed}
Rollouts(timeout, speed) ==
    IF Fits(timeout, speed) THEN {Truncated(timeout * speed, 1000)} ELSE {-1, 1}

BudgetRollouts(t) ==
    /\ pc[t] = "rollout"
    /\ dynamic_rollout' \in Rollouts(dynamic_timeout, rollout_speed)
    /\ GoesTo(t, "search")
    /\ UNCHANGED <<phase, setup, board, timing, dynamic_timeout, rollout_speed, safe_time,
                   loaded, searches>>

------------------------------------------------------------------------------
(* cal_rollout_speed                                                        *)

\* Enough rollouts were answered to measure, and the speed is not low already.
MeasureLoad(t) ==
    /\ pc[t] = "search" /\ rollout_speed > 200
    /\ loaded' = [loaded EXCEPT ![t] = rollout_speed]
    /\ GoesTo(t, "measured")
    /\ UNCHANGED <<phase, setup, board, timing, budget, safe_time, searches>>

\* 0.9 and 0.1 are no doubles: a whole result may come out just below.
Averages(speed, measured) ==
    LET tenths == 9 * speed + measured
    IN  {tenths \div 10} \cup (IF tenths % 10 = 0 THEN {tenths \div 10 - 1} ELSE {})

MeasureStore(t) ==
    /\ pc[t] = "measured"
    /\ \E n_speed \in Speeds : rollout_speed' \in Averages(loaded[t], n_speed)
    /\ loaded' = [loaded EXCEPT ![t] = 0]
    /\ GoesTo(t, "done")
    /\ UNCHANGED <<phase, setup, board, timing, dynamic_timeout, dynamic_rollout, safe_time,
                   searches>>

NotMeasured(t) ==
    /\ pc[t] = "search"
    /\ GoesTo(t, "done")
    /\ UNCHANGED <<phase, setup, board, timing, budget, safe_time, loaded, searches>>

\* All threads are waited for; the clock has run, and the move is made.
Moved ==
    /\ phase = "searching" /\ \A t \in Threads : pc[t] = "done"
    /\ \E used \in {0, dynamic_timeout} : clock' = clock - used - Overrun
    /\ moves' = moves + 1
    /\ phase' = IF clock' < 0 THEN "lost_on_time" ELSE "theirs"
    /\ reported' = FALSE
    /\ UNCHANGED <<setup, stop_rollout, time_remain, budget, locals, searches>>

\* The process ends at a move that the board does not take, the opponent's or the
\* chosen one, or where the search has none to choose; or the engine resigns.
GameEnds ==
    /\ \/ phase = "theirs" /\ ~stop_rollout
       \/ phase = "searching" /\ \A t \in Threads : pc[t] = "done"
    /\ phase' = "aborted"
    /\ UNCHANGED <<setup, board, timing, budget, locals, searches>>

\* The bound is reached, or there is nothing to play for.
Over ==
    \/ phase \in {"aborted", "lost_on_time"}
    \/ phase \in {"theirs", "ours"} /\ searches = MaxSearches
Ended == Over /\ UNCHANGED vars

ThreadStep(t) ==
    \/ Fixed(t) \/ StopRollout(t) \/ Halve(t) \/ EstimateLate(t) \/ EstimateEarly(t)
    \/ BudgetRollouts(t)
    \/ MeasureLoad(t) \/ MeasureStore(t) \/ NotMeasured(t)

Next ==
    \/ ReadConfig \/ Construct
    \/ TimeLeft \/ Play \/ Pass \/ Genmove
    \/ \E t \in Threads : ThreadStep(t)
    \/ Moved \/ GameEnds
    \/ Ended

Spec == Init /\ [][Next]_vars
LiveSpec == Spec /\ \A t \in Threads : WF_vars(ThreadStep(t))

------------------------------------------------------------------------------
(* Properties                                                               *)

\* A file in which every line is a section or a plain pair, sections and the keys
\* of one do not come twice, is read as one would read it: no exception, and of
\* each parameter the value that stands for it in its section, or the default.
Heading(i, of) == \* the section line that line i stands under
    \E s \in SectionLines(of) :
        s < i /\ of[s].name = Section(of[i].key) /\ \A j \in s + 1..i : of[j].kind # "section"
WellFormed(of) ==
    /\ SectionLines(of) # {}
    /\ \A i \in DOMAIN of : of[i].kind \in {"section", "pair"} /\ ~of[i].blank
    /\ \A i, j \in SectionLines(of) : of[i].name = of[j].name => i = j
    /\ \A i, j \in DOMAIN of \ SectionLines(of) :
          of[i].key = of[j].key /\ Heading(i, of) /\ Heading(j, of) => i = j
SaysOf(of, key, value) ==
    \E i \in DOMAIN of \ SectionLines(of) :
        of[i].key = key /\ Heading(i, of) /\ of[i].value = value
SettingsMeant ==
    [][phase = "boot" /\ WellFormed(file) =>
           /\ phase' = "configured"
           /\ \A key \in Keys :
                 \/ SaysOf(file, key, config'[key])
                 \/ /\ config'[key] = Default(key)
                    /\ \A i \in DOMAIN file : ~SaysOf(file, key, file[i].value)]_vars

\* The parameters are the default ones, but that there may be up to 8 threads.
Standard ==
    /\ \A key \in TimeKeys : config[key] = Default(key)
    /\ config["search_threads"] \in 1..8 /\ config["asyn_once_send"] = 1

\* The engine's next own move, and a time that is enough from then on.  Up to
\* move 150 a search may take a second without regard to the clock, and later
\* 150 ms, each with Overrun; in a UEC game the late searches share the clock,
\* and Need says what they lose on the way.
Turn == (moves + 1 - color) \div 2
LastTurn == IF is_uec THEN 200 ELSE 250
EnoughAt(turn, time) ==
    IF is_uec THEN \/ turn \in 150..199 /\ time >= 31000 + Need[200 - turn]
                   \/ turn = 200 /\ time >= 1000
    ELSE \/ /\ turn \in 0..149
            /\ time >= 1000 + (150 + Overrun) * 100 + (1000 + Overrun) * (150 - turn)
         \/ turn \in 150..250 /\ time >= 1000 + (150 + Overrun) * (250 - turn)
EnoughTime == EnoughAt(Turn, clock)

\* A clock that is enough for what is left of the game stays enough, whatever is
\* reported of the opponent's: a second is left to the engine's move 250, or 200
\* of a UEC game.
ClockLasts == [][Standard /\ EnoughTime /\ Turn' <= LastTurn => EnoughTime']_vars

\* Speeds whose product with a time-out of such a clock is an int.  The code does
\* not limit them: above 59700 or so it may overflow.
ModestSpeeds == \A speed \in Speeds : speed <= 50000

\* With a clock of less than 1000 s ("char time[4]", Gtp.cpp:88), up to 8 search
\* threads and speeds up to 50000, whatever is measured within them and whoever
\* overwrites whose average, a search has a rollout left when its loop begins:
\* the product does not overflow, and a root that is not expanded is evaluated.
\* Not so with 9 threads, for which 10 ms of the first speed are less than a
\* rollout, nor in a UEC game: its last moves may overflow, and from move 200
\* there are none.
RolloutsLeft ==
    Standard /\ ModestSpeeds /\ ~is_uec /\ time_remain < 1000 =>
        \A t \in Threads : pc[t] = "search" => dynamic_rollout >= 1

\* The loop that halves safe_time ends.
EstimateEnds ==
    \A t \in Threads : pc[t] = "est" /\ Standard /\ EnoughTime ~> pc[t] # "est"
==============================================================================
