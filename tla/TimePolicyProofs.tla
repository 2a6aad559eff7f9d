---------------------------- MODULE TimePolicyProofs ----------------------------
(***************************************************************************)
(* What TimePolicy promises with the default parameters, proved for any    *)
(* clock, any history, any number of searches and threads and whatever     *)
(* speeds are measured; and that a well-formed settings file of any length *)
(* sets what it says.                                                      *)
(***************************************************************************)
EXTENDS TimePolicy, TLAPS

------------------------------------------------------------------------------
(* Arithmetic                                                               *)

LEMMA Division ==
    ASSUME NEW a \in Int, NEW b \in Nat, b > 0
    PROVE  a \div b \in Int /\ b * (a \div b) <= a /\ a < b * (a \div b) + b
OBVIOUS

LEMMA Smaller ==
    ASSUME NEW a \in Nat, NEW b \in Int, NEW c \in Int, b <= c
    PROVE  a * b <= a * c
OBVIOUS

LEMMA Cancel ==
    ASSUME NEW a \in Nat, NEW b \in Int, NEW c \in Int, a > 0, a * b <= a * c
    PROVE  b <= c
OBVIOUS

LEMMA Scales ==
    /\ Overrun \in Nat /\ Overrun <= 200
    /\ Need \in [1..50 -> Nat]
    /\ MaxThreads \in Nat /\ MaxThreads > 0
BY TimeAssumption, NeedAssumption

LEMMA Bounds ==
    /\ \A n \in Starts : n \in Nat
    /\ \A time \in Clocks : time \in Nat
    /\ \A time \in OtherClocks : time \in Nat
    /\ \A speed \in Speeds : speed \in Nat
BY BoundsAssumption

LEMMA StandardValues ==
    ASSUME Standard
    PROVE  /\ config["time_policy_enabled"] = 1
           /\ config["stage_0_safe_time_s"] = 100
           /\ config["stage_150_safe_time_s"] = 30
           /\ config["quick_play_move_num"] = 3
           /\ config["quick_play_move_time_out_ms"] = 1000
           /\ config["over_using_thr_time_out_ms"] = 3000
           /\ config["under_using_thr_time_out_ms"] = 2000
           /\ config["search_threads"] \in 1..8 /\ config["asyn_once_send"] = 1
<1>1. \A key \in TimeKeys : config[key] = Default(key)
    BY DEF Standard
<1>2. config["time_policy_enabled"] = 1 /\ config["stage_0_safe_time_s"] = 100
    BY <1>1 DEF TimeKeys, Default
<1>3. config["stage_150_safe_time_s"] = 30 /\ config["quick_play_move_num"] = 3
    BY <1>1 DEF TimeKeys, Default
<1>4. config["quick_play_move_time_out_ms"] = 1000 /\ config["over_using_thr_time_out_ms"] = 3000
    BY <1>1 DEF TimeKeys, Default
<1>5. config["under_using_thr_time_out_ms"] = 2000
    BY <1>1 DEF TimeKeys, Default
<1> QED
    BY <1>2, <1>3, <1>4, <1>5 DEF Standard

\* The time-out of an early move is a second, or it leaves most of the time.
LEMMA EarlyShare ==
    ASSUME Standard, time_remain \in Nat, MyMove \in Nat
    PROVE  \/ EarlyTimeout = 1000
           \/ /\ Share \in Nat /\ Share >= 2000 /\ EarlyTimeout \in {Share, 2 * Share}
              /\ \E parts \in Nat : /\ parts >= 50 /\ parts >= 100 - MyMove
                                    /\ parts * Share <= (time_remain - 100) * 1000
<1> DEFINE parts == 50 + (IF MyMove > 50 THEN 0 ELSE 50 - MyMove)
<1> DEFINE left == (time_remain - 100) * 1000
<1>1. parts \in Nat /\ parts >= 50 /\ parts >= 100 - MyMove /\ left \in Int
    OBVIOUS
<1>2. Share = left \div parts
    BY StandardValues DEF Share
<1> HIDE DEF parts, left
<1>3. Share \in Int /\ parts * Share <= left
    BY <1>1, <1>2, Division
<1>4. \/ EarlyTimeout = 1000
      \/ Share >= 2000 /\ EarlyTimeout \in {Share, 2 * Share}
    BY <1>3, StandardValues DEF EarlyTimeout
<1> QED
    BY <1>1, <1>3, <1>4 DEF left

\* A time is shared out in equal parts, once what is safe is put aside.
Parted(parts, share, time, safe) == parts * share <= (time \div 1000 - safe) * 1000

\* What is needed after an early move n, and for r late moves of a UEC game.
EarlyRest(n) == 1000 + (150 + Overrun) * 100 + (1000 + Overrun) * (149 - n)
SharedNeed(r) == 31000 + Need[r]

\* What a move is given: an early one as many parts as it may keep for later ones,
\* a late one by what is left beyond the safe time, which was halved or not.
EarlyPart(d, n, share, parts, time) ==
    /\ d \in Nat /\ d \in {share, 2 * share} /\ share \in Nat /\ share >= 2000
    /\ parts \in Nat /\ parts >= 50 /\ parts >= 100 - n
    /\ Parted(parts, share, time, 100)

LatePart(d, safe, time) ==
    /\ d \in Int /\ safe \in Nat /\ time \div 1000 > safe
    /\ \/ safe = 30
       \/ safe <= 15 /\ time \div 1000 <= 2 * safe + 1 /\ time \div 1000 <= 30
    /\ d <= 10 * (time \div 1000 - safe)
LateNeed(n) == 1000 + (150 + Overrun) * (250 - n)
LateRest(n) == 1000 + (150 + Overrun) * (249 - n)

\* An early move leaves enough.
LEMMA EarlyLasts ==
    ASSUME NEW n \in 0..149, NEW time \in Nat, NEW share, NEW parts, NEW d,
           EarlyPart(d, n, share, parts, time)
    PROVE  time - d - Overrun >= EarlyRest(n)
<1> USE DEF Parted, EarlyPart, EarlyRest
<1>1. time \div 1000 \in Int /\ 1000 * (time \div 1000) <= time
    BY Division
<1>2. time - parts * share >= 100000
    <2> DEFINE whole == time \div 1000
    <2> DEFINE product == parts * share
    <2>1. whole \in Int /\ product \in Int /\ 1000 * whole <= time
          /\ product <= (whole - 100) * 1000
        BY <1>1
    <2> HIDE DEF whole, product
    <2>2. time - product >= 100000
        BY <2>1
    <2> QED
        BY <2>2 DEF product
<1>3. parts * share - 2 * share >= 2000 * (parts - 2)
    <2>1. (parts - 2) * 2000 <= (parts - 2) * share
        BY Smaller
    <2>2. (parts - 2) * share = parts * share - 2 * share
        OBVIOUS
    <2> QED
        BY <2>1, <2>2
<1>4. (149 - n) * Overrun <= (149 - n) * 200
    BY Scales, Smaller
<1>5. (1000 + Overrun) * (149 - n) = 1000 * (149 - n) + (149 - n) * Overrun
    BY Scales
<1> DEFINE product == parts * share
<1> DEFINE over == (149 - n) * Overrun
<1>6. product \in Int /\ over \in Int
    BY Scales
<1>7. time - product >= 100000 /\ product - 2 * share >= 2000 * (parts - 2)
      /\ over <= 29800 - 200 * n /\ (1000 + Overrun) * (149 - n) = 149000 - 1000 * n + over
    BY <1>2, <1>3, <1>4, <1>5
<1> HIDE DEF product, over
<1> QED
    BY <1>6, <1>7, Scales

\* A late move of a game of 250 moves takes 150 ms, or leaves far more than the
\* rest needs.
LEMMA LateLasts ==
    ASSUME NEW n \in 150..249, NEW time \in Nat, NEW safe, NEW d,
           LatePart(d, safe, time), time >= LateNeed(n)
    PROVE  time - d - Overrun >= LateRest(n)
<1> USE DEF LatePart, LateNeed, LateRest
<1> DEFINE whole == time \div 1000
<1>1. whole \in Int /\ 1000 * whole <= time /\ time < 1000 * whole + 1000
    BY Division
<1>2. (249 - n) * Overrun <= (249 - n) * 200
    BY Scales, Smaller
<1> DEFINE over == (249 - n) * Overrun
<1>3. (150 + Overrun) * (249 - n) = 150 * (249 - n) + over
    BY Scales
<1>4. (150 + Overrun) * (250 - n) = 150 * (250 - n) + over + Overrun
    BY Scales
<1>5. over \in Int
    BY Scales
<1>6. /\ whole > safe /\ d <= 10 * (whole - safe)
      /\ \/ safe = 30
         \/ safe <= 15 /\ whole <= 2 * safe + 1 /\ whole <= 30
    OBVIOUS
<1>9. over <= 200 * (249 - n) /\ time >= 1000 + 150 * (250 - n) + over + Overrun
    <2> DEFINE full == (150 + Overrun) * (250 - n)
    <2>1. time >= 1000 + full /\ full = 150 * (250 - n) + over + Overrun
        BY <1>4
    <2>2. full \in Int
        BY Scales
    <2> HIDE DEF full
    <2>3. time >= 1000 + 150 * (250 - n) + over + Overrun
        BY <1>5, <2>1, <2>2, Scales
    <2> QED
        BY <1>2, <2>3 DEF over
<1> HIDE DEF whole, over
<1>7. CASE whole <= 45
    <2>1. d <= 150
        BY <1>1, <1>6, <1>7
    <2> QED
        BY <1>3, <1>5, <1>9, <2>1, Scales
<1>8. CASE whole > 45
    <2>1. time - d >= 990 * whole + 300
        BY <1>1, <1>6, <1>8
    <2>2. time - d - Overrun >= 45540 + 100
        BY <1>1, <1>8, <2>1, Scales
    <2>3. 1000 + 150 * (249 - n) + over <= 35650
        BY <1>5, <1>9
    <2> QED
        BY <1>1, <1>3, <1>5, <2>2, <2>3, Scales
<1> QED
    BY <1>1, <1>7, <1>8

\* A late move of a UEC game leaves what the other late moves will share.
LEMMA SharedLasts ==
    ASSUME NEW r \in 2..50, NEW time \in Nat, NEW d \in Int,
           Parted(r, d, time, 30), time >= SharedNeed(r)
    PROVE  time - d - Overrun >= SharedNeed(r - 1)
<1> USE DEF Parted, SharedNeed
<1> DEFINE need == Need[r]
<1> DEFINE next == Need[r - 1]
<1> DEFINE whole == time \div 1000
<1> DEFINE rest == time - d - Overrun
<1>1. need \in Nat /\ next \in Nat /\ Overrun \in Nat
    BY Scales
<1>2. (r - 1) * need >= r * (next + Overrun) + 1000
    BY NeedAssumption
<1>3. whole \in Int /\ 1000 * whole <= time
    BY Division
<1>4. r * d <= (whole - 30) * 1000 /\ time >= 31000 + need /\ rest \in Int
    BY <1>1, Scales
<1>5. (r - 1) * (31000 + need) <= (r - 1) * time
    BY <1>1, <1>4, Smaller
<1>6. r * rest = (r - 1) * time + time - r * d - r * Overrun
    BY <1>1
<1>7. (r - 1) * (31000 + need) = 31000 * (r - 1) + (r - 1) * need
    BY <1>1
<1>8. r * (next + Overrun) = r * next + r * Overrun
    BY <1>1
<1>9. r * (31000 + next) = 31000 * r + r * next
    BY <1>1
<1> DEFINE a == (r - 1) * need
<1> DEFINE b == (r - 1) * time
<1> DEFINE c == r * next
<1> DEFINE e == r * Overrun
<1> DEFINE f == r * d
<1>10. a \in Int /\ b \in Int /\ c \in Int /\ e \in Int /\ f \in Int
    BY <1>1
<1>11. a >= c + e + 1000 /\ f <= (whole - 30) * 1000 /\ 31000 * (r - 1) + a <= b
       /\ r * rest = b + time - f - e /\ r * (31000 + next) = 31000 * r + c
    BY <1>2, <1>4, <1>5, <1>6, <1>7, <1>8, <1>9
<1> HIDE DEF a, b, c, e, f, whole, need
<1>12. r * (31000 + next) <= r * rest
    BY <1>3, <1>10, <1>11
<1>13. 31000 + next <= rest
    BY <1>1, <1>4, <1>12, Cancel
<1> QED
    BY <1>13

------------------------------------------------------------------------------
(* The inductive invariant                                                  *)

Phases == {"boot", "configured", "aborted", "theirs", "ours", "searching", "lost_on_time"}
Places == {"est", "rollout", "search", "measured", "done"}

Shape ==
    /\ phase \in Phases
    /\ moves \in Nat /\ color \in {0, 1}
    /\ pc \in [Threads -> Places]
    /\ phase # "searching" => \A t \in Threads : pc[t] = "done"

\* Times are numbers, as the parameters are.
Timed ==
    Standard =>
        /\ time_remain \in Nat /\ clock \in Int
        /\ phase # "lost_on_time" => clock >= 0

\* Nothing has happened before there is a player.
Fresh ==
    phase \in {"boot", "configured"} =>
        /\ clock = 0 /\ time_remain = 600 /\ ~reported /\ ~stop_rollout
        /\ safe_time = [t \in Threads |-> 0] /\ loaded = [t \in Threads |-> 0]

\* Whose turn it is; once a search has stopped the rollouts, moves says no more.
Turns ==
    /\ phase = "theirs" => ~reported /\ (stop_rollout \/ moves % 2 # color)
    /\ phase = "ours" => stop_rollout \/ moves % 2 = color
    /\ phase = "searching" => moves % 2 = color

\* The time that a search is begun with is the engine's own.
TimeKnown ==
    \/ phase = "ours" /\ reported /\ ~stop_rollout
    \/ phase = "searching"
    => time_remain = clock \div 1000

\* safe_time is only halved when there is less left.
Halving ==
    Standard =>
        /\ safe_time \in [Threads -> 0..30]
        /\ \A t \in Threads : pc[t] = "est" =>
              \/ safe_time[t] = 30
              \/ safe_time[t] <= 15 /\ time_remain <= 30 /\ time_remain <= 2 * safe_time[t] + 1

\* The time-out that a search has found leaves enough.
Affordable(d) ==
    /\ d \in Nat
    /\ EnoughTime /\ Turn + 1 <= LastTurn => EnoughAt(Turn + 1, clock - d - Overrun)
Budgeted ==
    Standard /\ phase = "searching" => pc[1] = "est" \/ Affordable(dynamic_timeout)

Between(n, low, high) == n \in Int /\ low <= n /\ n <= high

\* The speed neither falls to nothing nor grows beyond what is measured.
Measured ==
    Standard /\ ModestSpeeds =>
        /\ phase \in {"theirs", "ours", "searching"} => Between(rollout_speed, 100, 50000)
        /\ loaded \in [Threads -> Int]
        /\ \A t \in Threads : pc[t] = "measured" => Between(loaded[t], 201, 50000)

\* Time-outs for which there are rollouts, and few enough for an int.
Rolling ==
    Standard /\ ModestSpeeds /\ ~is_uec /\ time_remain < 1000 =>
        \A t \in Threads :
            /\ pc[t] = "rollout" => Between(dynamic_timeout, 10, 35960)
            /\ pc[t] = "search" => dynamic_rollout \in Nat /\ dynamic_rollout >= 1

IInv ==
    Shape /\ Timed /\ Fresh /\ Turns /\ TimeKnown /\ Halving /\ Budgeted /\ Measured /\ Rolling

LEMMA IInvInit == Init => IInv
<1> SUFFICES ASSUME Init PROVE IInv
    OBVIOUS
<1>1. /\ phase = "boot" /\ clock = 0 /\ ~reported /\ ~stop_rollout /\ moves = 0 /\ color = 0
      /\ time_remain = 600 /\ pc = [t \in Threads |-> "done"]
      /\ safe_time = [t \in Threads |-> 0] /\ loaded = [t \in Threads |-> 0]
    BY DEF Init
<1>2. \A t \in Threads : pc[t] = "done"
    BY <1>1
<1>3. safe_time \in [Threads -> 0..30] /\ loaded \in [Threads -> Int]
    BY <1>1
<1>4. pc \in [Threads -> Places]
    BY <1>1 DEF Places
<1>5. Shape /\ Timed /\ Fresh /\ Turns /\ TimeKnown
    BY <1>1, <1>2, <1>4 DEF Shape, Timed, Fresh, Turns, TimeKnown, Phases
<1>6. Halving /\ Budgeted /\ Measured /\ Rolling
    BY <1>1, <1>2, <1>3 DEF Halving, Budgeted, Measured, Rolling
<1> QED
    BY <1>5, <1>6 DEF IInv

\* What a search thread leaves alone.
LEMMA ThreadFrame ==
    ASSUME Shape, NEW t \in Threads, ThreadStep(t)
    PROVE  /\ phase = "searching"
           /\ UNCHANGED <<phase, config, color, is_uec, moves, clock, reported, time_remain>>
           /\ pc' \in [Threads -> Places]
           /\ \A u \in Threads : u # t => pc'[u] = pc[u]
           /\ pc'[t] = "est" => pc[t] = "est" /\ Halve(t)
<1> USE DEF Shape, setup, board, timing, Places
<1>1. CASE Fixed(t) \/ StopRollout(t) \/ EstimateLate(t) \/ EstimateEarly(t)
    <2>1. pc[t] = "est" /\ pc' = [pc EXCEPT ![t] = "rollout"]
          /\ UNCHANGED <<phase, setup, moves, timing>>
        BY <1>1 DEF Fixed, StopRollout, EstimateLate, EstimateEarly, Estimated, GoesTo
    <2> QED
        BY <2>1
<1>2. CASE Halve(t)
    BY <1>2 DEF Halve
<1>3. CASE BudgetRollouts(t)
    BY <1>3 DEF BudgetRollouts, GoesTo
<1>4. CASE MeasureLoad(t)
    BY <1>4 DEF MeasureLoad, GoesTo
<1>5. CASE MeasureStore(t) \/ NotMeasured(t)
    BY <1>5 DEF MeasureStore, NotMeasured, GoesTo
<1> QED
    BY <1>1, <1>2, <1>3, <1>4, <1>5 DEF ThreadStep

\* All that happens, as the proofs split it.
LEMMA Steps ==
    ASSUME [Next]_vars
    PROVE  \/ ReadConfig \/ Construct \/ TimeLeft \/ Play \/ Pass \/ Genmove \/ Moved \/ GameEnds
           \/ \E t \in Threads : ThreadStep(t)
           \/ UNCHANGED vars
BY DEF Next, Ended

LEMMA MovesStep ==
    ASSUME moves \in Nat, color \in {0, 1}, Construct \/ Play \/ Moved
    PROVE  moves' \in Nat /\ color' \in {0, 1}
<1>1. CASE Construct
    <2>1. moves' \in Starts /\ color' \in {0, 1}
        BY <1>1 DEF Construct
    <2> QED
        BY <2>1, Bounds
<1>2. CASE Play \/ Moved
    <2>1. moves' \in {moves, moves + 1} /\ color' = color
        BY <1>2 DEF Play, Moved, setup
    <2> QED
        BY <2>1
<1> QED
    BY <1>1, <1>2

LEMMA ShapeStep ==
    ASSUME Shape, [Next]_vars
    PROVE  Shape'
<1>1. CASE ReadConfig
    BY <1>1 DEF ReadConfig, board, locals, Shape, Phases
<1>2. CASE Construct
    <2>1. moves' \in Nat /\ color' \in {0, 1}
        BY <1>2, MovesStep DEF Shape
    <2>2. pc' = pc /\ phase = "configured" /\ phase' \in {"ours", "theirs"}
        BY <1>2 DEF Construct, locals
    <2> QED
        BY <2>1, <2>2 DEF Shape, Phases
<1>3. CASE TimeLeft
    BY <1>3 DEF TimeLeft, setup, board, locals, Shape
<1>4. CASE Play
    <2>1. moves' \in Nat /\ color' \in {0, 1}
        BY <1>4, MovesStep DEF Shape
    <2>2. pc' = pc /\ phase = "theirs" /\ phase' = "ours"
        BY <1>4 DEF Play, locals
    <2> QED
        BY <2>1, <2>2 DEF Shape, Phases
<1>5. CASE Pass
    BY <1>5 DEF Pass, setup, board, locals, Shape, Phases
<1>6. CASE Genmove
    <2>1. UNCHANGED <<moves, color>> /\ phase' = "searching"
        BY <1>6 DEF Genmove, setup, board
    <2>2. pc' \in [Threads -> Places]
        BY <1>6 DEF Genmove, Places
    <2> QED
        BY <2>1, <2>2 DEF Shape, Phases
<1>7. CASE Moved
    <2>1. phase' \in {"lost_on_time", "theirs"} /\ pc' = pc /\ \A t \in Threads : pc[t] = "done"
        BY <1>7 DEF Moved, locals
    <2>2. moves' \in Nat /\ color' \in {0, 1}
        BY <1>7, MovesStep DEF Shape
    <2> QED
        BY <2>1, <2>2 DEF Shape, Phases
<1>8. ASSUME NEW t \in Threads, ThreadStep(t) PROVE Shape'
    BY <1>8, ThreadFrame DEF Shape
<1>9. CASE UNCHANGED vars
    BY <1>9 DEF vars, setup, board, locals, Shape
<1>10. CASE GameEnds
    BY <1>10 DEF GameEnds, setup, board, locals, Shape, Phases
<1> QED
    BY <1>1, <1>2, <1>3, <1>4, <1>5, <1>6, <1>7, <1>8, <1>9, <1>10, Steps

LEMMA FreshStep ==
    ASSUME Fresh, Shape, [Next]_vars
    PROVE  Fresh'
<1> USE DEF Fresh
<1>1. CASE ReadConfig
    BY <1>1 DEF ReadConfig, board, timing, locals
<1>2. CASE Construct \/ TimeLeft \/ Play \/ Pass \/ Genmove \/ Moved \/ GameEnds
    <2>1. phase' \notin {"boot", "configured"}
        BY <1>2 DEF Construct, TimeLeft, Play, Pass, Genmove, Moved, GameEnds
    <2> QED
        BY <2>1
<1>3. ASSUME NEW t \in Threads, ThreadStep(t) PROVE Fresh'
    BY <1>3, ThreadFrame
<1>4. CASE UNCHANGED vars
    BY <1>4 DEF vars, board, timing, locals
<1> QED
    BY <1>1, <1>2, <1>3, <1>4, Steps

\* Moves change the colour to move.
LEMMA Parity ==
    ASSUME NEW n \in Nat, NEW c \in {0, 1}
    PROVE  (n + 1) % 2 = c <=> n % 2 # c
OBVIOUS

LEMMA TurnsStep ==
    ASSUME Shape, Fresh, Turns, [Next]_vars
    PROVE  Turns'
<1> USE DEF Turns, Shape
<1>1. CASE ReadConfig
    BY <1>1 DEF ReadConfig
<1>2. CASE Construct
    BY <1>2 DEF Construct, Fresh
<1>3. CASE TimeLeft
    <2>1. UNCHANGED <<phase, moves, color, stop_rollout>>
        BY <1>3 DEF TimeLeft, setup, board
    <2>2. PICK c \in {0, 1} :
              \E time \in (IF c = color THEN {clock \div 1000} ELSE OtherClocks) :
                 /\ time_remain' = IF ColorToMove(c) THEN time ELSE time_remain
                 /\ reported' = (reported \/ (c = color /\ phase = "ours"))
        BY <1>3 DEF TimeLeft
    <2>3. reported' = (reported \/ (c = color /\ phase = "ours"))
        BY ONLY <2>2
    <2>4. phase = "theirs" => ~reported
        BY DEF Turns
    <2>5. phase = "theirs" => ~reported'
        BY ONLY <2>3, <2>4
    <2> QED
        BY <2>1, <2>5
<1>4. CASE Play
    <2>1. phase = "theirs" /\ phase' = "ours" /\ UNCHANGED <<color, stop_rollout>>
          /\ moves' = IF stop_rollout THEN moves ELSE moves + 1
        BY <1>4 DEF Play, setup
    <2> QED
        BY <2>1, Parity
<1>5. CASE Pass
    BY <1>5 DEF Pass, board, setup
<1>6. CASE Genmove
    <2>1. phase = "ours" /\ ~stop_rollout /\ phase' = "searching" /\ UNCHANGED <<moves, color>>
        BY <1>6 DEF Genmove, setup, board
    <2> QED
        BY <2>1
<1>7. CASE Moved
    <2>1. phase = "searching" /\ phase' \in {"theirs", "lost_on_time"} /\ ~reported'
          /\ moves' = moves + 1 /\ color' = color
        BY <1>7 DEF Moved, setup
    <2> QED
        BY <2>1, Parity
<1>8. ASSUME NEW t \in Threads, ThreadStep(t) PROVE Turns'
    BY <1>8, ThreadFrame
<1>9. CASE UNCHANGED vars
    BY <1>9 DEF vars, setup, board, timing
<1>10. CASE GameEnds
    BY <1>10 DEF GameEnds
<1> QED
    BY <1>10, <1>1, <1>2, <1>3, <1>4, <1>5, <1>6, <1>7, <1>8, <1>9, Steps

LEMMA TimeKnownStep ==
    ASSUME Shape, Fresh, Turns, TimeKnown, [Next]_vars
    PROVE  TimeKnown'
<1> USE DEF TimeKnown
<1>1. CASE ReadConfig
    BY <1>1 DEF ReadConfig
<1>2. CASE Construct
    BY <1>2 DEF Construct, Fresh
<1>3. CASE TimeLeft
    <2> SUFFICES ASSUME phase = "ours", reported', ~stop_rollout
                 PROVE  time_remain' = clock \div 1000
        BY <1>3 DEF TimeLeft, board
    <2>1. moves % 2 = color
        BY DEF Turns
    <2>2. PICK c \in {0, 1} :
              \E time \in (IF c = color THEN {clock \div 1000} ELSE OtherClocks) :
                 /\ time_remain' = IF c = moves % 2 THEN time ELSE time_remain
                 /\ reported' = (reported \/ (c = color /\ phase = "ours"))
        BY <1>3 DEF TimeLeft, ColorToMove
    <2>3. CASE c = color
        BY <2>1, <2>2, <2>3
    <2>4. CASE c # color
        <3>1. time_remain' = time_remain
            BY <2>1, <2>2, <2>4
        <3>2. reported
            BY <2>2, <2>4
        <3> QED
            BY <3>1, <3>2
    <2> QED
        BY <2>3, <2>4
<1>4. CASE Play
    BY <1>4 DEF Play, timing, Turns
<1>5. CASE Pass
    BY <1>5 DEF Pass
<1>6. CASE Genmove
    BY <1>6 DEF Genmove, timing
<1>7. CASE Moved
    BY <1>7 DEF Moved
<1>8. ASSUME NEW t \in Threads, ThreadStep(t) PROVE TimeKnown'
    BY <1>8, ThreadFrame
<1>9. CASE UNCHANGED vars
    BY <1>9 DEF vars, board, timing
<1>10. CASE GameEnds
    BY <1>10 DEF GameEnds
<1> QED
    BY <1>10, <1>1, <1>2, <1>3, <1>4, <1>5, <1>6, <1>7, <1>8, <1>9, Steps

\* The configuration is read once.
LEMMA StandardKept ==
    ASSUME config' = config
    PROVE  Standard' <=> Standard
BY DEF Standard

LEMMA ConfigKept ==
    ASSUME Shape, [Next]_vars, ~ReadConfig
    PROVE  config' = config
<1>1. CASE Construct \/ TimeLeft \/ Play
    BY <1>1 DEF Construct, TimeLeft, Play, setup
<1>2. CASE Pass \/ Genmove \/ Moved \/ GameEnds
    BY <1>2 DEF Pass, Genmove, Moved, GameEnds, setup
<1>3. CASE \E t \in Threads : ThreadStep(t)
    BY <1>3, ThreadFrame
<1> QED
    BY <1>1, <1>2, <1>3, Steps DEF vars, setup

LEMMA FirstThread == 1 \in Threads
BY Scales DEF Threads

LEMMA TimedStep ==
    ASSUME Shape, Fresh, Timed, Budgeted, [Next]_vars
    PROVE  Timed'
<1>1. CASE ReadConfig
    BY <1>1 DEF ReadConfig, timing, Fresh, Timed
<1>2. CASE ~ReadConfig
    <2> SUFFICES ASSUME Standard
                 PROVE  /\ time_remain' \in Nat /\ clock' \in Int
                        /\ phase' # "lost_on_time" => clock' >= 0
        BY <1>2, ConfigKept, StandardKept DEF Timed
    <2>0. time_remain \in Nat /\ clock \in Int
        BY DEF Timed
    <2>1. CASE Construct
        <3>1. clock' \in Clocks /\ time_remain' = time_remain
            BY <2>1 DEF Construct
        <3>2. clock' \in Nat
            BY <3>1, Bounds
        <3>3. clock' \in Int /\ clock' >= 0
            BY <3>2
        <3>4. time_remain' \in Nat
            BY <2>0, <3>1
        <3> QED
            BY <3>3, <3>4
    <2>2. CASE TimeLeft
        <3>1. phase' = phase /\ clock' = clock /\ phase # "lost_on_time"
            BY <2>2 DEF TimeLeft, setup
        <3>2. clock >= 0
            BY <3>1 DEF Timed
        <3>3. clock \div 1000 \in Nat
            BY <2>0, <3>2, Division
        <3>4. time_remain' \in {time_remain, clock \div 1000} \cup OtherClocks
            BY <2>2 DEF TimeLeft
        <3>5. time_remain' \in Nat
            BY <2>0, <3>3, <3>4, Bounds
        <3> QED
            BY <2>0, <3>1, <3>2, <3>5
    <2>3. CASE Play \/ Pass \/ Genmove \/ GameEnds
        <3>1. UNCHANGED <<clock, time_remain>> /\ phase # "lost_on_time"
            BY <2>3 DEF Play, Pass, Genmove, GameEnds, timing
        <3>2. clock >= 0
            BY <3>1 DEF Timed
        <3> QED
            BY <2>0, <3>1, <3>2
    <2>4. CASE Moved
        <3>1. phase = "searching" /\ pc[1] = "done"
            BY <2>4, FirstThread DEF Moved
        <3>2. dynamic_timeout \in Nat
            BY <3>1 DEF Budgeted, Affordable
        <3>3. PICK used \in {0, dynamic_timeout} : clock' = clock - used - Overrun
            BY <2>4 DEF Moved
        <3>4. used \in Nat
            BY <3>2
        <3>5. clock' \in Int
            BY <2>0, <3>3, <3>4, Scales
        <3>6. clock' < 0 => phase' = "lost_on_time"
            BY <2>4 DEF Moved
        <3>7. phase' # "lost_on_time" => clock' >= 0
            <4>1. clock' < 0 \/ clock' >= 0
                BY <3>5
            <4> QED
                BY <3>6, <4>1
        <3>8. time_remain' \in Nat
            BY <2>0, <2>4 DEF Moved
        <3> QED
            BY <3>5, <3>7, <3>8
    <2>5. ASSUME NEW t \in Threads, ThreadStep(t)
          PROVE  UNCHANGED <<phase, clock, time_remain>>
        BY <2>5, ThreadFrame
    <2>6. CASE UNCHANGED vars
        BY <2>6 DEF vars, timing, Timed
    <2> QED
        <3>1. CASE \E t \in Threads : ThreadStep(t)
            BY <2>5, <3>1 DEF Timed
        <3> QED
            BY <1>2, <2>1, <2>2, <2>3, <2>4, <2>6, <3>1, Steps
<1> QED
    BY <1>1, <1>2

\* Whole seconds below a bound.
LEMMA HalfOf ==
    ASSUME NEW n \in 0..30
    PROVE  Halved(n) \in 0..15 /\ n <= 2 * Halved(n) + 1
<1>1. n \div 2 \in Int /\ 2 * (n \div 2) <= n /\ n < 2 * (n \div 2) + 2
    BY Division
<1> QED
    BY <1>1 DEF Halved

LEMMA HalvingStep ==
    ASSUME Shape, Fresh, Timed, Halving, [Next]_vars
    PROVE  Halving'
<1>1. CASE ReadConfig
    <2>1. safe_time' = [t \in Threads |-> 0] /\ pc' = pc /\ \A t \in Threads : pc[t] = "done"
        BY <1>1 DEF ReadConfig, locals, Fresh, Shape
    <2> QED
        BY <2>1 DEF Halving
<1>2. CASE ~ReadConfig
    <2> SUFFICES ASSUME Standard
                 PROVE  /\ safe_time' \in [Threads -> 0..30]
                        /\ \A t \in Threads : pc'[t] = "est" =>
                             \/ safe_time'[t] = 30
                             \/ /\ safe_time'[t] <= 15 /\ time_remain' <= 30
                                /\ time_remain' <= 2 * safe_time'[t] + 1
        BY <1>2, ConfigKept, StandardKept DEF Halving
    <2>0. /\ safe_time \in [Threads -> 0..30]
          /\ \A t \in Threads : pc[t] = "est" =>
                \/ safe_time[t] = 30
                \/ safe_time[t] <= 15 /\ time_remain <= 30 /\ time_remain <= 2 * safe_time[t] + 1
        BY DEF Halving
    <2>1. CASE Construct \/ TimeLeft \/ Play \/ Pass \/ Moved \/ GameEnds
        <3>1. UNCHANGED <<pc, safe_time>> /\ \A t \in Threads : pc[t] = "done"
            BY <2>1 DEF Construct, TimeLeft, Play, Pass, Moved, GameEnds, locals, Shape
        <3> QED
            BY <2>0, <3>1
    <2>2. CASE Genmove
        <3>1. safe_time' = [t \in Threads |-> 30]
            BY <2>2, StandardValues DEF Genmove
        <3> QED
            BY <3>1
    <2>3. ASSUME NEW t \in Threads, Halve(t)
          PROVE  /\ safe_time' \in [Threads -> 0..30]
                 /\ \A u \in Threads : pc'[u] = "est" =>
                      \/ safe_time'[u] = 30
                      \/ /\ safe_time'[u] <= 15 /\ time_remain' <= 30
                         /\ time_remain' <= 2 * safe_time'[u] + 1
        <3>1. /\ safe_time' = [safe_time EXCEPT ![t] = Halved(safe_time[t])]
              /\ UNCHANGED <<pc, time_remain>> /\ time_remain <= safe_time[t]
            BY <2>3 DEF Halve, timing
        <3>2. safe_time[t] \in 0..30 /\ time_remain \in Nat
            BY <2>0 DEF Timed
        <3>3. Halved(safe_time[t]) \in 0..15 /\ safe_time[t] <= 2 * Halved(safe_time[t]) + 1
            BY <3>2, HalfOf
        <3>4. /\ safe_time'[t] = Halved(safe_time[t])
              /\ \A u \in Threads : u # t => safe_time'[u] = safe_time[u]
            BY <2>0, <3>1
        <3>5. safe_time'[t] <= 15 /\ time_remain <= 30 /\ time_remain <= 2 * safe_time'[t] + 1
            BY <3>1, <3>2, <3>3, <3>4
        <3>6. safe_time' \in [Threads -> 0..30]
            BY <2>0, <3>1, <3>3
        <3> QED
            BY <2>0, <3>1, <3>4, <3>5, <3>6
    <2>4. ASSUME NEW t \in Threads, ThreadStep(t), ~Halve(t)
          PROVE  /\ UNCHANGED <<safe_time, time_remain>>
                 /\ \A u \in Threads : pc'[u] = "est" => pc[u] = "est"
        <3>1. UNCHANGED safe_time
            BY <2>4 DEF ThreadStep, Fixed, StopRollout, EstimateLate, EstimateEarly, Estimated,
                        BudgetRollouts, MeasureLoad, MeasureStore, NotMeasured
        <3> QED
            BY <2>4, <3>1, ThreadFrame
    <2>5. CASE UNCHANGED vars
        BY <2>0, <2>5 DEF vars, timing, locals
    <2> QED
        <3>1. CASE \E t \in Threads : Halve(t)
            BY <2>3, <3>1
        <3>2. CASE \E t \in Threads : ThreadStep(t) /\ ~Halve(t)
            BY <2>0, <2>4, <3>2
        <3> QED
            BY <1>2, <2>1, <2>2, <2>5, <3>1, <3>2, Steps
<1> QED
    BY <1>1, <1>2

------------------------------------------------------------------------------
(* The time-out                                                             *)

\* Between its moves the engine's move is moves/2.
LEMMA MyTurn ==
    ASSUME Shape, Turns, phase = "searching"
    PROVE  /\ MyMove \in Nat /\ Turn = MyMove
           /\ (moves + 1 + 1 - color) \div 2 = Turn + 1
<1>1. moves \in Nat /\ color \in {0, 1} /\ moves % 2 = color
    BY DEF Shape, Turns
<1>2. moves \div 2 \in Nat /\ moves = 2 * (moves \div 2) + color
    BY <1>1
<1> DEFINE half == moves \div 2
<1> HIDE DEF half
<1>3. half \in Nat /\ moves = 2 * half + color
    BY <1>2 DEF half
<1>4. (moves + 1 - color) \div 2 = half
    BY <1>1, <1>3
<1>5. (moves + 1 + 1 - color) \div 2 = half + 1
    BY <1>1, <1>3
<1> QED
    BY <1>3, <1>4, <1>5 DEF half, MyMove, Turn

\* A time that is enough for the next move is more so when more is left.
LEMMA MoreIsEnough ==
    ASSUME NEW turn \in Nat, NEW time \in Int, NEW more \in Int, time <= more,
           EnoughAt(turn, time)
    PROVE  EnoughAt(turn, more)
<1>1. CASE is_uec
    <2>1. CASE turn \in 150..199 /\ time >= 31000 + Need[200 - turn]
        <3>1. Need[200 - turn] \in Nat
            BY <2>1, Scales
        <3> QED
            BY <1>1, <2>1, <3>1 DEF EnoughAt
    <2>2. CASE turn = 200 /\ time >= 1000
        BY <1>1, <2>2 DEF EnoughAt
    <2> QED
        BY <1>1, <2>1, <2>2 DEF EnoughAt
<1>2. CASE ~is_uec
    <2> DEFINE early == 1000 + (150 + Overrun) * 100 + (1000 + Overrun) * (150 - turn)
    <2> DEFINE late == 1000 + (150 + Overrun) * (250 - turn)
    <2>1. early \in Int /\ late \in Int
        BY Scales
    <2>2. CASE turn \in 0..149 /\ time >= early
        <3>1. more >= early
            <4> HIDE DEF early
            <4> QED
                BY <2>1, <2>2
        <3> QED
            BY <1>2, <2>2, <3>1 DEF EnoughAt
    <2>3. CASE turn \in 150..250 /\ time >= late
        <3>1. more >= late
            <4> HIDE DEF late
            <4> QED
                BY <2>1, <2>3
        <3> QED
            BY <1>2, <2>3, <3>1 DEF EnoughAt
    <2> QED
        BY ONLY <1>2, <2>2, <2>3, EnoughAt(turn, time) DEF EnoughAt
<1> QED
    BY <1>1, <1>2

\* What an early move is given.
LEMMA EarlyAffordable ==
    ASSUME Standard, Turn = MyMove, MyMove \in Nat, MyMove < 150, clock \in Nat,
           time_remain = clock \div 1000, time_remain \in Nat
    PROVE  Affordable(EarlyTimeout)
<1>1. \/ EarlyTimeout = 1000
      \/ /\ Share \in Nat /\ Share >= 2000 /\ EarlyTimeout \in {Share, 2 * Share}
         /\ \E parts \in Nat : /\ parts >= 50 /\ parts >= 100 - MyMove
                               /\ parts * Share <= (time_remain - 100) * 1000
    BY EarlyShare
<1>2. EarlyTimeout \in Nat
    BY <1>1
<1>3. ASSUME EnoughTime, Turn + 1 <= LastTurn
      PROVE  EnoughAt(Turn + 1, clock - EarlyTimeout - Overrun)
    <2> DEFINE n == MyMove
    <2> DEFINE rest == 1000 + (150 + Overrun) * 100 + (1000 + Overrun) * (149 - n)
    <2>1. ~is_uec /\ n \in 0..149
          /\ clock >= 1000 + (150 + Overrun) * 100 + (1000 + Overrun) * (150 - n)
        BY <1>3 DEF EnoughTime, EnoughAt
    <2>2. clock - EarlyTimeout - Overrun >= rest
        <3>1. CASE EarlyTimeout = 1000
            <4>1. (1000 + Overrun) * (150 - n) = (1000 + Overrun) * (149 - n) + 1000 + Overrun
                BY <2>1, Scales
            <4> DEFINE over == (1000 + Overrun) * (149 - n)
            <4> DEFINE whole == (150 + Overrun) * 100
            <4>2. over \in Int /\ whole \in Int /\ clock >= 1000 + whole + over + 1000 + Overrun
                BY <2>1, <4>1, Scales
            <4>3. rest = 1000 + whole + over
                OBVIOUS
            <4> HIDE DEF over, whole, rest
            <4> QED
                BY <3>1, <4>2, <4>3, Scales
        <3>2. CASE EarlyTimeout # 1000
            <4>1. Share \in Nat /\ Share >= 2000 /\ EarlyTimeout <= 2 * Share
                BY <1>1, <3>2
            <4>2. PICK parts \in Nat : /\ parts >= 50 /\ parts >= 100 - n
                                       /\ parts * Share <= (clock \div 1000 - 100) * 1000
                BY <1>1, <3>2
            <4> DEFINE share == Share
            <4> DEFINE d == EarlyTimeout
            <4>3. share \in Nat /\ share >= 2000 /\ d \in Nat /\ d \in {share, 2 * share}
                BY <1>1, <1>2, <3>2, <4>1
            <4>4. EarlyPart(d, n, share, parts, clock)
                BY <4>2, <4>3 DEF EarlyPart, Parted
            <4> HIDE DEF share, d, n
            <4>5. clock - d - Overrun >= EarlyRest(n)
                BY <2>1, <4>4, EarlyLasts
            <4> QED
                BY <4>5 DEF d, EarlyRest
        <3> QED
            BY <3>1, <3>2
    <2>3. 150 - (n + 1) = 149 - n
        BY <2>1
    <2>4. CASE n + 1 <= 149
        BY <2>1, <2>2, <2>3, <2>4 DEF EnoughAt
    <2>5. CASE n = 149
        <3>1. rest = 1000 + (150 + Overrun) * (250 - (n + 1))
            BY <2>5, Scales
        <3> HIDE DEF rest
        <3> QED
            BY <2>1, <2>2, <2>5, <3>1 DEF EnoughAt
    <2> QED
        BY <2>1, <2>4, <2>5
<1> QED
    BY <1>2, <1>3 DEF Affordable

\* What a late move is given.
LateTimeout(t) == ((time_remain - safe_time[t]) * 1000) \div MovesLeft

LEMMA LateAffordable ==
    ASSUME Standard, Halving, Turn = MyMove, MyMove \in Nat, clock \in Nat,
           time_remain = clock \div 1000, time_remain \in Nat,
           NEW t \in Threads, pc[t] = "est", Late, time_remain > safe_time[t]
    PROVE  Affordable(LateTimeout(t))
<1> DEFINE n == MyMove
<1> DEFINE safe == safe_time[t]
<1> DEFINE d == LateTimeout(t)
<1>1. /\ safe \in 0..30
      /\ safe = 30 \/ (safe <= 15 /\ time_remain <= 2 * safe + 1 /\ time_remain <= 30)
    BY DEF Halving
<1>2. n >= 150 /\ ~(is_uec /\ n >= 200)
    BY StandardValues DEF Late, Stops, Policy
<1>3. MovesLeft \in Nat /\ MovesLeft > 0 /\ (~is_uec => MovesLeft = 100)
      /\ (is_uec => MovesLeft = 200 - n)
    BY <1>2 DEF MovesLeft
<1>4. d \in Int /\ MovesLeft * d <= (time_remain - safe) * 1000
      /\ (time_remain - safe) * 1000 < MovesLeft * d + MovesLeft
    <2> DEFINE left == (time_remain - safe) * 1000
    <2> DEFINE parts == MovesLeft
    <2>1. left \in Int /\ parts \in Nat /\ parts > 0 /\ d = left \div parts
        BY <1>1, <1>3 DEF LateTimeout
    <2> HIDE DEF left, parts, d
    <2>2. d \in Int /\ parts * d <= left /\ left < parts * d + parts
        BY <2>1, Division
    <2> QED
        BY <2>2 DEF left, parts
<1>5. d \in Nat
    <2>1. 0 < MovesLeft * d + MovesLeft
        BY <1>1, <1>3, <1>4
    <2>2. MovesLeft * d + MovesLeft = MovesLeft * (d + 1)
        BY <1>3, <1>4
    <2>3. d + 1 > 0
        <3>1. CASE d + 1 <= 0
            <4>1. MovesLeft * (d + 1) <= MovesLeft * 0
                BY <1>3, <1>4, <3>1, Smaller
            <4> QED
                BY <1>3, <1>4, <2>1, <2>2, <4>1
        <3> QED
            BY <1>4, <3>1
    <2> QED
        BY <1>4, <2>3
<1> HIDE DEF d
<1>6. ASSUME EnoughTime, Turn + 1 <= LastTurn, ~is_uec
      PROVE  EnoughAt(Turn + 1, clock - d - Overrun)
    <2>1. n \in 150..249 /\ clock >= 1000 + (150 + Overrun) * (250 - n)
        BY <1>2, <1>6 DEF EnoughTime, EnoughAt, LastTurn
    <2>2. d <= 10 * (clock \div 1000 - safe)
        BY <1>1, <1>3, <1>4, <1>6
    <2>3. clock - d - Overrun >= 1000 + (150 + Overrun) * (249 - n)
        <3>1. LatePart(d, safe, clock)
            BY <1>1, <1>5, <2>2 DEF LatePart
        <3>2. clock >= LateNeed(n)
            BY <2>1 DEF LateNeed
        <3> HIDE DEF n, safe
        <3>3. clock - d - Overrun >= LateRest(n)
            BY <2>1, <3>1, <3>2, LateLasts
        <3> QED
            BY <3>3 DEF LateRest
    <2>4. 250 - (n + 1) = 249 - n /\ n + 1 \in 150..250
        BY <2>1
    <2> QED
        BY <1>6, <2>3, <2>4 DEF EnoughAt
<1>7. ASSUME EnoughTime, Turn + 1 <= LastTurn, is_uec
      PROVE  EnoughAt(Turn + 1, clock - d - Overrun)
    <2>1. n \in 150..199 /\ clock >= 31000 + Need[200 - n]
        BY <1>2, <1>7 DEF EnoughTime, EnoughAt, LastTurn
    <2>2. Need[200 - n] \in Nat
        BY <2>1, Scales
    <2>3. clock \div 1000 \in Int /\ 1000 * (clock \div 1000) <= clock
          /\ clock < 1000 * (clock \div 1000) + 1000
        BY Division
    <2>4. time_remain >= 31
        BY <2>1, <2>2, <2>3
    <2>5. safe = 30
        BY <1>1, <2>4
    <2>6. (200 - n) * d <= (clock \div 1000 - 30) * 1000
        BY <1>3, <1>4, <1>7, <2>5
    <2>7. CASE n = 199
        <3>1. d <= (clock \div 1000 - 30) * 1000
            BY <1>5, <2>6, <2>7
        <3>2. clock - d - Overrun >= 1000
            BY <1>5, <2>3, <3>1, Scales
        <3> QED
            BY <1>7, <2>7, <3>2 DEF EnoughAt
    <2>8. CASE n < 199
        <3> DEFINE r == 200 - n
        <3>1. r \in 2..50
            BY <2>1, <2>8
        <3>2. clock - d - Overrun >= 31000 + Need[r - 1]
            <4>1. Parted(r, d, clock, 30) /\ clock >= SharedNeed(r)
                BY <2>1, <2>6 DEF Parted, SharedNeed
            <4>2. d \in Int
                BY <1>5
            <4> HIDE DEF r
            <4>3. clock - d - Overrun >= SharedNeed(r - 1)
                BY <3>1, <4>1, <4>2, SharedLasts
            <4> QED
                BY <4>3 DEF SharedNeed
        <3>3. r - 1 = 200 - (n + 1) /\ n + 1 \in 150..199
            BY <2>1, <2>8
        <3> QED
            BY <1>7, <3>2, <3>3 DEF EnoughAt
    <2> QED
        BY <2>1, <2>7, <2>8
<1> QED
    BY <1>5, <1>6, <1>7 DEF d, Affordable
------------------------------------------------------------------------------
(* The speed and the rollouts                                               *)

LEMMA FirstSpeed ==
    ASSUME NEW n \in 1..8
    PROVE  Between(Truncated(850, n), 100, 50000)
<1>1. Truncated(850, n) = 850 \div n
    BY DEF Truncated
<1>2. n \in {1, 2, 3, 4, 5, 6, 7, 8}
    OBVIOUS
<1>3. 850 \div n \in 100..850
    BY <1>2
<1> QED
    BY <1>1, <1>3 DEF Between

LEMMA NextSpeed ==
    ASSUME NEW speed, Between(speed, 201, 50000), NEW measured \in Nat, measured <= 50000,
           NEW average, average \in Averages(speed, measured)
    PROVE  Between(average, 100, 50000)
<1> DEFINE tenths == 9 * speed + measured
<1> DEFINE tenth == tenths \div 10
<1>1. tenths \in Int /\ tenths >= 1809 /\ tenths <= 500000
    BY DEF Between
<1>2. average \in {tenth, tenth - 1}
    BY DEF Averages
<1>3. tenth \in Int /\ 10 * tenth <= tenths /\ tenths < 10 * tenth + 10
    <2> HIDE DEF tenths
    <2> QED
        BY <1>1, Division
<1> HIDE DEF tenth, tenths
<1>4. tenth \in Int /\ tenth >= 101 /\ tenth <= 50000
    BY ONLY <1>1, <1>3
<1> QED
    BY ONLY <1>2, <1>4 DEF Between

\* The product neither overflows nor vanishes.
LEMMA SomeRollouts ==
    ASSUME NEW timeout, Between(timeout, 10, 35960), NEW speed, Between(speed, 100, 50000),
           NEW rollouts, rollouts \in Rollouts(timeout, speed)
    PROVE  rollouts \in Nat /\ rollouts >= 1
<1>0. /\ timeout \in Nat /\ timeout >= 10 /\ timeout <= 35960
      /\ speed \in Nat /\ speed >= 100 /\ speed <= 50000
    BY DEF Between
<1> DEFINE product == timeout * speed
<1> DEFINE most == MaxInt \div speed
<1>1. most \in Int /\ 2147483647 < speed * most + speed
    BY <1>0, Division DEF MaxInt
<1>2. timeout <= most
    <2> HIDE DEF most
    <2> SUFFICES ASSUME most + 1 <= 35960
                 PROVE  FALSE
        BY ONLY <1>0, <1>1
    <2> DEFINE over == speed * (most + 1)
    <2>1. over <= speed * 35960
        BY ONLY <1>0, <1>1, most + 1 <= 35960, Smaller
    <2>2. over = speed * most + speed
        BY ONLY <1>0, <1>1
    <2> DEFINE part == speed * most
    <2>3. part \in Int
        BY ONLY <1>0, <1>1
    <2>4. over \in Int /\ over <= speed * 35960 /\ over = part + speed /\ 2147483647 < part + speed
        BY ONLY <1>1, <2>1, <2>2, <2>3, <1>0
    <2> HIDE DEF over, part
    <2> QED
        BY ONLY <1>0, <2>3, <2>4
<1>3. Fits(timeout, speed)
    BY <1>2 DEF Fits
<1>4. product \in Int /\ product >= 1000
    <2>1. timeout * 100 <= timeout * speed
        BY ONLY <1>0, Smaller
    <2> QED
        BY ONLY <1>0, <2>1
<1>5. rollouts = Truncated(product, 1000)
    BY <1>3 DEF Rollouts
<1> HIDE DEF product
<1>6. rollouts = product \div 1000
    BY ONLY <1>4, <1>5 DEF Truncated
<1>7. product \div 1000 \in Int /\ product < 1000 * (product \div 1000) + 1000
    BY ONLY <1>4, Division
<1> QED
    BY ONLY <1>4, <1>6, <1>7

\* Only the threads move the speed and the budget, once there is a player.
LEMMA MeasuredStep ==
    ASSUME Shape, Fresh, Measured, [Next]_vars
    PROVE  Measured'
<1>1. CASE ReadConfig
    <2>1. phase' \in {"aborted", "configured"} /\ loaded' = [t \in Threads |-> 0]
          /\ \A t \in Threads : pc'[t] = "done"
        BY <1>1 DEF ReadConfig, locals, Fresh, Shape
    <2>2. loaded' \in [Threads -> Int]
        BY <2>1
    <2> QED
        BY <2>1, <2>2 DEF Measured
<1>2. CASE ~ReadConfig
    <2> SUFFICES ASSUME Standard, ModestSpeeds
                 PROVE  /\ phase' \in {"theirs", "ours", "searching"} => Between(rollout_speed', 100, 50000)
                        /\ loaded' \in [Threads -> Int]
                        /\ \A t \in Threads : pc'[t] = "measured" => Between(loaded'[t], 201, 50000)
        BY <1>2, ConfigKept, StandardKept DEF Measured
    <2>0. /\ phase \in {"theirs", "ours", "searching"} => Between(rollout_speed, 100, 50000)
          /\ loaded \in [Threads -> Int]
          /\ \A t \in Threads : pc[t] = "measured" => Between(loaded[t], 201, 50000)
        BY DEF Measured
    <2>1. CASE Construct
        <3>1. rollout_speed' = Truncated(850, config["search_threads"])
              /\ config["search_threads"] \in 1..8
            BY <2>1, StandardValues DEF Construct, InitRolloutSpeed
        <3>2. Between(rollout_speed', 100, 50000)
            BY <3>1, FirstSpeed
        <3>3. UNCHANGED <<pc, loaded>>
            BY <2>1 DEF Construct, locals
        <3> QED
            BY <2>0, <3>2, <3>3
    <2>2. CASE TimeLeft \/ Play \/ Pass \/ Moved \/ GameEnds
        <3>1. UNCHANGED <<pc, loaded, rollout_speed>>
            BY <2>2 DEF TimeLeft, Play, Pass, Moved, GameEnds, locals, budget
        <3>2. phase \in {"theirs", "ours", "searching"}
            BY <2>2 DEF TimeLeft, Play, Pass, Moved, GameEnds
        <3> QED
            BY <2>0, <3>1, <3>2
    <2>3. CASE Genmove
        <3>1. UNCHANGED <<loaded, rollout_speed>> /\ phase = "ours"
              /\ \A t \in Threads : pc'[t] # "measured"
            BY <2>3 DEF Genmove, budget
        <3> QED
            BY <2>0, <3>1
    <2>4. ASSUME NEW t \in Threads, ThreadStep(t)
          PROVE  /\ Between(rollout_speed', 100, 50000)
                 /\ loaded' \in [Threads -> Int]
                 /\ \A u \in Threads : pc'[u] = "measured" => Between(loaded'[u], 201, 50000)
        <3>0. Between(rollout_speed, 100, 50000) /\ \A u \in Threads : u # t => pc'[u] = pc[u]
            BY <2>0, <2>4, ThreadFrame
        <3>1. CASE MeasureLoad(t)
            <4>1. loaded' = [loaded EXCEPT ![t] = rollout_speed] /\ rollout_speed > 200
                  /\ rollout_speed' = rollout_speed
                BY <3>1 DEF MeasureLoad, budget
            <4>2. rollout_speed \in Int /\ Between(rollout_speed, 201, 50000)
                BY <3>0, <4>1 DEF Between
            <4>3. loaded' \in [Threads -> Int] /\ Between(loaded'[t], 201, 50000)
                  /\ \A u \in Threads : u # t => loaded'[u] = loaded[u]
                BY <2>0, <4>1, <4>2
            <4> QED
                BY <2>0, <3>0, <4>1, <4>3
        <3>2. CASE MeasureStore(t)
            <4>1. PICK n_speed \in Speeds : rollout_speed' \in Averages(loaded[t], n_speed)
                BY <3>2 DEF MeasureStore
            <4>2. pc[t] = "measured" /\ loaded' = [loaded EXCEPT ![t] = 0] /\ pc'[t] # "measured"
                BY <3>2 DEF MeasureStore, GoesTo, Shape
            <4>3. n_speed \in Nat /\ n_speed <= 50000 /\ Between(loaded[t], 201, 50000)
                BY <2>0, <4>2, Bounds DEF ModestSpeeds
            <4>4. Between(rollout_speed', 100, 50000)
                BY <4>1, <4>3, NextSpeed
            <4>5. loaded' \in [Threads -> Int]
                  /\ \A u \in Threads : u # t => loaded'[u] = loaded[u]
                BY <2>0, <4>2
            <4> QED
                BY <2>0, <3>0, <4>2, <4>4, <4>5
        <3>3. CASE ~MeasureLoad(t) /\ ~MeasureStore(t)
            <4>1. UNCHANGED <<loaded, rollout_speed>> /\ pc'[t] # "measured"
                BY <2>4, <3>3 DEF ThreadStep, Fixed, StopRollout, Halve, EstimateLate,
                   EstimateEarly, Estimated, BudgetRollouts, NotMeasured, GoesTo, budget, Shape
            <4> QED
                BY <2>0, <3>0, <4>1
        <3> QED
            BY <3>1, <3>2, <3>3
    <2>5. CASE UNCHANGED vars
        BY <2>0, <2>5 DEF vars, budget, locals
    <2> QED
        <3>1. CASE \E t \in Threads : ThreadStep(t)
            BY <2>4, <3>1
        <3> QED
            BY <1>2, <2>1, <2>2, <2>3, <2>5, <3>1, Steps
<1> QED
    BY <1>1, <1>2

\* A time-out of a clock of less than 1000 s.
LEMMA EarlyBounded ==
    ASSUME Standard, time_remain \in Nat, time_remain < 1000, MyMove \in Nat
    PROVE  Between(EarlyTimeout, 10, 35960)
<1> DEFINE d == EarlyTimeout
<1> DEFINE share == Share
<1>1. CASE d = 1000
    BY <1>1 DEF Between
<1>2. CASE d # 1000
    <2>1. share \in Nat /\ share >= 2000 /\ d \in {share, 2 * share}
          /\ \E parts \in Nat : /\ parts >= 50 /\ parts >= 100 - MyMove
                                /\ parts * share <= (time_remain - 100) * 1000
        BY <1>2, EarlyShare
    <2> HIDE DEF d, share
    <2>2. PICK parts \in Nat : parts >= 50 /\ parts * share <= (time_remain - 100) * 1000
        BY ONLY <2>1
    <2>3. share * 50 <= share * parts
        BY ONLY <2>1, <2>2, Smaller
    <2> DEFINE product == share * parts
    <2>4. product \in Int /\ share * 50 <= product /\ product <= (time_remain - 100) * 1000
        BY ONLY <2>1, <2>2, <2>3
    <2> HIDE DEF product
    <2>5. share <= 17980
        BY <2>1, <2>4
    <2> QED
        BY <2>1, <2>5 DEF d, Between
<1> QED
    BY <1>1, <1>2

LEMMA LateBounded ==
    ASSUME Standard, Halving, time_remain \in Nat, time_remain < 1000, ~is_uec,
           NEW t \in Threads, time_remain > safe_time[t]
    PROVE  Between(LateTimeout(t), 10, 35960)
<1> DEFINE left == time_remain - safe_time[t]
<1>1. left \in Nat /\ left >= 1 /\ left <= 999
    BY DEF Halving
<1>2. LateTimeout(t) = (left * 1000) \div 100
    BY DEF LateTimeout, MovesLeft
<1> HIDE DEF left
<1>3. (left * 1000) \div 100 = left * 10
    BY <1>1
<1> QED
    BY <1>1, <1>2, <1>3 DEF Between

\* What the threads that have no time-out yet find, with the default parameters.
LEMMA Estimates ==
    ASSUME Standard, Shape, NEW t \in Threads, ThreadStep(t), pc[t] = "est", ~Halve(t)
    PROVE  /\ pc'[t] = "rollout" /\ UNCHANGED <<dynamic_rollout>>
           /\ \/ Stops /\ dynamic_timeout' = 0
              \/ Late /\ time_remain > safe_time[t] /\ dynamic_timeout' = LateTimeout(t)
              \/ Early /\ dynamic_timeout' = EarlyTimeout
<1>1. Fixed(t) \/ StopRollout(t) \/ EstimateLate(t) \/ EstimateEarly(t)
    BY DEF ThreadStep, BudgetRollouts, MeasureLoad, MeasureStore, NotMeasured
<1>2. ~Fixed(t)
    BY StandardValues DEF Fixed, Policy
<1>3. pc'[t] = "rollout" /\ UNCHANGED <<dynamic_rollout>>
    BY <1>1 DEF Fixed, StopRollout, EstimateLate, EstimateEarly, Estimated, GoesTo, Shape
<1>4. CASE StopRollout(t)
    BY <1>3, <1>4 DEF StopRollout, Estimated
<1>5. CASE EstimateLate(t)
    BY <1>3, <1>5 DEF EstimateLate, Estimated, LateTimeout
<1>6. CASE EstimateEarly(t)
    BY <1>3, <1>6 DEF EstimateEarly, Estimated
<1> QED
    BY <1>1, <1>2, <1>4, <1>5, <1>6

\* The other steps of a thread.
LEMMA NoEstimate ==
    ASSUME Shape, NEW t \in Threads, ThreadStep(t), pc[t] # "est" \/ Halve(t)
    PROVE  /\ UNCHANGED <<dynamic_timeout>>
           /\ BudgetRollouts(t) \/ UNCHANGED <<dynamic_rollout>>
           /\ pc'[t] # "rollout"
           /\ pc'[t] = "search" => BudgetRollouts(t)
<1>1. CASE Halve(t)
    <2>1. pc'[t] = "est" /\ UNCHANGED <<dynamic_timeout, dynamic_rollout>>
        BY <1>1 DEF Halve, budget
    <2> QED
        BY <2>1
<1>2. CASE ~Halve(t)
    <2>1. BudgetRollouts(t) \/ MeasureLoad(t) \/ MeasureStore(t) \/ NotMeasured(t)
        BY <1>2 DEF ThreadStep, Fixed, StopRollout, EstimateLate, EstimateEarly
    <2> QED
        BY <2>1 DEF BudgetRollouts, MeasureLoad, MeasureStore, NotMeasured, GoesTo, budget, Shape
<1> QED
    BY <1>1, <1>2

LEMMA RollingStep ==
    ASSUME Shape, Fresh, Timed, Turns, Halving, Measured, Rolling, [Next]_vars
    PROVE  Rolling'
<1>1. ASSUME NEW t \in Threads, ThreadStep(t) PROVE Rolling'
    <2>1. phase = "searching" /\ UNCHANGED <<config, is_uec, moves, time_remain>>
          /\ \A u \in Threads : u # t => pc'[u] = pc[u]
        BY <1>1, ThreadFrame
    <2> SUFFICES ASSUME Standard, ModestSpeeds, ~is_uec, time_remain < 1000, NEW u \in Threads
                 PROVE  /\ pc'[u] = "rollout" => Between(dynamic_timeout', 10, 35960)
                        /\ pc'[u] = "search" => dynamic_rollout' \in Nat /\ dynamic_rollout' >= 1
        BY <2>1, StandardKept DEF Rolling
    <2>2. /\ pc[u] = "rollout" => Between(dynamic_timeout, 10, 35960)
          /\ pc[u] = "search" => dynamic_rollout \in Nat /\ dynamic_rollout >= 1
        BY DEF Rolling
    <2>3. time_remain \in Nat /\ MyMove \in Nat
        BY <2>1, MyTurn DEF Timed
    <2>4. CASE pc[t] = "est" /\ ~Halve(t)
        <3>1. pc'[t] = "rollout" /\ UNCHANGED <<dynamic_rollout>>
            BY <1>1, <2>4, Estimates
        <3>2. Between(dynamic_timeout', 10, 35960)
            <4>1. \/ time_remain > safe_time[t] /\ dynamic_timeout' = LateTimeout(t)
                  \/ dynamic_timeout' = EarlyTimeout
                BY <1>1, <2>4, Estimates DEF Stops
            <4>2. CASE dynamic_timeout' = EarlyTimeout
                BY <2>3, <4>2, EarlyBounded
            <4>3. CASE time_remain > safe_time[t] /\ dynamic_timeout' = LateTimeout(t)
                BY <2>3, <4>3, LateBounded
            <4> QED
                BY <4>1, <4>2, <4>3
        <3> QED
            BY <2>1, <2>2, <3>1, <3>2
    <2>5. CASE BudgetRollouts(t)
        <3>1. pc[t] = "rollout" /\ dynamic_rollout' \in Rollouts(dynamic_timeout, rollout_speed)
              /\ UNCHANGED <<dynamic_timeout>> /\ pc'[t] = "search"
            BY <2>5 DEF BudgetRollouts, GoesTo, Shape
        <3>2. Between(dynamic_timeout, 10, 35960)
            BY <3>1 DEF Rolling
        <3>3. Between(rollout_speed, 100, 50000)
            BY <2>1 DEF Measured
        <3>4. dynamic_rollout' \in Nat /\ dynamic_rollout' >= 1
            BY <3>1, <3>2, <3>3, SomeRollouts
        <3> QED
            BY <2>1, <2>2, <3>1, <3>4
    <2>6. CASE (pc[t] # "est" \/ Halve(t)) /\ ~BudgetRollouts(t)
        <3>1. UNCHANGED <<dynamic_timeout, dynamic_rollout>>
              /\ pc'[t] # "rollout" /\ pc'[t] # "search"
            BY <1>1, <2>6, NoEstimate
        <3> QED
            BY <2>1, <2>2, <3>1
    <2> QED
        BY <2>4, <2>5, <2>6
<1>2. CASE ReadConfig \/ Construct \/ TimeLeft \/ Play \/ Pass \/ Moved \/ GameEnds
    <2>1. pc' = pc /\ \A t \in Threads : pc[t] = "done"
        BY <1>2 DEF ReadConfig, Construct, TimeLeft, Play, Pass, Moved, GameEnds, locals, Shape
    <2> QED
        BY <2>1 DEF Rolling
<1>3. CASE Genmove
    <2>1. \A t \in Threads : pc'[t] \in {"est", "done"}
        BY <1>3 DEF Genmove
    <2> QED
        BY <2>1 DEF Rolling
<1>4. CASE UNCHANGED vars
    <2>1. UNCHANGED <<config, is_uec, time_remain, pc, dynamic_timeout, dynamic_rollout>>
        BY <1>4 DEF vars, setup, timing, budget, locals
    <2> QED
        BY <2>1, StandardKept DEF Rolling
<1> QED
    BY <1>1, <1>2, <1>3, <1>4, Steps

------------------------------------------------------------------------------
(* The clock                                                                *)

\* What is enough depends on whose move it is and on the game.
LEMMA TurnKept ==
    ASSUME UNCHANGED <<is_uec, moves, color, clock>>
    PROVE  /\ Turn' = Turn /\ LastTurn' = LastTurn
           /\ EnoughTime' <=> EnoughTime
           /\ Affordable(dynamic_timeout') => Affordable(dynamic_timeout)'
<1>1. Turn' = Turn /\ LastTurn' = LastTurn
    BY DEF Turn, LastTurn
<1>2. EnoughTime' <=> EnoughTime
    BY DEF EnoughTime, EnoughAt, Turn
<1>3. Affordable(dynamic_timeout') => Affordable(dynamic_timeout)'
    BY <1>1, <1>2 DEF Affordable, EnoughAt
<1> QED
    BY <1>1, <1>2, <1>3

LEMMA BudgetedStep ==
    ASSUME Shape, Fresh, Timed, Turns, TimeKnown, Halving, Budgeted, [Next]_vars
    PROVE  Budgeted'
<1>1. ASSUME NEW t \in Threads, ThreadStep(t) PROVE Budgeted'
    <2>1. phase = "searching"
          /\ UNCHANGED <<phase, config, is_uec, moves, color, clock, time_remain>>
          /\ \A u \in Threads : u # t => pc'[u] = pc[u]
        BY <1>1, ThreadFrame
    <2> SUFFICES ASSUME Standard
                 PROVE  pc'[1] = "est" \/ Affordable(dynamic_timeout')
        BY <2>1, StandardKept, TurnKept DEF Budgeted
    <2>2. time_remain \in Nat /\ clock \in Nat /\ time_remain = clock \div 1000
        <3>1. time_remain \in Nat /\ clock \in Int /\ clock >= 0
            BY <2>1 DEF Timed
        <3>2. time_remain = clock \div 1000
            BY <2>1 DEF TimeKnown
        <3> QED
            BY <3>1, <3>2
    <2>3. MyMove \in Nat /\ Turn = MyMove
        BY <2>1, MyTurn
    <2>4. CASE pc[t] = "est" /\ ~Halve(t)
        <3>1. CASE Stops /\ dynamic_timeout' = 0
            <4>1. is_uec /\ MyMove >= 200
                BY <3>1 DEF Stops
            <4>2. ~(Turn + 1 <= LastTurn)
                BY <2>3, <4>1 DEF LastTurn
            <4> QED
                BY <3>1, <4>2 DEF Affordable
        <3>2. CASE Late /\ time_remain > safe_time[t] /\ dynamic_timeout' = LateTimeout(t)
            BY <2>2, <2>3, <2>4, <3>2, LateAffordable
        <3>3. CASE Early /\ dynamic_timeout' = EarlyTimeout
            <4>1. MyMove < 150
                BY <3>3 DEF Early
            <4> QED
                BY <2>2, <2>3, <3>3, <4>1, EarlyAffordable
        <3> QED
            BY <1>1, <2>4, <3>1, <3>2, <3>3, Estimates
    <2>5. CASE pc[t] # "est" \/ Halve(t)
        <3>1. UNCHANGED <<dynamic_timeout>>
            BY <1>1, <2>5, NoEstimate
        <3>2. pc[1] = "est" \/ Affordable(dynamic_timeout)
            BY <2>1 DEF Budgeted
        <3>3. CASE pc[1] = "est"
            <4>1. CASE t = 1
                BY <2>5, <3>3, <4>1 DEF Halve
            <4>2. CASE t # 1
                BY <2>1, <3>3, <4>2, FirstThread
            <4> QED
                BY <4>1, <4>2
        <3> QED
            BY <3>1, <3>2, <3>3
    <2> QED
        BY <2>4, <2>5
<1>2. CASE ReadConfig \/ Construct \/ TimeLeft \/ Play \/ Pass \/ Moved \/ GameEnds
    <2>1. phase' # "searching"
        BY <1>2 DEF ReadConfig, Construct, TimeLeft, Play, Pass, Moved, GameEnds
    <2> QED
        BY <2>1 DEF Budgeted
<1>3. CASE Genmove
    <2>1. pc' = [t \in Threads |-> IF t <= config["search_threads"] THEN "est" ELSE "done"]
          /\ config' = config
        BY <1>3 DEF Genmove, setup
    <2>2. Standard' => pc'[1] = "est"
        BY <2>1, StandardKept, StandardValues, FirstThread
    <2> QED
        BY <2>2 DEF Budgeted
<1>4. CASE UNCHANGED vars
    <2>1. UNCHANGED <<phase, config, is_uec, moves, color, clock, pc, dynamic_timeout>>
        BY <1>4 DEF vars, setup, board, timing, budget, locals
    <2> QED
        BY <2>1, StandardKept, TurnKept DEF Budgeted
<1> QED
    BY <1>1, <1>2, <1>3, <1>4, Steps

------------------------------------------------------------------------------
(* The theorems                                                             *)

LEMMA IInvStep == IInv /\ [Next]_vars => IInv'
<1> SUFFICES ASSUME IInv, [Next]_vars PROVE IInv'
    OBVIOUS
<1>1. Shape' /\ Timed' /\ Fresh' /\ Turns' /\ TimeKnown'
    BY ShapeStep, TimedStep, FreshStep, TurnsStep, TimeKnownStep DEF IInv
<1>2. Halving' /\ Budgeted' /\ Measured' /\ Rolling'
    BY HalvingStep, BudgetedStep, MeasuredStep, RollingStep DEF IInv
<1> QED
    BY <1>1, <1>2 DEF IInv

\* With the default parameters, up to 8 search threads, a clock of less than 1000 s
\* and measured speeds up to 50000, every search of a game that is not UEC's begins
\* with a rollout left, whatever speeds the threads store over one another's
\* (est_timeout_rollout, cal_rollout_speed).
THEOREM RolloutsLeftHolds == Spec => []RolloutsLeft
<1>1. IInv => RolloutsLeft
    BY DEF IInv, Rolling, RolloutsLeft
<1> QED
    BY <1>1, IInvInit, IInvStep, PTL DEF Spec

\* A clock of nothing is not enough.
LEMMA EnoughIsSome ==
    ASSUME EnoughTime, moves \in Nat, color \in {0, 1}
    PROVE  clock # 0
<1> DEFINE n == Turn
<1>1. CASE is_uec
    <2>1. \/ n \in 150..199 /\ clock >= 31000 + Need[200 - n]
          \/ n = 200 /\ clock >= 1000
        BY <1>1 DEF EnoughTime, EnoughAt
    <2>2. n \in 150..199 => Need[200 - n] \in Nat
        BY Scales
    <2> QED
        BY <2>1, <2>2
<1>2. CASE ~is_uec
    <2> DEFINE early == (150 + Overrun) * 100 + (1000 + Overrun) * (150 - n)
    <2> DEFINE late == (150 + Overrun) * (250 - n)
    <2>1. CASE n \in 0..149 /\ clock >= 1000 + (150 + Overrun) * 100 + (1000 + Overrun) * (150 - n)
        <3>1. (1000 + Overrun) * (150 - n) >= 0 /\ (150 + Overrun) * 100 >= 0
            BY <2>1, Scales
        <3> QED
            BY <2>1, <3>1, Scales
    <2>2. CASE n \in 150..250 /\ clock >= 1000 + (150 + Overrun) * (250 - n)
        <3>1. (150 + Overrun) * (250 - n) >= 0
            BY <2>2, Scales
        <3> QED
            BY <2>2, <3>1, Scales
    <2> QED
        BY <1>2, <2>1, <2>2 DEF EnoughTime, EnoughAt
<1> QED
    BY <1>1, <1>2

\* The opponent's move leaves the engine's next move the same.
LEMMA PlayKeepsTurn ==
    ASSUME Shape, Turns, Play
    PROVE  Turn' = Turn
<1>1. moves \in Nat /\ color \in {0, 1} /\ color' = color /\ phase = "theirs"
    BY DEF Shape, Play, setup
<1>2. CASE stop_rollout
    BY <1>1, <1>2 DEF Play, Turn
<1>3. CASE ~stop_rollout
    <2>1. moves' = moves + 1 /\ moves % 2 # color
        BY <1>1, <1>3 DEF Play, Turns
    <2>2. (moves + 2 - color) \div 2 = (moves + 1 - color) \div 2
        <3>1. CASE color = 0
            <4>1. moves % 2 = 1
                BY <1>1, <2>1, <3>1
            <4> QED
                BY <1>1, <3>1, <4>1
        <3>2. CASE color = 1
            <4>1. moves % 2 = 0
                BY <1>1, <2>1, <3>2
            <4> QED
                BY <1>1, <3>2, <4>1
        <3> QED
            BY <1>1, <3>1, <3>2
    <2>3. moves' + 1 - color' = moves + 2 - color
        BY <1>1, <2>1
    <2> QED
        BY <2>2, <2>3 DEF Turn
<1> QED
    BY <1>2, <1>3

LEMMA ClockStep ==
    ASSUME IInv, [Next]_vars, Standard, EnoughTime, Turn' <= LastTurn
    PROVE  EnoughTime'
<1> USE DEF IInv
<1>1. CASE ReadConfig \/ Construct
    <2>1. clock = 0
        BY <1>1 DEF ReadConfig, Construct, Fresh
    <2> QED
        BY <2>1, EnoughIsSome DEF Shape
<1>2. CASE TimeLeft \/ Pass \/ Genmove \/ GameEnds
    <2>1. UNCHANGED <<is_uec, moves, color, clock>>
        BY <1>2 DEF TimeLeft, Pass, Genmove, GameEnds, setup, board, timing
    <2> QED
        BY <2>1, TurnKept
<1>3. CASE Play
    <2>1. Turn' = Turn /\ UNCHANGED <<is_uec, clock>>
        BY <1>3, PlayKeepsTurn DEF Play, setup, timing
    <2> QED
        BY <2>1 DEF EnoughTime, EnoughAt
<1>4. CASE Moved
    <2>1. phase = "searching" /\ pc[1] = "done" /\ UNCHANGED <<is_uec, color>> /\ moves' = moves + 1
        BY <1>4, FirstThread DEF Moved, setup
    <2>2. Turn' = Turn + 1 /\ Turn \in Nat
        BY <2>1, MyTurn DEF Turn
    <2>3. Affordable(dynamic_timeout)
        BY <2>1 DEF Budgeted
    <2>4. dynamic_timeout \in Nat /\ EnoughAt(Turn + 1, clock - dynamic_timeout - Overrun)
        BY <2>2, <2>3 DEF Affordable
    <2>5. PICK used \in {0, dynamic_timeout} : clock' = clock - used - Overrun
        BY <1>4 DEF Moved
    <2>6. clock \in Int
        BY DEF Timed
    <2>7. clock' \in Int /\ clock - dynamic_timeout - Overrun <= clock'
          /\ clock - dynamic_timeout - Overrun \in Int
        BY <2>4, <2>5, <2>6, Scales
    <2>8. EnoughAt(Turn + 1, clock')
        BY <2>2, <2>4, <2>7, MoreIsEnough
    <2> QED
        BY <2>1, <2>2, <2>8 DEF EnoughTime, EnoughAt
<1>5. CASE \E t \in Threads : ThreadStep(t)
    BY <1>5, ThreadFrame, TurnKept
<1>6. CASE UNCHANGED vars
    <2>1. UNCHANGED <<is_uec, moves, color, clock>>
        BY <1>6 DEF vars, setup, board, timing
    <2> QED
        BY <2>1, TurnKept
<1> QED
    BY <1>1, <1>2, <1>3, <1>4, <1>5, <1>6, Steps

\* With the default parameters, a clock that is enough for what is left of the
\* game stays enough: est_timeout_rollout never gives a move more than leaves a
\* second for the engine's move 250, or 200 of a UEC game, whatever is reported of
\* the opponent's time and whichever thread's time-out is the last.
THEOREM ClockLastsHolds == Spec => ClockLasts
<1>1. IInv /\ [Next]_vars => [Standard /\ EnoughTime /\ Turn' <= LastTurn => EnoughTime']_vars
    BY ClockStep
<1> QED
    BY <1>1, IInvInit, IInvStep, PTL DEF Spec, ClockLasts

------------------------------------------------------------------------------
(* The configuration file                                                   *)

\* The lines that the reader looks through for a key are those that stand
\* under the heading of its section.
LEMMA SearchedIsHeaded ==
    ASSUME NEW f \in Seq(Lines), WellFormed(f), NEW key \in Keys, NEW i \in DOMAIN f,
           f[i].key = key
    PROVE  i \in Searched(f, Section(key)) <=> Heading(i, f)
<1> DEFINE N == Section(key)
           named == {s \in SectionLines(f) : f[s].name = N}
           n == Len(f)
<1>1. n \in Nat /\ DOMAIN f = 1..n
  OBVIOUS
<1>2. \A s \in SectionLines(f) : s \in 1..n /\ f[s].kind = "section"
  BY <1>1 DEF SectionLines
<1>3. \A j \in 1..n : f[j].kind = "section" => j \in SectionLines(f)
  BY <1>1 DEF SectionLines
<1>4. \A s, u \in named : s = u
  BY DEF WellFormed
<1>5. i \in Searched(f, N) <=>
          \E s \in named : /\ \A other \in named : s <= other
                           /\ i >= s + 1
                           /\ \A next \in SectionLines(f) : next > s => i < next
  BY DEF Searched, FirstLine
<1>6. Heading(i, f) <=>
          \E s \in named : s < i /\ \A j \in s + 1..i : f[j].kind # "section"
  BY DEF Heading
<1>7. \A s \in named : s \in SectionLines(f) /\ s \in 1..n
  BY <1>2
<1> HIDE DEF N, named, n
<1>8. ASSUME i \in Searched(f, N)
      PROVE  Heading(i, f)
  <2>1. PICK s \in named : i >= s + 1 /\ \A next \in SectionLines(f) : next > s => i < next
    BY <1>5, <1>8
  <2>2. s \in 1..n /\ i \in 1..n
    BY <1>1, <1>7
  <2>3. ASSUME NEW j \in s + 1..i, f[j].kind = "section"
        PROVE  FALSE
    <3>1. j \in 1..n /\ j > s /\ ~(i < j)
      BY <1>1, <2>2
    <3> QED
      BY <1>3, <2>1, <2>3, <3>1
  <2>4. s < i
    BY <2>1, <2>2, <1>1
  <2> QED
    BY <1>6, <2>3, <2>4
<1>9. ASSUME Heading(i, f)
      PROVE  i \in Searched(f, N)
  <2>1. PICK s \in named : s < i /\ \A j \in s + 1..i : f[j].kind # "section"
    BY <1>6, <1>9
  <2>2. s \in 1..n /\ i \in 1..n
    BY <1>1, <1>7
  <2>3. \A other \in named : s <= other
    BY <1>1, <1>4, <2>2
  <2>4. ASSUME NEW next \in SectionLines(f), next > s
        PROVE  i < next
    <3>1. next \in 1..n /\ f[next].kind = "section"
      BY <1>2
    <3>2. next \notin s + 1..i
      BY <2>1, <3>1
    <3> QED
      BY <1>1, <2>2, <2>4, <3>1, <3>2
  <2>5. i >= s + 1
    BY <1>1, <2>1, <2>2
  <2> QED
    BY <1>5, <2>3, <2>4, <2>5
<1> QED
  BY <1>8, <1>9 DEF N

\* What the reader makes of such a file is what the file says.
LEMMA GetMeans ==
    ASSUME NEW f \in Seq(Lines), WellFormed(f), NEW key \in Keys
    PROVE  \/ SaysOf(f, key, Get(f, key))
           \/ /\ Get(f, key) = Default(key)
              /\ \A i \in DOMAIN f : ~SaysOf(f, key, f[i].value)
<1> DEFINE found == {i \in Searched(f, Section(key)) : Matches(f[i], key)}
<1>1. Searched(f, Section(key)) \subseteq DOMAIN f
  BY DEF Searched
<1>2. ASSUME NEW i \in DOMAIN f
      PROVE  /\ ~f[i].blank
             /\ i \notin SectionLines(f) <=> f[i].kind = "pair"
  BY DEF WellFormed, SectionLines
<1>3. ASSUME NEW i \in found
      PROVE  /\ i \in DOMAIN f \ SectionLines(f) /\ f[i].kind = "pair"
             /\ f[i].key = key /\ Heading(i, f)
  <2>1. i \in DOMAIN f /\ f[i].key = key /\ i \in Searched(f, Section(key))
    BY <1>1 DEF Matches
  <2>2. f[i].kind = "pair"
    <3>1. f[i].kind # "section"
      BY DEF Matches
    <3> QED
      BY <1>2, <2>1, <3>1 DEF SectionLines
  <2> QED
    BY <1>2, <2>1, <2>2, SearchedIsHeaded
<1>4. ASSUME NEW i \in DOMAIN f \ SectionLines(f), f[i].key = key, Heading(i, f)
      PROVE  i \in found
  <2>1. i \in Searched(f, Section(key))
    BY <1>4, SearchedIsHeaded
  <2>2. Matches(f[i], key)
    BY <1>2, <1>4 DEF Matches
  <2> QED
    BY <2>1, <2>2
<1>5. Get(f, key) = IF found = {} THEN Default(key)
                    ELSE Number(f[CHOOSE i \in found : \A j \in found : i <= j], key)
  BY DEF Get
<1> HIDE DEF found
<1>6. CASE found = {}
  <2>1. Get(f, key) = Default(key)
    BY <1>5, <1>6
  <2>2. ASSUME NEW i \in DOMAIN f, SaysOf(f, key, f[i].value)
        PROVE  FALSE
    BY <1>4, <1>6, <2>2 DEF SaysOf
  <2> QED
    BY <2>1, <2>2
<1>7. CASE found # {}
  <2>1. PICK i \in found : TRUE
    BY <1>7
  <2>2. \A j \in found : i = j
    BY <1>3 DEF WellFormed
  <2>3. i \in Nat
    BY <1>3
  <2>4. (CHOOSE k \in found : \A j \in found : k <= j) \in found
    <3>1. \E k \in found : \A j \in found : k <= j
      BY <2>2, <2>3
    <3> QED
      BY <3>1
  <2>5. Get(f, key) = Number(f[i], key)
    BY <1>5, <1>7, <2>2, <2>4
  <2>6. Number(f[i], key) = f[i].value
    BY <1>3 DEF Number
  <2> QED
    BY <1>3, <2>5, <2>6 DEF SaysOf
<1> QED
  BY <1>6, <1>7

\* Before it is read the file is one of those there are.
Unread == phase = "boot" => file \in Files

LEMMA BootStep ==
    IInv /\ Unread /\ [Next]_vars => Unread' /\ (phase = "boot" => ReadConfig \/ UNCHANGED vars)
<1> SUFFICES ASSUME IInv, Unread, [Next]_vars
             PROVE  Unread' /\ (phase = "boot" => ReadConfig \/ UNCHANGED vars)
  OBVIOUS
<1>1. CASE UNCHANGED vars
  BY <1>1 DEF vars, setup, Unread
<1>2. CASE \E t \in Threads : ThreadStep(t)
  BY <1>2, ThreadFrame DEF IInv, Unread
<1>3. CASE ReadConfig
  BY <1>3 DEF ReadConfig, Unread
<1>4. CASE Construct \/ TimeLeft \/ Play \/ Pass \/ Genmove \/ Moved \/ GameEnds
  BY <1>4 DEF Construct, TimeLeft, Play, Pass, Genmove, Moved, GameEnds, Unread
<1>5. CASE Ended
  BY <1>5 DEF Ended, vars, setup, Unread
<1> QED
  BY <1>1, <1>2, <1>3, <1>4, <1>5 DEF Next

\* A file of sections and plain pairs, of any length and in any order, sets each
\* parameter to the value that stands for it in its section, or leaves it at its
\* default, and the reader throws nothing (IniReader::GetString, Config::Sinit).
THEOREM SettingsMeantHolds == Spec => SettingsMeant
<1>1. Init => IInv /\ Unread
  BY IInvInit DEF Init, Unread
<1>2. IInv /\ Unread /\ [Next]_vars => IInv' /\ Unread'
  BY IInvStep, BootStep
<1>3. IInv /\ Unread /\ [Next]_vars =>
        [phase = "boot" /\ WellFormed(file) =>
           /\ phase' = "configured"
           /\ \A key \in Keys :
                 \/ SaysOf(file, key, config'[key])
                 \/ /\ config'[key] = Default(key)
                    /\ \A i \in DOMAIN file : ~SaysOf(file, key, file[i].value)]_vars
  <2> SUFFICES ASSUME IInv, Unread, [Next]_vars, ~UNCHANGED vars, phase = "boot", WellFormed(file)
               PROVE  /\ phase' = "configured"
                      /\ \A key \in Keys :
                            \/ SaysOf(file, key, config'[key])
                            \/ /\ config'[key] = Default(key)
                               /\ \A i \in DOMAIN file : ~SaysOf(file, key, file[i].value)
    OBVIOUS
  <2>1. ReadConfig /\ file \in Seq(Lines)
    BY BootStep, FilesAssumption DEF Unread
  <2>2. Opens(file)
    BY DEF Opens, WellFormed
  <2>3. ~SinitThrows(file)
    BY DEF SinitThrows, Throws, Searched, WellFormed
  <2>4. phase' = "configured" /\ config' = Sinit(file)
    BY <2>1, <2>2, <2>3 DEF ReadConfig
  <2>5. \A key \in Keys : config'[key] = Get(file, key)
    BY <2>4 DEF Sinit
  <2> QED
    BY <2>1, <2>4, <2>5, GetMeans
<1> QED
  BY <1>1, <1>2, <1>3, PTL DEF Spec, SettingsMeant
==============================================================================
