----------------------------- MODULE PlayerProofs -----------------------------
(***************************************************************************)
(* Proofs about Player for any number of threads and moves.                *)
(*                                                                         *)
(* The invariants are those of SearchProofs and RolloutProofs, kept over   *)
(* the commands: a game that goes on hands the tree over only when no      *)
(* thread and no callback is in it, and the part below a child is again a  *)
(* whole tree, with its visits, its losses and its lines of moves.  What   *)
(* the root is owed is counted from the beginning of the search at hand.   *)
(***************************************************************************)
EXTENDS Player, RolloutProofs

------------------------------------------------------------------------------
(* Paths from the root, seen from a child of the root                       *)

Links == Moves \X (Nat \ {0})

\* A path that is not the root's begins with a link.
LEMMA PathSplit ==
    ASSUME NEW y \in Paths, y # Root
    PROVE  Head(y) \in Links /\ Tail(y) \in Paths /\ <<Head(y)>> \o Tail(y) = y
<1>1. y \in Seq(Links) /\ y # <<>>
  BY DEF Paths, Links, Root
<1>2. Head(y) \in Links /\ Tail(y) \in Seq(Links) /\ Len(Tail(y)) = Len(y) - 1
      /\ \A i \in 1..Len(Tail(y)) : Tail(y)[i] = y[i + 1]
  BY <1>1, HeadTailProperties
<1>3. <<Head(y)>> \in Seq(Links) /\ Len(<<Head(y)>>) = 1 /\ <<Head(y)>>[1] = y[1]
  BY <1>1, <1>2
<1>4. Len(y) \in Nat \ {0}
  BY <1>1, EmptySeq
<1>5. /\ <<Head(y)>> \o Tail(y) \in Seq(Links)
      /\ Len(<<Head(y)>> \o Tail(y)) = 1 + (Len(y) - 1)
      /\ \A i \in 1..(1 + (Len(y) - 1)) : (<<Head(y)>> \o Tail(y))[i]
             = IF i <= 1 THEN <<Head(y)>>[i] ELSE Tail(y)[i - 1]
  BY <1>2, <1>3, ConcatProperties
<1> DEFINE z == <<Head(y)>> \o Tail(y)
<1>6. Len(z) = Len(y)
  BY <1>4, <1>5
<1>7. ASSUME NEW i \in 1..Len(z)
      PROVE  z[i] = y[i]
  BY <1>2, <1>3, <1>4, <1>5, <1>6
<1> HIDE DEF z
<1>8. z = y
  BY <1>1, <1>5, <1>6, <1>7, SeqEqual DEF z
<1> QED
  BY <1>2, <1>8 DEF z, Paths, Links

\* A link before a path makes a longer one, and the two can be told apart again.
LEMMA PathJoin ==
    ASSUME NEW e \in Links, NEW x \in Paths
    PROVE  /\ <<e>> \o x \in Paths /\ <<e>> \o x # Root
           /\ Head(<<e>> \o x) = e /\ Tail(<<e>> \o x) = x
           /\ Len(<<e>> \o x) = Len(x) + 1
           /\ \A i \in 1..Len(x) : (<<e>> \o x)[i + 1] = x[i]
<1>1. x \in Seq(Links) /\ <<e>> \in Seq(Links) /\ Len(<<e>>) = 1 /\ <<e>>[1] = e
  BY DEF Paths, Links
<1> DEFINE z == <<e>> \o x
<1>2. /\ z \in Seq(Links) /\ Len(z) = 1 + Len(x)
      /\ \A i \in 1..(1 + Len(x)) : z[i] = IF i <= 1 THEN <<e>>[i] ELSE x[i - 1]
  BY <1>1, ConcatProperties
<1>3. Len(x) \in Nat
  BY <1>1
<1>4. z[1] = e /\ \A i \in 1..Len(x) : z[i + 1] = x[i]
  BY <1>1, <1>2, <1>3
<1> HIDE DEF z
<1>5. z # <<>>
  BY <1>2, <1>3
<1>6. Tail(z) \in Seq(Links) /\ Len(Tail(z)) = Len(z) - 1
      /\ \A i \in 1..Len(Tail(z)) : Tail(z)[i] = z[i + 1]
  BY <1>2, <1>5, HeadTailProperties
<1>7. Len(Tail(z)) = Len(x)
  BY <1>2, <1>3, <1>6
<1>8. Tail(z) = x
  BY <1>1, <1>4, <1>6, <1>7, SeqEqual
<1>9. Head(z) = e
  BY <1>2, <1>4, <1>5
<1>10. Len(z) = Len(x) + 1
  BY <1>2, <1>3
<1> QED
  BY <1>2, <1>4, <1>5, <1>8, <1>9, <1>10 DEF z, Paths, Links, Root

\* The father has all the links but the last.
LEMMA JoinFirst ==
    ASSUME NEW e \in Links, NEW x \in Paths
    PROVE  (<<e>> \o x)[1] = e
<1>1. <<e>> \in Seq(Links) /\ x \in Seq(Links) /\ Len(<<e>>) = 1 /\ <<e>>[1] = e
  BY DEF Paths, Links
<1>2. Len(x) \in Nat
  BY <1>1
<1>3. \A d \in 1..(1 + Len(x)) : (<<e>> \o x)[d] = IF d <= 1 THEN <<e>>[d] ELSE x[d - 1]
  BY <1>1, ConcatProperties
<1> QED
  BY <1>1, <1>2, <1>3

LEMMA FatherPath ==
    ASSUME NEW x \in Paths, x # Root
    PROVE  /\ Father(x) \in Paths /\ Len(Father(x)) = Len(x) - 1
           /\ \A i \in 1..(Len(x) - 1) : Father(x)[i] = x[i]
<1>1. x \in Seq(Links) /\ Len(x) \in Nat \ {0}
  BY EmptySeq DEF Paths, Links, Root
<1>2. \A i \in 1..(Len(x) - 1) : x[i] \in Links
  BY <1>1, ElementOfSeq
<1> DEFINE n == Len(x) - 1
<1>3. n \in Nat /\ 1 \in Int /\ n \in Int
  BY <1>1
<1> HIDE DEF n
<1>4. /\ SubSeq(x, 1, n) \in Seq(Links)
      /\ Len(SubSeq(x, 1, n)) = IF 1 <= n THEN n - 1 + 1 ELSE 0
      /\ \A i \in 1..(n - 1 + 1) : SubSeq(x, 1, n)[i] = x[1 + i - 1]
  BY <1>2, <1>3, SubSeqProperties DEF n
<1>5. Father(x) = SubSeq(x, 1, n)
  BY DEF Father, Front, n
<1>6. Len(SubSeq(x, 1, n)) = n /\ \A i \in 1..n : SubSeq(x, 1, n)[i] = x[i]
  BY <1>3, <1>4
<1> QED
  BY <1>4, <1>5, <1>6 DEF n, Paths, Links

\* The father of a longer path is the longer path of the father.
LEMMA JoinFather ==
    ASSUME NEW e \in Links, NEW x \in Paths, x # Root
    PROVE  /\ Father(x) \in Paths
           /\ Father(<<e>> \o x) = <<e>> \o Father(x)
           /\ (<<e>> \o x)[Len(<<e>> \o x)] = x[Len(x)]
<1> DEFINE z == <<e>> \o x
<1>1. z \in Paths /\ Len(z) = Len(x) + 1 /\ \A i \in 1..Len(x) : z[i + 1] = x[i]
  BY PathJoin
<1>2. Len(x) \in Nat \ {0} /\ x \in Seq(Links)
  BY EmptySeq DEF Paths, Links, Root
<1>3. z[Len(z)] = x[Len(x)]
  BY <1>1, <1>2
<1>4. Father(x) \in Paths /\ Len(Father(x)) = Len(x) - 1
      /\ \A i \in 1..(Len(x) - 1) : Father(x)[i] = x[i]
  BY <1>2, FatherPath
<1>5. Father(z) \in Seq(Links) /\ Len(Father(z)) = Len(x)
      /\ \A i \in 1..Len(x) : Father(z)[i] = z[i]
  <2>1. z # Root
    BY PathJoin
  <2>2. Len(z) - 1 = Len(x)
    BY <1>1, <1>2
  <2> HIDE DEF z
  <2> QED
    BY <1>1, <2>1, <2>2, FatherPath DEF Paths, Links
<1> DEFINE w == <<e>> \o Father(x)
<1>6. w \in Seq(Links) /\ Len(w) = Len(x) /\ \A i \in 1..(Len(x) - 1) : w[i + 1] = x[i]
  BY <1>2, <1>4, PathJoin DEF Paths, Links
<1>7. z[1] = e /\ w[1] = e
  BY <1>1, <1>2, <1>4, <1>6, PathJoin DEF Paths, Links, Root
<1> HIDE DEF z, w
<1>8. ASSUME NEW i \in 1..Len(x)
      PROVE  Father(z)[i] = w[i]
  <2>1. CASE i = 1
    BY <1>5, <1>7, <2>1
  <2>2. CASE i # 1
    <3>1. i - 1 \in 1..(Len(x) - 1) /\ i - 1 \in 1..Len(x) /\ (i - 1) + 1 = i
      BY <1>2, <2>2
    <3>2. w[i] = x[i - 1] /\ z[i] = x[i - 1]
      BY <1>1, <1>6, <3>1
    <3> QED
      BY <1>5, <3>2
  <2> QED
    BY <2>1, <2>2
<1>9. Father(z) = w
  BY <1>5, <1>6, <1>8, SeqEqual
<1> QED
  BY <1>3, <1>4, <1>9 DEF z, w

\* A child of the longer path is the longer path of the child.
LEMMA JoinAppend ==
    ASSUME NEW e \in Links, NEW x \in Paths, NEW f \in Links
    PROVE  Append(<<e>> \o x, f) = <<e>> \o Append(x, f)
<1>1. x \in Seq(Links) /\ <<e>> \in Seq(Links) /\ <<f>> \in Seq(Links) /\ <<e>> \o x \in Seq(Links)
  BY PathJoin DEF Paths, Links
<1>2. Append(<<e>> \o x, f) = (<<e>> \o x) \o <<f>>
  BY <1>1, AppendIsConcat
<1>3. Append(x, f) = x \o <<f>>
  BY <1>1, AppendIsConcat
<1>4. (<<e>> \o x) \o <<f>> = <<e>> \o (x \o <<f>>)
  BY <1>1, ConcatAssociative
<1> QED
  BY <1>2, <1>3, <1>4

------------------------------------------------------------------------------
(* The part of the tree below a child                                       *)

\* Where a node of the new tree was in the old one, when i is played.
Old(i, x) == << <<i, tree[Root].gen>> >> \o x

\* Which paths the new tree has, and with which nodes.
LEMMA BelowNodes ==
    ASSUME TreeInv, tree[Root].gen > 0, NEW i \in Moves, tree' = Below(i)
    PROVE  /\ <<i, tree[Root].gen>> \in Links
           /\ \A x \in DOMAIN tree' : /\ x \in Paths /\ Old(i, x) \in DOMAIN tree
                                      /\ tree'[x] = tree[Old(i, x)]
           /\ \A x \in Paths : Old(i, x) \in DOMAIN tree => x \in DOMAIN tree'
<1> DEFINE k == <<i, tree[Root].gen>>
<1>1. k \in Links /\ DOMAIN tree \subseteq Paths
  BY NodeFields DEF TreeInv, NodesType, Links
<1>2. tree' = [x \in {Tail(y) : y \in {z \in DOMAIN tree : z # Root /\ Head(z) = k}} |->
                  tree[<<k>> \o x]]
  BY DEF Below
<1>3. \A x : Old(i, x) = <<k>> \o x
  BY DEF Old
<1> HIDE DEF k
<1>4. ASSUME NEW x \in DOMAIN tree'
      PROVE  x \in Paths /\ <<k>> \o x \in DOMAIN tree /\ tree'[x] = tree[<<k>> \o x]
  <2>1. PICK y \in DOMAIN tree : y # Root /\ Head(y) = k /\ x = Tail(y)
    BY <1>2
  <2>2. x \in Paths /\ <<k>> \o x = y
    BY <1>1, <2>1, PathSplit
  <2> QED
    BY <1>2, <2>2
<1>5. ASSUME NEW x \in Paths, <<k>> \o x \in DOMAIN tree
      PROVE  x \in DOMAIN tree'
  <2>1. <<k>> \o x # Root /\ Head(<<k>> \o x) = k /\ Tail(<<k>> \o x) = x
    BY <1>1, PathJoin
  <2> QED
    BY <1>2, <1>5, <2>1
<1> QED
  BY <1>1, <1>3, <1>4, <1>5 DEF k

LEMMA BelowTree ==
    ASSUME TreeInv, tree[Root].gen > 0, NEW i \in Moves, tree' = Below(i)
    PROVE  TreeInv'
<1> DEFINE k == <<i, tree[Root].gen>>
<1>1. k \in Links /\ Root \in DOMAIN tree /\ DOMAIN tree \subseteq Paths
      /\ tree[Root].gen \in Nat \ {0} /\ Root \in Paths
  BY NodeFields DEF TreeInv, NodesType, Links, Paths, Root
<1>2. tree' = [x \in DOMAIN tree' |-> tree'[x]]
  BY DEF Below
<1>3. Append(Root, k) \in DOMAIN tree
  BY <1>1 DEF TreeInv, Family, KidsOf
<1>4. <<k>> \o Root = Append(Root, k)
  BY <1>1, AppendIsConcat, ConcatEmptySeq DEF Root, Links
<1>5. ASSUME NEW x \in DOMAIN tree'
      PROVE  x \in Paths /\ <<k>> \o x \in DOMAIN tree /\ tree'[x] = tree[<<k>> \o x]
  BY BelowNodes DEF Old
<1>6. ASSUME NEW x \in Paths, <<k>> \o x \in DOMAIN tree
      PROVE  x \in DOMAIN tree'
  BY <1>6, BelowNodes DEF Old
<1> HIDE DEF k
<1>7. NodesType'
  <2>1. Root \in DOMAIN tree'
    BY <1>1, <1>3, <1>4, <1>6
  <2>2. ASSUME NEW x \in DOMAIN tree'
        PROVE  tree'[x] \in NodeType
    BY <1>5, NodeFields
  <2>3. tree' \in [DOMAIN tree' -> NodeType]
    BY <1>2, <2>2
  <2> QED
    BY <1>5, <2>1, <2>3 DEF NodesType
<1>8. ASSUME NEW x \in DOMAIN tree', tree'[x].gen > 0
      PROVE  KidsOf(x, tree'[x].gen) \subseteq DOMAIN tree'
  <2> DEFINE z == <<k>> \o x
             h == tree'[x].gen
  <2>1. z \in DOMAIN tree /\ tree[z].gen = h /\ h \in Nat \ {0} /\ x \in Paths
    BY <1>5, <1>8, NodeFields
  <2>2. KidsOf(z, h) \subseteq DOMAIN tree
    BY <2>1 DEF TreeInv, Family
  <2> HIDE DEF z, h
  <2>3. ASSUME NEW m \in Moves
        PROVE  Append(x, <<m, h>>) \in DOMAIN tree'
    <3>1. <<m, h>> \in Links
      BY <2>1 DEF Links
    <3>2. Append(z, <<m, h>>) = <<k>> \o Append(x, <<m, h>>)
      BY <1>1, <2>1, <3>1, JoinAppend DEF z
    <3>3. Append(z, <<m, h>>) \in DOMAIN tree
      BY <2>2 DEF KidsOf
    <3>4. Append(x, <<m, h>>) \in Paths
      BY <2>1, KidPath
    <3> QED
      BY <1>6, <3>2, <3>3, <3>4
  <2> QED
    BY <2>3 DEF KidsOf, h
<1>9. ASSUME NEW x \in DOMAIN tree' \ {Root}
      PROVE  Father(x) \in DOMAIN tree' /\ x[Len(x)][2] <= tree'[Father(x)].gen
  <2> DEFINE z == <<k>> \o x
  <2>1. x \in Paths /\ z \in DOMAIN tree /\ z # Root
    BY <1>1, <1>5, <1>9, PathJoin
  <2>2. Father(z) \in DOMAIN tree /\ z[Len(z)][2] <= tree[Father(z)].gen
    BY <2>1 DEF TreeInv, Family
  <2>3. Father(x) \in Paths /\ Father(z) = <<k>> \o Father(x) /\ z[Len(z)] = x[Len(x)]
    BY <1>1, <1>9, <2>1, JoinFather
  <2> HIDE DEF z
  <2>4. Father(x) \in DOMAIN tree'
    BY <1>6, <2>2, <2>3
  <2>5. tree'[Father(x)] = tree[Father(z)]
    BY <1>5, <2>3, <2>4
  <2> QED
    BY <2>2, <2>3, <2>4, <2>5
<1>10. Family'
  BY <1>8, <1>9 DEF Family, KidsOf, Father
<1>11. ReadyHasKids'
  BY <1>5 DEF ReadyHasKids, TreeInv
<1> QED
  BY <1>7, <1>10, <1>11 DEF TreeInv

LEMMA NewTreeInv ==
    ASSUME tree' = NewTree
    PROVE  TreeInv'
<1>1. DOMAIN tree' = {Root} /\ tree'[Root] = NewNode
  BY DEF NewTree
<1>2. NewNode \in NodeType /\ NewNode.gen = 0 /\ NewNode.eval_ready = FALSE
  BY DEF NewNode, NodeType
<1>3. Root \in Paths
  BY DEF Root, Paths
<1>4. tree' \in [DOMAIN tree' -> NodeType]
  BY <1>1, <1>2 DEF NewTree
<1>5. NodesType'
  BY <1>1, <1>3, <1>4 DEF NodesType
<1>6. Family' /\ ReadyHasKids'
  BY <1>1, <1>2 DEF Family, ReadyHasKids
<1> QED
  BY <1>5, <1>6 DEF TreeInv

------------------------------------------------------------------------------
(* The invariant of the game                                                *)

\* A thread that is not inside an iteration is at the root.
AtRoot == \A t \in Threads : pc[t] \in {"top", "wait", "poll", "over"} => at[t] = Root

PlayerType ==
    /\ phase \in {"gtp", "think", "ponder", "lost", "ended"}
    /\ genmove \in BOOLEAN /\ passed \in BOOLEAN /\ before \in Nat
    /\ stop_rollout \in BOOLEAN

GameInv == IndInv /\ AnsweredInv /\ AtRoot /\ PlayerType

\* The threads as the handlers leave them: as they are, or at the start.
Rested == UNCHANGED <<pc, at, counted, rounds>>
Started ==
    /\ \E s \in {"top", "poll"} : pc' = [t \in Threads |-> s]
    /\ at' = [t \in Threads |-> Root]
    /\ counted' = [t \in Threads |-> 0]
    /\ rounds' = [t \in Threads |-> 0]

\* A handler works on a tree in which nobody is.
LEMMA HandlerKeeps ==
    ASSUME GameInv, AllOver, jobs = {}, UNCHANGED jobs, Rested \/ Started,
           TreeInv', GameType', PlayerType'
    PROVE  GameInv'
<1>1. jobs' = {}
  OBVIOUS
<1>2. Root \in DOMAIN tree'
  BY DEF TreeInv, NodesType
<1>3. ThreadsType' /\ AtRoot'
  <2>1. CASE Started
    <3>1. PICK s \in {"top", "poll"} : pc' = [t \in Threads |-> s]
      BY <2>1 DEF Started
    <3> QED
      BY <1>2, <2>1, <3>1 DEF Started, ThreadsType, AtRoot, Steps
  <2>2. CASE Rested
    <3>1. \A t \in Threads : at[t] = Root
      BY DEF GameInv, AtRoot, AllOver
    <3>2. ThreadsType
      BY DEF GameInv, IndInv
    <3> QED
      BY <1>2, <2>2, <3>1, <3>2 DEF Rested, ThreadsType, AtRoot
  <2> QED
    BY <2>1, <2>2
<1>4. JobsType' /\ JobShape'
  BY <1>1 DEF JobsType, JobShape
<1>5. AnsweredInv'
  BY <1>1, FS_EmptySet DEF AnsweredInv, LeftOnlyFailed
<1> QED
  BY <1>3, <1>4, <1>5 DEF GameInv, IndInv

\* The reply of the opponent.
LEMMA RepliedKeeps ==
    ASSUME GameInv, NEW i \in Moves, Replied(i)
    PROVE  TreeInv' /\ played' \in Seq(Moves) /\ above' \in BOOLEAN /\ passed' \in BOOLEAN
<1>1. TreeInv'
  BY BelowTree, NewTreeInv DEF Replied, GameInv, IndInv
<1>2. played \in Seq(Moves)
  BY DEF GameInv, IndInv, GameType
<1>3. played' \in Seq(Moves)
  BY <1>2 DEF Replied
<1> QED
  BY <1>1, <1>3 DEF Replied

LEMMA StartsThreads ==
    ASSUME NEW mine, StartThreads(mine)
    PROVE  Started
<1> DEFINE s == IF stop_rollout' THEN "poll" ELSE "top"
<1>1. s \in {"top", "poll"} /\ pc' = [t \in Threads |-> s]
  BY DEF StartThreads
<1> HIDE DEF s
<1> QED
  BY <1>1 DEF StartThreads, Started

\* What a search has to begin with is a number.
LEMMA BeforeType ==
    ASSUME TreeInv', NEW mine \in BOOLEAN, StartThreads(mine)
    PROVE  Started /\ own' \in BOOLEAN /\ before' \in Nat
<1>1. tree'[Root].total_n \in Nat /\ tree'[Root].gen \in Nat
  BY DEF TreeInv, NodesType, NodeType
<1>2. before' \in Nat
  BY <1>1 DEF StartThreads
<1> QED
  BY <1>2, StartsThreads DEF StartThreads

LEMMA GameInitInv == GameInit => GameInv
<1> SUFFICES ASSUME GameInit PROVE GameInv
  OBVIOUS
<1>1. DOMAIN tree = {Root} /\ tree[Root] = NewNode
  BY DEF GameInit, NewTree
<1>2. NewNode \in NodeType /\ NewNode.gen = 0 /\ NewNode.eval_ready = FALSE
  BY DEF NewNode, NodeType
<1>3. Root \in Paths /\ <<>> \in Seq(Moves)
  BY DEF Root, Paths
<1>4. tree \in [DOMAIN tree -> NodeType]
  BY <1>1, <1>2 DEF GameInit, NewTree
<1>5. NodesType
  BY <1>1, <1>3, <1>4 DEF NodesType
<1>6. Family /\ ReadyHasKids
  BY <1>1, <1>2 DEF Family, ReadyHasKids
<1>7. ThreadsType /\ AtRoot
  BY <1>1 DEF GameInit, ThreadsType, AtRoot, Steps
<1>8. jobs = {} /\ JobsType /\ JobShape /\ IsFiniteSet({})
  BY FS_EmptySet DEF GameInit, JobsType, JobShape
<1>9. GameType
  BY <1>3 DEF GameInit, GameType
<1>10. PlayerType
  BY DEF GameInit, PlayerType
<1>11. IndInv
  BY <1>5, <1>6, <1>7, <1>8, <1>9 DEF IndInv, TreeInv
<1>12. AnsweredInv
  BY <1>8 DEF AnsweredInv, LeftOnlyFailed
<1> QED
  BY <1>7, <1>10, <1>11, <1>12 DEF GameInv

\* A step of a search, as SearchProofs has it.
LEMMA SearchKeeps ==
    ASSUME GameInv, SearchStep
    PROVE  GameInv'
<1>1. IndInv /\ AnsweredInv /\ AtRoot /\ ThreadsType
  BY DEF GameInv, IndInv
<1>2. PlayerType'
  BY DEF GameInv, PlayerType, SearchStep, During, playerVars
<1>3. ASSUME NEW t \in Threads, ThreadStep(t)
      PROVE  GameInv'
  <2>1. IndInv'
    BY <1>1, <1>3, StepInv DEF SearchStep, During, Next
  <2>2. AnsweredInv'
    BY <1>1, <1>3, ThreadAnswered
  <2>3. AtRoot'
    BY <1>1, <1>3 DEF ThreadStep, AtRoot, ThreadsType, Go, Again, Break, Round, AwaitRoot,
       Select, SelectEnds, SelectNothing, LeafRepeats, LeafDecided, LeafOpen, Test, Send,
       Late, ThreadEdge, ThreadTotal, Over
  <2> QED
    BY <1>2, <2>1, <2>2, <2>3 DEF GameInv
<1>4. ASSUME NEW j \in jobs, CallbackStep(j) \/ Aside(j) \/ Retry(j)
      PROVE  GameInv'
  <2>1. IndInv'
    BY <1>1, <1>4, CallbackKeeps
  <2>2. AnsweredInv'
    BY <1>1, <1>4, CallbackAnswered
  <2>3. AtRoot'
    BY <1>1, <1>4 DEF AtRoot, CallbackStep, Aside, Retry, Expand, SetReady, ReadInvalid,
       JobEdge, JobTotal, Retire
  <2> QED
    BY <1>2, <2>1, <2>2, <2>3 DEF GameInv
<1> QED
  BY <1>3, <1>4 DEF SearchStep, During

LEMMA GameStepInv == GameInv /\ [GameNext]_allVars => GameInv'
<1> SUFFICES ASSUME GameInv, [GameNext]_allVars PROVE GameInv'
  OBVIOUS
<1>1. TreeInv /\ GameType /\ PlayerType
  BY DEF GameInv, IndInv
<1>2. CASE SearchStep
  BY <1>2, SearchKeeps
<1>3. CASE CmdPlay
  <2>1. PICK i \in Moves : Replied(i)
    BY <1>3 DEF CmdPlay
  <2>2. TreeInv' /\ GameType' /\ PlayerType'
    BY <1>1, <1>3, <2>1, RepliedKeeps DEF CmdPlay, GameType, PlayerType
  <2>3. AllOver /\ jobs = {} /\ UNCHANGED jobs /\ Rested
    BY <1>3 DEF CmdPlay, MayMove, Quiet, Rested
  <2> QED
    BY <2>2, <2>3, HandlerKeeps
<1>4. CASE CmdGenmove
  <2>1. TreeInv' /\ played' \in Seq(Moves) /\ above' \in BOOLEAN /\ passed' \in BOOLEAN
    <3>1. CASE genmove
      BY <1>4, <3>1, RepliedKeeps, SearchAssumption DEF CmdGenmove
    <3>2. CASE ~genmove
      <4>1. UNCHANGED <<tree, played, passed, above>>
        BY <1>4, <3>2 DEF CmdGenmove
      <4>2. TreeInv'
        BY <1>1, <4>1, SameTree, KeptInv
      <4> QED
        BY <1>1, <4>1, <4>2 DEF GameType, PlayerType
    <3> QED
      BY <3>1, <3>2
  <2>2. Started /\ own' \in BOOLEAN /\ before' \in Nat
    BY <1>4, <2>1, BeforeType DEF CmdGenmove
  <2>3. GameType' /\ PlayerType'
    BY <1>1, <1>4, <2>1, <2>2 DEF CmdGenmove, GameType, PlayerType
  <2>4. AllOver /\ jobs = {} /\ UNCHANGED jobs
    BY <1>4 DEF CmdGenmove, MayMove, Quiet
  <2> QED
    BY <2>1, <2>2, <2>3, <2>4, HandlerKeeps
<1>5. CASE ChooseMove
  <2>1. PICK i \in BestMoves : tree' = Below(i) /\ played' = Append(played, i)
    BY <1>5 DEF ChooseMove
  <2>2. i \in Moves
    BY SearchAssumption DEF BestMoves, FirstOfMost
  <2>3. AllOver /\ jobs = {} /\ tree[Root].gen > 0 /\ UNCHANGED jobs
    <3>1. tree[Root].gen \in Nat
      BY <1>1, NodeFields DEF TreeInv, NodesType
    <3> QED
      BY <1>5, <3>1 DEF ChooseMove, Searched
  <2>4. TreeInv'
    BY <1>1, <2>1, <2>2, <2>3, BelowTree
  <2>5. played' \in Seq(Moves) /\ above' \in BOOLEAN /\ genmove' \in BOOLEAN
        /\ passed' \in BOOLEAN /\ stop_rollout' \in BOOLEAN
    <3>1. played \in Seq(Moves)
      BY <1>1 DEF GameType
    <3>2. played' \in Seq(Moves)
      BY <2>1, <2>2, <3>1
    <3>3. above' = FALSE /\ genmove' = TRUE /\ UNCHANGED <<passed, stop_rollout>>
      BY <1>5 DEF ChooseMove
    <3> QED
      BY <1>1, <3>2, <3>3 DEF PlayerType
  <2>6. CASE phase' = "gtp" /\ UNCHANGED <<pc, at, counted, rounds, own, before>>
    <3>1. Rested /\ GameType' /\ PlayerType'
      BY <1>1, <2>5, <2>6 DEF Rested, GameType, PlayerType
    <3> QED
      BY <2>3, <2>4, <3>1, HandlerKeeps
  <2>7. CASE phase' = "ponder" /\ StartThreads(FALSE)
    <3>1. Started /\ own' \in BOOLEAN /\ before' \in Nat
      BY <2>4, <2>7, BeforeType
    <3>2. GameType' /\ PlayerType'
      BY <2>5, <2>7, <3>1 DEF GameType, PlayerType
    <3> QED
      BY <2>3, <2>4, <3>1, <3>2, HandlerKeeps
  <2> QED
    BY <1>5, <2>6, <2>7 DEF ChooseMove
<1>6. ASSUME UNCHANGED <<tree, pc, at, counted, rounds, jobs, played, own>>,
             above' \in BOOLEAN, PlayerType'
      PROVE  GameInv'
  <2>1. TreeInv'
    BY <1>1, <1>6, SameTree, KeptInv
  <2>2. GameType'
    BY <1>1, <1>6 DEF GameType
  <2>3. ThreadsType' /\ JobsType' /\ JobShape' /\ AtRoot'
    BY <1>6 DEF GameInv, IndInv, ThreadsType, JobsType, JobShape, AtRoot
  <2>4. AnsweredInv'
    BY <1>6 DEF GameInv, AnsweredInv, LeftOnlyFailed, AllOver
  <2> QED
    BY <1>6, <2>1, <2>2, <2>3, <2>4 DEF GameInv, IndInv
<1>7. CASE CmdPlayEnds \/ CmdStopped \/ ChooseEnds \/ ChooseNothing \/ LeaveRequests
  BY <1>1, <1>6, <1>7 DEF CmdPlayEnds, CmdStopped, ChooseEnds, ChooseNothing, LeaveRequests,
     vars, gameVars, GameType, PlayerType
<1>8. CASE Recycle
  BY <1>1, <1>6, <1>8 DEF Recycle, playerVars, PlayerType
<1>9. CASE UNCHANGED allVars
  BY <1>1, <1>6, <1>9 DEF allVars, vars, gameVars, playerVars, GameType, PlayerType
<1> QED
  BY <1>2, <1>3, <1>4, <1>5, <1>7, <1>8, <1>9 DEF GameNext, GameOver

\* Every variable of a game keeps its type from search to search, and the tree
\* stays whole: a command hands over a part in which every node has its father
\* and its children (play and gen_apply_move, root.swap).
THEOREM GameTypes == GameSpec => []GameTypeOK
<1>1. GameInit => GameInv
  BY GameInitInv
<1>2. GameInv /\ [GameNext]_allVars => GameInv'
  BY GameStepInv
<1>3. GameInv => GameTypeOK
  BY TypesFollow DEF GameInv, PlayerType, GameTypeOK
<1> QED
  BY <1>1, <1>2, <1>3, PTL DEF GameSpec

\* A step of the search moves nothing, and leaves the loop where it is.
LEMMA SearchStays ==
    ASSUME SearchStep
    PROVE  UNCHANGED <<played, playerVars>>
BY DEF SearchStep, During, ThreadStep, CallbackStep, Aside, Retry, gameVars, Break, Round,
   AwaitRoot, Select, SelectEnds, SelectNothing, LeafRepeats, LeafDecided, LeafOpen, Test,
   Send, Late, ThreadEdge, ThreadTotal, Over, Expand, SetReady, ReadInvalid, JobEdge,
   JobTotal, Retire

\* For any number of threads, with and without pondering and however often requests
\* fail, a move of the game finds no thread in the tree, and no callback but of a
\* request that has failed (assert in gen_apply_move, stop_pondering before play).
\* A game in which such a request is left is followed up to that move.
THEOREM TreeMovesInQuiet == GameSpec => MovedWhenQuiet
<1>1. GameInit => GameInv
  BY GameInitInv
<1>2. GameInv /\ [GameNext]_allVars => GameInv'
  BY GameStepInv
<1>3. GameInv /\ [GameNext]_allVars
        => [TreeMoves => AllOver /\ \A j \in jobs : j.failed > 0]_allVars
  <2> SUFFICES ASSUME GameInv, GameNext, TreeMoves
               PROVE  AllOver /\ \A j \in jobs : j.failed > 0
    OBVIOUS
  <2>1. ~SearchStep
    BY SearchStays DEF TreeMoves, playerVars
  <2>2. AllOver
    BY <2>1 DEF TreeMoves, GameNext, CmdPlay, CmdPlayEnds, CmdGenmove, CmdStopped, ChooseMove,
       ChooseEnds, ChooseNothing, LeaveRequests, Recycle, GameOver, MayMove, Quiet, Searched,
       allVars, vars, gameVars, playerVars
  <2> QED
    BY <2>2 DEF GameInv, AnsweredInv, LeftOnlyFailed
<1> QED
  BY <1>1, <1>2, <1>3, PTL DEF GameSpec, MovedWhenQuiet

------------------------------------------------------------------------------
(* The rollouts of a game are counted                                       *)

\* A search goes on below a position whose result is not known.
SearchesOpen == phase \in {"think", "ponder"} => played \notin Decided

\* Nobody searches while the loop reads commands, and there is no pondering once
\* the rollouts are stopped; and what a search has counted is what the root has
\* gained, or is owed, since the search began.
CountInv ==
    /\ RequestInv /\ Under
    /\ phase = "gtp" => AllOver /\ jobs = {}
    /\ phase = "ponder" => ~stop_rollout
    /\ phase \in {"think", "ponder"} => Tally = before

LEMMA BelowFinite ==
    ASSUME IsFiniteSet(DOMAIN tree), NEW i, tree' = Below(i)
    PROVE  IsFiniteSet(DOMAIN tree')
<1> DEFINE k == <<i, tree[Root].gen>>
           Z == {z \in DOMAIN tree : z # Root /\ Head(z) = k}
           f == [y \in Z |-> Tail(y)]
<1>1. DOMAIN tree' = {Tail(y) : y \in Z}
  BY DEF Below
<1>2. IsFiniteSet(Z)
  <2>1. Z \in SUBSET DOMAIN tree
    OBVIOUS
  <2> QED
    BY <2>1, FS_Subset
<1> HIDE DEF Z
<1>3. f \in Surjection(Z, DOMAIN tree')
  BY <1>1 DEF Surjection
<1> QED
  BY <1>2, <1>3, FS_Surjection

LEMMA NewTreeFinite ==
    ASSUME tree' = NewTree
    PROVE  IsFiniteSet(DOMAIN tree')
<1>1. DOMAIN tree' = {Root}
  BY DEF NewTree
<1> QED
  BY <1>1, FS_Singleton

\* A handler finds no request, and leaves none.
LEMMA HandlerRequests ==
    ASSUME jobs' = {}, IsFiniteSet(DOMAIN tree')
    PROVE  RequestInv' /\ Under'
<1>1. Finite' /\ Distinct' /\ LeavesSent' /\ Under'
  BY FS_EmptySet DEF Finite, Distinct, LeavesSent, Under
<1>2. FirstAsk'
  BY DEF FirstAsk
<1> QED
  BY <1>1, <1>2 DEF RequestInv

\* At the start of a search nothing is counted yet.
LEMMA StartTally ==
    ASSUME TreeInv', jobs' = {}, NEW mine, StartThreads(mine)
    PROVE  Tally' = before'
<1>1. OwingJobs' = {} /\ Climbers' = {}
  BY DEF OwingJobs, Climbers, Climbs, StartThreads
<1>2. Cardinality({}) = 0
  BY FS_EmptySet
<1>3. tree'[Root].total_n \in Nat /\ tree'[Root].gen \in Nat
  BY DEF TreeInv, NodesType, NodeType
<1>4. SumOf(counted', Threads) = 0
  <2>1. \A t \in Threads : counted'[t] = 0
    BY DEF StartThreads
  <2> QED
    BY <2>1, ZeroSum
<1>5. before' = tree'[Root].total_n + tree'[Root].gen
  BY DEF StartThreads
<1> QED
  BY <1>1, <1>2, <1>3, <1>4, <1>5 DEF Tally

\* Steps that leave the search alone.
LEMMA SameCounts ==
    ASSUME CountInv, UNCHANGED <<tree, pc, at, counted, jobs, before>>,
           (phase' = phase /\ stop_rollout' = stop_rollout) \/ phase' \in {"lost", "ended"}
    PROVE  CountInv'
<1>1. RequestInv' /\ Under' /\ AllOver' = AllOver
  BY DEF CountInv, RequestInv, Finite, Distinct, LeavesSent, FirstAsk, Under, AllOver
<1>2. OwingJobs' = OwingJobs /\ Climbers' = Climbers
  BY DEF OwingJobs, Climbers, Climbs, Owes
<1>3. Tally' = Tally
  BY <1>2 DEF Tally
<1> QED
  BY <1>1, <1>3 DEF CountInv

\* While the loop reads commands no thread and no callback can move.
LEMMA SearchPhase ==
    ASSUME GameInv, CountInv, SearchStep
    PROVE  phase \in {"think", "ponder"}
<1>1. ASSUME AllOver, jobs = {}
      PROVE  FALSE
  <2>1. PICK t \in Threads : ThreadStep(t)
    BY <1>1 DEF SearchStep, During
  <2>2. pc[t] = "over"
    BY <1>1 DEF AllOver
  <2> QED
    BY <2>1, <2>2 DEF ThreadStep, Break, Round, AwaitRoot, Select, SelectEnds, SelectNothing,
       LeafRepeats, LeafDecided, LeafOpen, Test, Send, Late, ThreadEdge, ThreadTotal, Over
<1> QED
  BY <1>1 DEF CountInv, SearchStep, During, Playing

LEMMA SearchCounts ==
    ASSUME GameInv, CountInv, SearchesOpen, SearchStep
    PROVE  CountInv'
<1>1. phase \in {"think", "ponder"} /\ UNCHANGED <<phase, before, stop_rollout>>
  BY SearchPhase, SearchStays DEF playerVars
<1>2. IndInv /\ RequestInv /\ Under /\ played \notin Decided
  BY <1>1 DEF GameInv, CountInv, SearchesOpen
<1>3. RequestInv' /\ Under' /\ Tally' = Tally
  BY <1>2, ThreadRequests, CallbackRequests, ThreadUnder, CallbackUnder, ThreadTally,
     CallbackTally DEF SearchStep, During
<1> QED
  BY <1>1, <1>3 DEF CountInv

LEMMA StepCounts ==
    GameInv /\ CountInv /\ SearchesOpen /\ [GameNext]_allVars => CountInv'
<1> SUFFICES ASSUME GameInv, CountInv, SearchesOpen, [GameNext]_allVars PROVE CountInv'
  OBVIOUS
<1>1. GameInv' /\ IsFiniteSet(DOMAIN tree)
  BY GameStepInv DEF CountInv, RequestInv, Finite
<1>2. TreeInv'
  BY <1>1 DEF GameInv, IndInv
<1>4. CASE SearchStep
  BY <1>4, SearchCounts
<1>5. CASE CmdPlay
  <2>1. AllOver /\ jobs' = {} /\ phase' = "gtp" /\ UNCHANGED pc
    BY <1>5 DEF CmdPlay, MayMove, Quiet
  <2>2. IsFiniteSet(DOMAIN tree')
    BY <1>1, <1>5, BelowFinite, NewTreeFinite DEF CmdPlay, Replied
  <2>3. RequestInv' /\ Under'
    BY <2>1, <2>2, HandlerRequests
  <2> QED
    BY <2>1, <2>3 DEF CountInv, AllOver
<1>6. CASE CmdGenmove
  <2>1. jobs' = {} /\ StartThreads(TRUE) /\ phase' = "think"
    BY <1>6 DEF CmdGenmove
  <2>2. IsFiniteSet(DOMAIN tree')
    <3>1. CASE genmove
      BY <1>1, <1>6, <3>1, BelowFinite, NewTreeFinite DEF CmdGenmove, Replied
    <3>2. CASE ~genmove
      BY <1>1, <1>6, <3>2 DEF CmdGenmove
    <3> QED
      BY <3>1, <3>2
  <2>3. RequestInv' /\ Under'
    BY <2>1, <2>2, HandlerRequests
  <2>4. Tally' = before'
    BY <1>2, <2>1, StartTally
  <2> QED
    BY <2>1, <2>3, <2>4 DEF CountInv
<1>7. CASE ChooseMove
  <2>1. AllOver /\ jobs' = {}
    BY <1>7 DEF ChooseMove, Searched
  <2>2. IsFiniteSet(DOMAIN tree')
    BY <1>1, <1>7, BelowFinite DEF ChooseMove
  <2>3. RequestInv' /\ Under'
    BY <2>1, <2>2, HandlerRequests
  <2>4. CASE phase' = "gtp" /\ UNCHANGED <<pc, at, counted, rounds>>
    BY <2>1, <2>3, <2>4 DEF CountInv, AllOver
  <2>5. CASE ~stop_rollout /\ phase' = "ponder" /\ StartThreads(FALSE)
    <3>1. Tally' = before'
      BY <1>2, <2>1, <2>5, StartTally
    <3>2. ~stop_rollout'
      BY <1>7, <2>5 DEF ChooseMove
    <3> QED
      BY <2>3, <2>5, <3>1, <3>2 DEF CountInv
  <2> QED
    BY <1>7, <2>4, <2>5 DEF ChooseMove
<1>8. CASE CmdPlayEnds \/ ChooseEnds \/ ChooseNothing \/ LeaveRequests
  BY <1>8, SameCounts DEF CmdPlayEnds, ChooseEnds, ChooseNothing, LeaveRequests, vars
<1>9. CASE CmdStopped
  <2>1. phase = "gtp"
    BY <1>9 DEF CmdStopped, MayMove, CountInv
  <2> QED
    BY <1>9, <2>1, SameCounts DEF CmdStopped, vars
<1>10. CASE Recycle
  BY <1>10, SameCounts DEF Recycle, playerVars
<1>11. CASE UNCHANGED allVars
  BY <1>11, SameCounts DEF allVars, vars, playerVars
<1> QED
  BY <1>4, <1>5, <1>6, <1>7, <1>8, <1>9, <1>10, <1>11 DEF GameNext, GameOver

LEMMA GameInitCounts == GameInit => CountInv
<1> SUFFICES ASSUME GameInit PROVE CountInv
  OBVIOUS
<1>1. DOMAIN tree = {Root} /\ jobs = {} /\ AllOver /\ phase = "gtp"
  BY DEF GameInit, NewTree, AllOver
<1>2. IsFiniteSet({Root}) /\ IsFiniteSet({})
  BY FS_Singleton, FS_EmptySet
<1>3. RequestInv /\ Under
  BY <1>1, <1>2 DEF RequestInv, Finite, Distinct, LeavesSent, FirstAsk, Under
<1> QED
  BY <1>1, <1>3 DEF CountInv

LEMMA CountsMean == GameInv /\ CountInv => GameCounted
<1> SUFFICES ASSUME GameInv, CountInv, AllOver, jobs = {}, phase \in {"think", "ponder"}
             PROVE  tree[Root].total_n + tree[Root].gen = before + SumOf(counted, Threads)
  BY CountedSum DEF GameCounted
<1>1. IndInv /\ before \in Nat /\ Tally = before
  BY DEF GameInv, PlayerType, CountInv
<1> QED
  BY <1>1, TallyAtRest

\* Over a whole game, pondering and handed-over subtrees included, every rollout
\* that a search counts becomes a visit of the root's edges or is the evaluation
\* of the root, for any number of threads; a root that is decided is left out,
\* because a rollout there is counted and adds nothing (rollout_in_turn in
\* rollout, mcts_back_update, root.swap).
THEOREM GamesAreCounted == GameSpec /\ []SearchesOpen => []GameCounted
<1>1. GameInit => GameInv /\ CountInv
  BY GameInitInv, GameInitCounts
<1>2. GameInv /\ CountInv /\ SearchesOpen /\ [GameNext]_allVars => GameInv' /\ CountInv'
  BY GameStepInv, StepCounts
<1>3. GameInv /\ CountInv => GameCounted
  BY CountsMean
<1> QED
  BY <1>1, <1>2, <1>3, PTL DEF GameSpec

------------------------------------------------------------------------------
(* A move to choose                                                         *)

\* A search goes on below a root that the loop asks for: its line does not
\* repeat and its result is not known.
SearchesAsk ==
    phase \in {"think", "ponder"} => played \notin Decided /\ ~Repeats(Root)

\* A node that was asked for has children, or its request is on the way.
AskedFor(x) == \E j \in jobs : j.leaf = x /\ j.step \in {"asked", "aside"}
SentMeans == \A x \in DOMAIN tree : tree[x].rq_sent => tree[x].gen > 0 \/ AskedFor(x)

\* A thread that has gone round its loop has found the root asked for, or asks.
RootAsked == tree[Root].rq_sent \/ tree[Root].gen > 0
GoneRound(t) ==
    /\ rounds[t] > 0
    /\ pc[t] # "wait"
    /\ at[t] = Root => pc[t] \notin {"select", "leaf", "test", "send"}
AskInv ==
    /\ SentMeans
    /\ phase \in {"think", "ponder"} => \A t \in Threads : GoneRound(t) => RootAsked

LEMMA ReadyGen ==
    ASSUME TreeInv, NEW j \in jobs, SetReady(j)
    PROVE  /\ DOMAIN tree' = DOMAIN tree
           /\ \A x \in DOMAIN tree : tree'[x].gen = tree[x].gen
<1>1. tree' = [tree EXCEPT ![j.leaf].eval_ready = TRUE]
  BY DEF SetReady
<1>2. \A x \in DOMAIN tree : tree[x] \in NodeType
  BY DEF TreeInv, NodesType
<1> QED
  BY <1>1, <1>2 DEF NodeType

LEMMA ThreadSentMeans ==
    ASSUME IndInv, SentMeans, NEW t \in Threads, ThreadStep(t)
    PROVE  SentMeans'
<1>1. /\ DOMAIN tree' = DOMAIN tree
      /\ \A x \in DOMAIN tree : tree'[x].gen = tree[x].gen
  BY ThreadKeeps DEF Kept
<1>2. jobs \subseteq jobs'
  BY ThreadAsks
<1>3. ASSUME NEW x \in DOMAIN tree, tree'[x].rq_sent
      PROVE  tree'[x].gen > 0 \/ AskedFor(x)'
  <2>1. CASE tree[x].rq_sent
    BY <1>1, <1>2, <2>1 DEF SentMeans, AskedFor
  <2>2. CASE ~tree[x].rq_sent
    <3>1. Send(t)
      BY <1>3, <2>2, ThreadWrites
    <3>2. x = at[t]
      BY <1>3, <2>2, <3>1, SentWrites DEF Send
    <3>3. \E k \in jobs' : k.leaf = at[t] /\ k.step = "asked"
      <4> DEFINE k == [leaf |-> at[t], by |-> t, step |-> "asked", now |-> at[t],
                     invalid |-> 0, failed |-> 0]
      <4>1. k \in jobs' /\ k.leaf = at[t] /\ k.step = "asked"
        BY <3>1 DEF Send
      <4> HIDE DEF k
      <4> QED
        BY <4>1
    <3> QED
      BY <3>2, <3>3 DEF AskedFor
  <2> QED
    BY <2>1, <2>2
<1> QED
  BY <1>1, <1>3 DEF SentMeans

\* A request that is no longer asked for has given its leaf children.
LEMMA CallbackSentMeans ==
    ASSUME IndInv, SentMeans, NEW j \in jobs, CallbackStep(j) \/ Aside(j) \/ Retry(j)
    PROVE  SentMeans'
<1>1. j \in JobType /\ TreeInv
  BY DEF IndInv, JobsType, JobType
<1>2. CASE Expand(j)
  <2>1. /\ DOMAIN tree' = DOMAIN tree \cup NewKids(j.leaf)
        /\ \A k \in NewKids(j.leaf) : tree'[k] = NewNode
        /\ \A x \in DOMAIN tree :
              /\ tree'[x].rq_sent = tree[x].rq_sent
              /\ tree'[x].gen = IF x = j.leaf THEN tree[x].gen + 1 ELSE tree[x].gen
    BY <1>2, ExpandWrites DEF Same
  <2>2. ASSUME NEW x \in DOMAIN tree', tree'[x].rq_sent
        PROVE  tree'[x].gen > 0 \/ AskedFor(x)'
    <3>1. x \in DOMAIN tree
      BY <2>1, <2>2 DEF NewNode
    <3>2. tree[x].gen \in Nat /\ tree[x].rq_sent
      BY <1>1, <2>1, <2>2, <3>1, NodeFields
    <3>3. CASE x = j.leaf
      BY <2>1, <3>1, <3>2, <3>3
    <3>4. CASE x # j.leaf
      <4>1. tree'[x].gen = tree[x].gen
        BY <2>1, <3>1, <3>4
      <4>2. AskedFor(x) => AskedFor(x)'
        BY <1>2, <3>4 DEF AskedFor, Expand, StepTo, Becomes
      <4> QED
        BY <3>1, <3>2, <4>1, <4>2 DEF SentMeans
    <3> QED
      BY <3>3, <3>4
  <2> QED
    BY <2>2 DEF SentMeans
<1>3. CASE CallbackStep(j) /\ ~Expand(j)
  <2>1. /\ DOMAIN tree' = DOMAIN tree
        /\ \A x \in DOMAIN tree : tree'[x].gen = tree[x].gen
    <3>1. CASE SetReady(j)
      BY <1>1, <3>1, ReadyGen
    <3>2. CASE JobEdge(j)
      BY <1>1, <3>2, VisitKeeps DEF JobEdge, JobType, Kept
    <3>3. CASE JobTotal(j)
      BY <1>1, <3>3, TotalKeeps DEF JobTotal, JobType, Kept
    <3>4. CASE UNCHANGED tree
      BY <3>4
    <3> QED
      BY <1>3, <3>1, <3>2, <3>3, <3>4 DEF CallbackStep, ReadInvalid, Retire
  <2>2. j.step \notin {"asked", "aside"}
    BY <1>3 DEF CallbackStep, SetReady, ReadInvalid, JobEdge, JobTotal, Retire
  <2>3. jobs \ {j} \subseteq jobs'
    BY <1>1, CallbackJob
  <2>4. ASSUME NEW x \in DOMAIN tree, AskedFor(x)
        PROVE  AskedFor(x)'
    BY <2>2, <2>3, <2>4 DEF AskedFor
  <2>5. \A x \in DOMAIN tree : tree'[x].rq_sent = tree[x].rq_sent
    BY CallbackWrites
  <2> QED
    BY <2>1, <2>4, <2>5 DEF SentMeans
<1>4. CASE Aside(j) \/ Retry(j)
  <2>1. UNCHANGED tree
    BY <1>4 DEF Aside, Retry
  <2>2. \E k : Becomes(j, k) /\ k.leaf = j.leaf /\ k.step \in {"asked", "aside"}
    <3>1. CASE Aside(j)
      BY <3>1, AsideJob
    <3>2. CASE Retry(j)
      <4> DEFINE k == [j EXCEPT !.step = "asked"]
      <4>1. k.leaf = j.leaf /\ k.step = "asked" /\ Becomes(j, k)
        BY <1>1, <3>2 DEF Retry, StepTo, JobType
      <4> HIDE DEF k
      <4> QED
        BY <4>1
    <3> QED
      BY <1>4, <3>1, <3>2
  <2>3. PICK k : jobs' = (jobs \ {j}) \cup {k} /\ k.leaf = j.leaf /\ k.step \in {"asked", "aside"}
    BY <2>2 DEF Becomes
  <2>4. ASSUME NEW x \in DOMAIN tree, AskedFor(x)
        PROVE  AskedFor(x)'
    <3>1. PICK m \in jobs : m.leaf = x /\ m.step \in {"asked", "aside"}
      BY <2>4 DEF AskedFor
    <3>2. k \in jobs' /\ (m # j => m \in jobs')
      BY <2>3
    <3> QED
      BY <2>3, <3>1, <3>2 DEF AskedFor
  <2> QED
    BY <2>1, <2>4 DEF SentMeans
<1> QED
  BY <1>2, <1>3, <1>4

\* What was asked for stays so.
LEMMA RootStaysAsked ==
    ASSUME IndInv, NEW t, NEW j,
           \/ t \in Threads /\ ThreadStep(t)
           \/ j \in jobs /\ (CallbackStep(j) \/ Aside(j) \/ Retry(j)),
           RootAsked
    PROVE  RootAsked'
<1>1. Root \in DOMAIN tree /\ TreeInv
  BY DEF IndInv, TreeInv, NodesType
<1>2. tree[Root].gen \in Nat
  BY <1>1, NodeFields
<1>3. CASE t \in Threads /\ ThreadStep(t)
  <2>1. tree'[Root].gen = tree[Root].gen
    BY <1>1, <1>3, ThreadKeeps DEF Kept
  <2>2. tree[Root].rq_sent => tree'[Root].rq_sent
    BY <1>1, <1>3, ThreadWrites
  <2> QED
    BY <2>1, <2>2 DEF RootAsked
<1>4. CASE j \in jobs /\ (CallbackStep(j) \/ Aside(j) \/ Retry(j))
  <2>1. tree'[Root].rq_sent = tree[Root].rq_sent
    BY <1>1, <1>4, CallbackWrites
  <2>2. CASE Expand(j)
    <3>1. \/ tree'[Root].gen = tree[Root].gen
          \/ tree'[Root].gen = tree[Root].gen + 1
      BY <1>1, <1>4, <2>2, ExpandWrites
    <3> QED
      BY <1>2, <2>1, <3>1 DEF RootAsked
  <2>3. CASE ~Expand(j)
    <3>1. j \in JobType
      BY <1>4 DEF IndInv, JobsType, JobType
    <3>2. tree'[Root].gen = tree[Root].gen
      <4>1. CASE SetReady(j)
        BY <1>1, <1>4, <4>1, ReadyGen
      <4>2. CASE JobEdge(j)
        BY <1>1, <3>1, <4>2, VisitKeeps DEF JobEdge, JobType, Kept
      <4>3. CASE JobTotal(j)
        BY <1>1, <3>1, <4>3, TotalKeeps DEF JobTotal, JobType, Kept
      <4>4. CASE UNCHANGED tree
        BY <4>4
      <4> QED
        BY <1>4, <2>3, <4>1, <4>2, <4>3, <4>4 DEF CallbackStep, Aside, Retry, ReadInvalid, Retire
    <3> QED
      BY <2>1, <3>2 DEF RootAsked
  <2> QED
    BY <2>2, <2>3
<1> QED
  BY <1>3, <1>4

\* A thread that has gone round either had before, or has asked or found out.
LEMMA ThreadGoesRound ==
    ASSUME IndInv, AtRoot, played \notin Decided, ~Repeats(Root),
           NEW t \in Threads, ThreadStep(t), GoneRound(t)'
    PROVE  GoneRound(t) \/ RootAsked \/ RootAsked'
<1>1. ThreadsType /\ TreeInv /\ GameType
  BY DEF IndInv
<1>2. Root \in DOMAIN tree /\ tree[Root].gen \in Nat /\ at[t] \in DOMAIN tree
  BY <1>1, NodeFields DEF TreeInv, NodesType, ThreadsType
<1> SUFFICES ASSUME ~GoneRound(t), ~RootAsked PROVE RootAsked'
  OBVIOUS
<1>3. CASE Round(t)
  <2>1. pc'[t] = "wait"
    BY <1>1, <1>3 DEF Round, Go, ThreadsType
  <2> QED
    BY <2>1 DEF GoneRound
<1>4. CASE ~Round(t)
  <2>1. rounds'[t] = rounds[t] /\ rounds[t] > 0
    <3>1. rounds' = rounds
      BY <1>4 DEF ThreadStep, Break, AwaitRoot, Select, SelectEnds, SelectNothing,
         LeafRepeats, LeafDecided, LeafOpen, Test, Send, Late, ThreadEdge, ThreadTotal, Over
    <3> QED
      BY <3>1 DEF GoneRound
  <2>2. at[t] = Root /\ pc[t] \in {"wait", "select", "leaf", "test", "send"}
    BY <2>1 DEF GoneRound, AtRoot
  <2>3. ~tree[Root].rq_sent /\ ~tree[Root].eval_ready
    BY <1>1, <1>2 DEF RootAsked, TreeInv, ReadyHasKids
  <2>4. Line(Root) = played
    BY <1>1, RootLine
  <2>5. pc[t] # "wait"
    <3> SUFFICES ASSUME pc[t] = "wait" PROVE FALSE
      OBVIOUS
    <3>1. AwaitRoot(t)
      BY <1>4 DEF ThreadStep, Break, Select, SelectEnds, SelectNothing, LeafRepeats, LeafDecided,
         LeafOpen, Test, Send, Late, ThreadEdge, ThreadTotal, Over
    <3>2. pc'[t] = "select" /\ at'[t] = Root
      BY <1>1, <2>2, <3>1 DEF AwaitRoot, Go, ThreadsType
    <3> QED
      BY <3>2 DEF GoneRound
  <2>6. pc[t] # "select"
    <3> SUFFICES ASSUME pc[t] = "select" PROVE FALSE
      OBVIOUS
    <3>1. SelectEnds(t)
      BY <2>2, <2>3, <1>4 DEF ThreadStep, Break, AwaitRoot, Select, SelectNothing, LeafRepeats,
         LeafDecided, LeafOpen, Test, Send, Late, ThreadEdge, ThreadTotal, Over
    <3>2. pc'[t] = "leaf" /\ at'[t] = Root
      BY <1>1, <2>2, <3>1 DEF SelectEnds, Go, ThreadsType
    <3> QED
      BY <3>2 DEF GoneRound
  <2>7. pc[t] # "leaf"
    <3> SUFFICES ASSUME pc[t] = "leaf" PROVE FALSE
      OBVIOUS
    <3>1. LeafOpen(t)
      BY <2>2, <2>4, <1>4 DEF ThreadStep, Break, AwaitRoot, Select, SelectEnds, SelectNothing,
         LeafRepeats, LeafDecided, Test, Send, Late, ThreadEdge, ThreadTotal, Over
    <3>2. pc'[t] = "test" /\ at'[t] = Root
      BY <1>1, <2>2, <3>1 DEF LeafOpen, Go, ThreadsType
    <3> QED
      BY <3>2 DEF GoneRound
  <2>8. pc[t] # "test"
    <3> SUFFICES ASSUME pc[t] = "test" PROVE FALSE
      OBVIOUS
    <3>1. Test(t)
      BY <1>4 DEF ThreadStep, Break, AwaitRoot, Select, SelectEnds, SelectNothing,
         LeafRepeats, LeafDecided, LeafOpen, Send, Late, ThreadEdge, ThreadTotal, Over
    <3>2. pc'[t] = "send" /\ at'[t] = Root
      BY <1>1, <2>2, <2>3, <3>1 DEF Test, SentBefore, Go, ThreadsType
    <3> QED
      BY <3>2 DEF GoneRound
  <2>9. Send(t)
    BY <2>2, <2>5, <2>6, <2>7, <2>8 DEF ThreadStep, Break, Round, AwaitRoot, Select, SelectEnds,
       SelectNothing, LeafRepeats, LeafDecided, LeafOpen, Test, Late, ThreadEdge, ThreadTotal, Over
  <2>10. tree'[Root].rq_sent
    BY <1>2, <2>2, <2>9, SentWrites DEF Send
  <2> QED
    BY <2>10 DEF RootAsked
<1> QED
  BY <1>3, <1>4

LEMMA SearchAsks ==
    ASSUME GameInv, CountInv, AskInv, SearchesAsk, SearchStep
    PROVE  AskInv'
<1>1. phase \in {"think", "ponder"} /\ phase' = phase
  BY SearchPhase, SearchStays DEF playerVars
<1>2. IndInv /\ AtRoot /\ played \notin Decided /\ ~Repeats(Root)
  BY <1>1 DEF GameInv, SearchesAsk
<1>3. CASE \E t \in Threads : ThreadStep(t)
  <2>1. PICK t \in Threads : ThreadStep(t)
    BY <1>3
  <2>2. SentMeans'
    BY <1>2, <2>1, ThreadSentMeans DEF AskInv
  <2>3. RootAsked => RootAsked'
    BY <1>2, <2>1, RootStaysAsked
  <2>4. ASSUME NEW u \in Threads, GoneRound(u)'
        PROVE  RootAsked'
    <3>1. CASE u = t
      BY <1>1, <1>2, <2>1, <2>3, <2>4, <3>1, ThreadGoesRound DEF AskInv
    <3>2. CASE u # t
      <4>1. pc'[u] = pc[u] /\ at'[u] = at[u]
        BY <1>2, <2>1, <3>2, ThreadSends
      <4>2. rounds'[u] = rounds[u]
        BY <1>2, <2>1, <3>2 DEF IndInv, ThreadsType, ThreadStep, Break, Round, AwaitRoot, Select,
           SelectEnds, SelectNothing, LeafRepeats, LeafDecided, LeafOpen, Test, Send, Late,
           ThreadEdge, ThreadTotal, Over
      <4>3. GoneRound(u)
        BY <2>4, <4>1, <4>2 DEF GoneRound
      <4> QED
        BY <1>1, <2>3, <4>3 DEF AskInv
    <3> QED
      BY <3>1, <3>2
  <2> QED
    BY <2>2, <2>4 DEF AskInv
<1>4. CASE \E j \in jobs : CallbackStep(j) \/ Aside(j) \/ Retry(j)
  <2>1. PICK j \in jobs : CallbackStep(j) \/ Aside(j) \/ Retry(j)
    BY <1>4
  <2>2. SentMeans'
    BY <1>2, <2>1, CallbackSentMeans DEF AskInv
  <2>3. UNCHANGED <<pc, at, rounds>>
    BY <2>1 DEF CallbackStep, Aside, Retry, Expand, SetReady, ReadInvalid, JobEdge, JobTotal,
       Retire
  <2>4. RootAsked => RootAsked'
    BY <1>2, <2>1, RootStaysAsked
  <2> QED
    BY <1>1, <2>2, <2>3, <2>4 DEF AskInv, GoneRound
<1> QED
  BY <1>3, <1>4 DEF SearchStep, During

\* The nodes that are handed over are as they were.
LEMMA BelowSentMeans ==
    ASSUME TreeInv, tree[Root].gen > 0, SentMeans, jobs = {}, NEW i \in Moves, tree' = Below(i)
    PROVE  SentMeans'
<1>1. ASSUME NEW x \in DOMAIN tree', tree'[x].rq_sent
      PROVE  tree'[x].gen > 0
  BY <1>1, BelowNodes DEF SentMeans, AskedFor
<1> QED
  BY <1>1 DEF SentMeans

\* A search begins with no thread that has gone round.
LEMMA StartAsks ==
    ASSUME SentMeans', Started
    PROVE  AskInv'
<1>1. \A t \in Threads : ~GoneRound(t)'
  BY DEF Started, GoneRound
<1> QED
  BY <1>1 DEF AskInv

LEMMA SameAsks ==
    ASSUME AskInv, UNCHANGED <<tree, pc, at, rounds, jobs>>,
           phase' = phase \/ phase' \in {"gtp", "lost", "ended"}
    PROVE  AskInv'
<1>1. SentMeans'
  BY DEF AskInv, SentMeans, AskedFor
<1> QED
  BY <1>1 DEF AskInv, GoneRound, RootAsked

LEMMA StepAsks ==
    GameInv /\ CountInv /\ AskInv /\ SearchesAsk /\ [GameNext]_allVars => AskInv'
<1> SUFFICES ASSUME GameInv, CountInv, AskInv, SearchesAsk, [GameNext]_allVars PROVE AskInv'
  OBVIOUS
<1>1. TreeInv /\ SentMeans
  BY DEF GameInv, IndInv, AskInv
<1>3. ASSUME jobs = {}, NEW i \in Moves, Replied(i)
      PROVE  SentMeans'
  <2>1. CASE tree' = NewTree
    <3>1. \A x \in DOMAIN tree' : tree'[x].rq_sent = FALSE
      BY <2>1 DEF NewTree, NewNode
    <3> QED
      BY <3>1 DEF SentMeans
  <2>2. CASE tree[Root].gen > 0 /\ tree' = Below(i)
    BY <1>1, <1>3, <2>2, BelowSentMeans
  <2> QED
    BY <1>3, <2>1, <2>2 DEF Replied
<1>4. CASE SearchStep
  BY <1>4, SearchAsks
<1>5. CASE CmdPlay
  BY <1>3, <1>5 DEF CmdPlay, AskInv
<1>6. CASE CmdGenmove
  <2>1. jobs = {} /\ Started /\ UNCHANGED jobs
    BY <1>6, StartsThreads DEF CmdGenmove
  <2>2. SentMeans'
    <3>1. CASE genmove
      BY <1>3, <1>6, <2>1, <3>1, SearchAssumption DEF CmdGenmove
    <3>2. CASE ~genmove
      BY <1>1, <1>6, <2>1, <3>2 DEF CmdGenmove, SentMeans, AskedFor
    <3> QED
      BY <3>1, <3>2
  <2> QED
    BY <2>1, <2>2, StartAsks
<1>7. CASE ChooseMove
  <2>1. jobs = {} /\ tree[Root].gen > 0
    <3>1. tree[Root].gen \in Nat
      BY <1>1, NodeFields DEF TreeInv, NodesType
    <3> QED
      BY <1>7, <3>1 DEF ChooseMove, Searched
  <2>2. PICK i \in Moves : tree' = Below(i)
    BY <1>7, SearchAssumption DEF ChooseMove, BestMoves, FirstOfMost
  <2>3. SentMeans'
    BY <1>1, <2>1, <2>2, BelowSentMeans
  <2>4. CASE phase' = "gtp"
    BY <2>3, <2>4 DEF AskInv
  <2>5. CASE StartThreads(FALSE)
    BY <2>3, <2>5, StartAsks, StartsThreads
  <2> QED
    BY <1>7, <2>4, <2>5 DEF ChooseMove
<1>8. CASE CmdPlayEnds \/ CmdStopped \/ ChooseEnds \/ ChooseNothing \/ LeaveRequests
  BY <1>8, SameAsks DEF CmdPlayEnds, CmdStopped, ChooseEnds, ChooseNothing, LeaveRequests, vars
<1>9. CASE Recycle
  BY <1>9, SameAsks DEF Recycle, playerVars
<1>10. CASE UNCHANGED allVars
  BY <1>10, SameAsks DEF allVars, vars, playerVars
<1> QED
  BY <1>4, <1>5, <1>6, <1>7, <1>8, <1>9, <1>10 DEF GameNext, GameOver

LEMMA GameInitAsks == GameInit => AskInv
<1> SUFFICES ASSUME GameInit PROVE AskInv
  OBVIOUS
<1>1. \A x \in DOMAIN tree : tree[x].rq_sent = FALSE
  BY DEF GameInit, NewTree, NewNode
<1> QED
  BY <1>1 DEF GameInit, AskInv, SentMeans

LEMMA AsksMean == GameInv /\ AskInv => MoveToChoose
<1> SUFFICES ASSUME GameInv, AskInv, phase = "think", jobs = {}, AllOver,
                    NEW t \in Threads, rounds[t] > 0
             PROVE  tree[Root].gen > 0
  BY DEF MoveToChoose, RootExpanded
<1>2. GoneRound(t)
  BY DEF GoneRound, AllOver
<1>3. Root \in DOMAIN tree
  BY DEF GameInv, IndInv, TreeInv, NodesType
<1> QED
  BY <1>2, <1>3 DEF AskInv, SentMeans, RootAsked, AskedFor

\* "it should never happend" (MCTSTree.cpp:289), that nexts is NULL when a move
\* is chosen: for any number of threads, a search that has gone round its loop
\* and has left no request behind has expanded the root, as long as no search
\* begins where the position repeats or the result is known.  There the loop goes
\* on, or counts, without asking for the root (rollout); and when the request of
\* the root has failed and waits to be sent again, get_pending does not count it,
\* and a move is chosen from a root without children.
THEOREM MovesToChooseFrom == GameSpec /\ []SearchesAsk => []MoveToChoose
<1>1. GameInit => GameInv /\ CountInv /\ AskInv
  BY GameInitInv, GameInitCounts, GameInitAsks
<1>2. GameInv /\ CountInv /\ AskInv /\ SearchesAsk /\ [GameNext]_allVars
      => GameInv' /\ CountInv' /\ AskInv'
  BY GameStepInv, StepCounts, StepAsks DEF SearchesOpen, SearchesAsk
<1>3. GameInv /\ AskInv => MoveToChoose
  BY AsksMean
<1> QED
  BY <1>1, <1>2, <1>3, PTL DEF GameSpec

------------------------------------------------------------------------------
(* The search over the moves of a game                                      *)

LEMMA OldPath ==
    ASSUME TreeInv, tree[Root].gen > 0, NEW i \in Moves, NEW x \in Paths
    PROVE  Old(i, x) \in Paths /\ Old(i, x) # Root
<1>1. <<i, tree[Root].gen>> \in Links
  BY NodeFields DEF TreeInv, NodesType, Links
<1> QED
  BY <1>1, PathJoin DEF Old

\* What led to a node of the new tree led to it in the old one.
LEMMA OldPrefix ==
    ASSUME TreeInv, tree[Root].gen > 0, NEW i \in Moves, NEW z \in Paths, NEW x \in Paths,
           IsPrefix(z, x)
    PROVE  IsPrefix(Old(i, z), Old(i, x))
<1> DEFINE k == <<i, tree[Root].gen>>
           a == <<k>> \o z
           b == <<k>> \o x
<1>1. k \in Links
  BY NodeFields DEF TreeInv, NodesType, Links
<1> HIDE DEF k
<1>2. /\ a \in Seq(Links) /\ Len(a) = Len(z) + 1
      /\ a[1] = k /\ \A d \in 1..Len(z) : a[d + 1] = z[d]
  BY <1>1, PathJoin, JoinFirst DEF Paths, Links
<1>3. /\ b \in Seq(Links) /\ Len(b) = Len(x) + 1
      /\ b[1] = k /\ \A d \in 1..Len(x) : b[d + 1] = x[d]
  BY <1>1, PathJoin, JoinFirst DEF Paths, Links
<1>4. Len(z) <= Len(x) /\ \A d \in 1..Len(z) : z[d] = x[d]
  BY PrefixIs DEF Paths
<1>5. Len(z) \in Nat /\ Len(x) \in Nat
  BY DEF Paths
<1> HIDE DEF a, b
<1>6. ASSUME NEW d \in 1..Len(a)
      PROVE  a[d] = b[d]
  <2>1. CASE d = 1
    BY <1>2, <1>3, <2>1
  <2>2. CASE d # 1
    <3>1. d - 1 \in 1..Len(z) /\ d - 1 \in 1..Len(x) /\ (d - 1) + 1 = d
      BY <1>2, <1>4, <1>5, <2>2
    <3> DEFINE e == d - 1
    <3>2. a[e + 1] = z[e] /\ b[e + 1] = x[e] /\ z[e] = x[e]
      BY <1>2, <1>3, <1>4, <3>1
    <3> QED
      BY <3>1, <3>2
  <2> QED
    BY <2>1, <2>2
<1>7. Len(a) <= Len(b)
  BY <1>2, <1>3, <1>4, <1>5
<1>8. IsPrefix(a, b)
  BY <1>2, <1>3, <1>6, <1>7, PrefixIs
<1> QED
  BY <1>8 DEF Old, a, b, k

\* The children of a node of the new tree.
LEMMA OldKid ==
    ASSUME TreeInv, tree[Root].gen > 0, NEW i \in Moves, tree' = Below(i),
           NEW x \in DOMAIN tree', tree'[x].gen > 0, NEW l \in Moves
    PROVE  /\ Kid(x, l)' \in DOMAIN tree' /\ Kid(x, l)' \in Paths /\ Kid(x, l)' # Root
           /\ Old(i, Kid(x, l)') = Kid(Old(i, x), l)
           /\ tree'[Kid(x, l)'] = tree[Kid(Old(i, x), l)]
<1>1. /\ x \in Paths /\ Old(i, x) \in DOMAIN tree /\ tree'[x] = tree[Old(i, x)]
      /\ <<i, tree[Root].gen>> \in Links
  BY BelowNodes
<1>2. tree[Old(i, x)].gen \in Nat \ {0}
  BY <1>1, NodeFields DEF TreeInv, NodesType
<1>3. <<l, tree'[x].gen>> \in Links
  BY <1>1, <1>2 DEF Links
<1>4. Append(x, <<l, tree'[x].gen>>) \in Paths /\ Append(x, <<l, tree'[x].gen>>) # Root
  BY <1>1, <1>2, KidPath
<1>5. Old(i, Kid(x, l)') = Kid(Old(i, x), l)
  BY <1>1, <1>3, JoinAppend DEF Old, Kid
<1>6. Kid(Old(i, x), l) \in DOMAIN tree
  BY <1>1, <1>2, KidFacts
<1>7. Kid(x, l)' \in Paths /\ Kid(x, l)' # Root
  BY <1>4 DEF Kid
<1>8. Kid(x, l)' \in DOMAIN tree'
  BY <1>5, <1>6, <1>7, BelowNodes
<1> QED
  BY <1>5, <1>7, <1>8, BelowNodes

LEMMA JoinMoves ==
    ASSUME NEW p \in Seq(Moves), NEW u \in Seq(Moves)
    PROVE  /\ p \o u \in Seq(Moves) /\ Len(p \o u) = Len(p) + Len(u)
           /\ \A d \in 1..(Len(p) + Len(u)) :
                 (p \o u)[d] = IF d <= Len(p) THEN p[d] ELSE u[d - Len(p)]
BY ConcatProperties

\* The line of moves to a node stays what it was.
LEMMA OldLine ==
    ASSUME TreeInv, tree[Root].gen > 0, played \in Seq(Moves), NEW i \in Moves,
           played' = Append(played, i), NEW x \in Paths
    PROVE  Line(x)' = Line(Old(i, x)) /\ (Repeats(x)' <=> Repeats(Old(i, x)))
<1> DEFINE k == <<i, tree[Root].gen>>
           z == <<k>> \o x
           u == [d \in DOMAIN x |-> x[d][1]]
           v == [d \in DOMAIN z |-> z[d][1]]
           p == Append(played, i)
<1>1. k \in Links /\ k[1] = i
  BY NodeFields DEF TreeInv, NodesType, Links
<1> HIDE DEF k
<1>2. /\ z \in Seq(Links) /\ Len(z) = Len(x) + 1 /\ Len(x) \in Nat
      /\ z[1] = k /\ \A d \in 1..Len(x) : z[d + 1] = x[d]
  BY <1>1, PathJoin, JoinFirst DEF Paths, Links
<1>3. DOMAIN x = 1..Len(x) /\ DOMAIN z = 1..Len(z)
  BY <1>2 DEF Paths
<1>4. \A d \in 1..Len(x) : x[d] \in Links
  BY DEF Paths, Links
<1> HIDE DEF z
<1>5. \A d \in 1..Len(z) : z[d] \in Links
  BY <1>2
<1>6. u \in Seq(Moves) /\ Len(u) = Len(x) /\ \A d \in 1..Len(x) : u[d] = x[d][1]
  <2>1. u \in [1..Len(x) -> Moves]
    BY <1>3, <1>4 DEF Links
  <2> QED
    BY <1>2, <1>3, <2>1
<1>7. v \in Seq(Moves) /\ Len(v) = Len(z) /\ \A d \in 1..Len(z) : v[d] = z[d][1]
  <2>1. v \in [1..Len(z) -> Moves]
    BY <1>3, <1>5 DEF Links
  <2>2. Len(z) \in Nat
    BY <1>2
  <2> QED
    BY <1>3, <2>1, <2>2
<1> HIDE DEF u, v
<1>8. p \in Seq(Moves) /\ Len(p) = Len(played) + 1 /\ p[Len(played) + 1] = i
      /\ \A d \in 1..Len(played) : p[d] = played[d]
  OBVIOUS
<1>9. Len(played) \in Nat
  OBVIOUS
<1> HIDE DEF p
<1>10. /\ p \o u \in Seq(Moves) /\ Len(p \o u) = Len(p) + Len(u)
       /\ \A d \in 1..(Len(p) + Len(u)) :
             (p \o u)[d] = IF d <= Len(p) THEN p[d] ELSE u[d - Len(p)]
  BY <1>6, <1>8, JoinMoves
<1>11. /\ played \o v \in Seq(Moves) /\ Len(played \o v) = Len(played) + Len(v)
       /\ \A d \in 1..(Len(played) + Len(v)) :
             (played \o v)[d] = IF d <= Len(played) THEN played[d] ELSE v[d - Len(played)]
  BY <1>7, JoinMoves
<1>12. Len(p \o u) = Len(played \o v)
  BY <1>2, <1>6, <1>7, <1>8, <1>9, <1>10, <1>11
<1> DEFINE n == Len(played)
           s == p \o u
           r == played \o v
<1>13. ASSUME NEW d \in 1..Len(s)
       PROVE  s[d] = r[d]
  <2>0. d \in 1..(Len(p) + Len(u)) /\ d \in 1..(n + Len(v)) /\ n \in Nat /\ Len(p) = n + 1
    BY <1>8, <1>9, <1>10, <1>11, <1>12
  <2>1. CASE d <= n
    <3>1. s[d] = p[d] /\ r[d] = played[d] /\ d \in 1..n
      BY <1>10, <1>11, <2>0, <2>1
    <3> QED
      BY <1>8, <3>1
  <2>2. CASE d = n + 1
    <3>1. s[d] = i
      BY <1>8, <1>10, <2>0, <2>2
    <3>2. r[d] = v[d - n] /\ d - n = 1
      BY <1>11, <2>0, <2>2
    <3>3. v[1] = i
      BY <1>1, <1>2, <1>7
    <3> QED
      BY <3>1, <3>2, <3>3
  <2>3. CASE d > n + 1
    <3> DEFINE e == d - (n + 1)
    <3>1. e \in 1..Len(x) /\ e + 1 \in 1..Len(z) /\ d - n = e + 1 /\ d - Len(p) = e
      BY <1>2, <1>6, <2>0, <2>3
    <3>2. s[d] = u[d - Len(p)]
      BY <1>10, <2>0, <2>3
    <3>3. r[d] = v[d - n]
      BY <1>11, <2>0, <2>3
    <3> HIDE DEF e
    <3>4. u[e] = x[e][1] /\ v[e + 1] = z[e + 1][1] /\ z[e + 1] = x[e]
      BY <1>2, <1>6, <1>7, <3>1
    <3> QED
      BY <3>1, <3>2, <3>3, <3>4
  <2> QED
    BY <2>0, <2>1, <2>2, <2>3
<1>14. s = r
  BY <1>10, <1>11, <1>12, <1>13, SeqEqual
<1>15. Line(x)' = s
  BY DEF Line, u, p
<1>16. Line(Old(i, x)) = r
  BY DEF Line, Old, v, z, k
<1> QED
  BY <1>14, <1>15, <1>16 DEF Repeats

\* Nobody is in the tree; what a command then does with it.
AtRest == jobs = {} /\ \A t \in Threads : at[t] = Root /\ pc[t] \in {"top", "poll", "over"}
Moved ==
    \/ UNCHANGED <<tree, played>>
    \/ tree' = NewTree
    \/ \E i \in Moves : /\ tree[Root].gen > 0 /\ tree' = Below(i)
                        /\ played' = Append(played, i)
HandedOver == TreeInv /\ played \in Seq(Moves) /\ AtRest /\ AtRest' /\ Moved

LEMMA GameSteps ==
    ASSUME GameInv, [GameNext]_allVars
    PROVE  \/ SearchStep
           \/ UNCHANGED <<tree, played, pc, at, jobs>>
           \/ HandedOver
<1>1. TreeInv /\ played \in Seq(Moves) /\ tree[Root].gen \in Nat
  BY NodeFields DEF GameInv, IndInv, GameType, TreeInv, NodesType
<1>2. ASSUME AllOver, jobs = {}
      PROVE  AtRest
  BY <1>2 DEF AllOver, AtRest, GameInv, AtRoot
<1>3. ASSUME AtRest, UNCHANGED jobs, UNCHANGED <<pc, at>> \/ Started
      PROVE  AtRest'
  BY <1>3 DEF AtRest, Started
<1>4. ASSUME NEW i \in Moves, Replied(i)
      PROVE  Moved
  BY <1>1, <1>4 DEF Replied, Moved
<1>5. CASE CmdPlay
  <2>1. AllOver /\ jobs = {} /\ UNCHANGED jobs /\ UNCHANGED <<pc, at>> /\ Moved
    BY <1>4, <1>5 DEF CmdPlay, MayMove, Quiet
  <2> QED
    BY <1>1, <1>2, <1>3, <2>1 DEF HandedOver
<1>6. CASE CmdGenmove
  <2>1. AllOver /\ jobs = {} /\ UNCHANGED jobs /\ Started
    BY <1>6, StartsThreads DEF CmdGenmove, MayMove, Quiet
  <2>2. CASE genmove
    <3>1. PassMove \in Moves /\ Replied(PassMove)
      BY <1>6, <2>2, SearchAssumption DEF CmdGenmove
    <3>2. Moved
      BY <1>4, <3>1
    <3> QED
      BY <1>1, <1>2, <1>3, <2>1, <3>2 DEF HandedOver
  <2>3. CASE ~genmove
    <3>1. Moved
      BY <1>6, <2>3 DEF CmdGenmove, Moved
    <3> QED
      BY <1>1, <1>2, <1>3, <2>1, <3>1 DEF HandedOver
  <2> QED
    BY <2>2, <2>3
<1>7. CASE ChooseMove
  <2>1. AllOver /\ jobs = {} /\ tree[Root].gen > 0 /\ UNCHANGED jobs
    BY <1>1, <1>7 DEF ChooseMove, Searched
  <2>2. PICK i \in Moves : tree' = Below(i) /\ played' = Append(played, i)
    BY <1>7, SearchAssumption DEF ChooseMove, BestMoves, FirstOfMost
  <2>3. Moved
    BY <2>1, <2>2 DEF Moved
  <2>4. UNCHANGED <<pc, at>> \/ Started
    BY <1>7, StartsThreads DEF ChooseMove
  <2> QED
    BY <1>1, <1>2, <1>3, <2>1, <2>3, <2>4 DEF HandedOver
<1>8. CASE CmdPlayEnds \/ CmdStopped \/ ChooseEnds \/ ChooseNothing \/ LeaveRequests
  BY <1>8 DEF CmdPlayEnds, CmdStopped, ChooseEnds, ChooseNothing, LeaveRequests, vars, gameVars
<1>9. CASE Recycle
  BY <1>9 DEF Recycle
<1>10. CASE UNCHANGED allVars
  BY <1>10 DEF allVars, vars, gameVars
<1> QED
  BY <1>5, <1>6, <1>7, <1>8, <1>9, <1>10 DEF GameNext, GameOver

\* A step of the search is one of Search.
LEMMA SearchSteps ==
    ASSUME SearchStep
    PROVE  Next
BY DEF SearchStep, During, Next

LEMMA RestReached ==
    ASSUME AtRest, AtRest'
    PROVE  \A y \in Paths : /\ ~(\E t \in Threads : y # Root /\ IsPrefix(y, at'[t]))
                            /\ ~(\E t \in Threads : y # Root /\ IsPrefix(y, at[t]))
BY RootPrefix DEF AtRest

LEMMA HandedFlight ==
    ASSUME HandedOver, FlightInv
    PROVE  FlightInv'
<1>1. TreeInv /\ played \in Seq(Moves) /\ AtRest /\ AtRest' /\ Moved
  BY DEF HandedOver
<1>2. /\ jobs = {} /\ jobs' = {}
      /\ \A t \in Threads : /\ at[t] = Root /\ at'[t] = Root
                            /\ pc'[t] \notin {"test", "send"}
  BY <1>1 DEF AtRest
<1>3. CASE UNCHANGED <<tree, played>>
  <2>1. PrefixClosed' /\ Repetitions'
    BY <1>2, <1>3, RepeatsSame DEF FlightInv, PrefixClosed, Repetitions
  <2>2. ASSUME NEW x \in DOMAIN tree, tree[x].gen > 0, NEW i \in Moves, Reached(Kid(x, i))'
        PROVE  AfterElders(x, i)'
    <3>1. Reached(Kid(x, i))
      BY <1>2, <1>3, <2>2 DEF Reached, Kid
    <3>2. AfterElders(x, i)
      BY <2>2, <3>1 DEF FlightInv, InOrder
    <3> QED
      BY <1>3, <3>2, RepeatsSame DEF AfterElders, Kid
  <2> QED
    BY <1>3, <2>1, <2>2 DEF FlightInv, InOrder
<1>4. CASE tree' = NewTree
  <2>1. DOMAIN tree' = {Root} /\ tree'[Root] = NewNode
    BY <1>4 DEF NewTree
  <2>2. PrefixClosed'
    BY <2>1, PrefixRoot DEF PrefixClosed
  <2>3. Repetitions'
    BY <1>2, <2>1 DEF Repetitions, NewNode
  <2>4. InOrder'
    BY <2>1 DEF InOrder, NewNode
  <2> QED
    BY <2>2, <2>3, <2>4 DEF FlightInv
<1>5. ASSUME NEW i \in Moves, tree[Root].gen > 0, tree' = Below(i), played' = Append(played, i)
      PROVE  FlightInv'
  <2>1. \A x \in DOMAIN tree' : /\ x \in Paths /\ Old(i, x) \in DOMAIN tree
                                /\ tree'[x] = tree[Old(i, x)]
    BY <1>1, <1>5, BelowNodes
  <2>2. PrefixClosed'
    <3>1. ASSUME NEW x \in DOMAIN tree', NEW z \in Paths, IsPrefix(z, x)
          PROVE  z \in DOMAIN tree'
      <4>1. IsPrefix(Old(i, z), Old(i, x)) /\ Old(i, z) \in Paths
        BY <1>1, <1>5, <2>1, <3>1, OldPrefix, OldPath
      <4>2. Old(i, z) \in DOMAIN tree
        BY <2>1, <4>1 DEF FlightInv, PrefixClosed
      <4> QED
        BY <1>1, <1>5, <4>2, BelowNodes
    <3> QED
      BY <3>1 DEF PrefixClosed
  <2>3. \A x \in Paths : Repeats(x)' <=> Repeats(Old(i, x))
    BY <1>1, <1>5, OldLine
  <2>4. Repetitions'
    BY <1>2, <2>1, <2>3 DEF FlightInv, Repetitions
  <2>5. ASSUME NEW x \in DOMAIN tree', tree'[x].gen > 0, NEW m \in Moves, Reached(Kid(x, m))'
        PROVE  AfterElders(x, m)'
    <3> DEFINE o == Old(i, x)
    <3>1. o \in DOMAIN tree /\ tree[o].gen > 0
      BY <2>1, <2>5
    <3>2. ASSUME NEW l \in Moves
          PROVE  /\ Kid(x, l)' \in Paths /\ Kid(x, l)' # Root
                 /\ Old(i, Kid(x, l)') = Kid(o, l)
                 /\ tree'[Kid(x, l)'] = tree[Kid(o, l)]
      BY <1>1, <1>5, <2>5, OldKid
    <3>3. Reached(Kid(o, m))
      <4>1. ~(\E t \in Threads : IsPrefix(Kid(x, m)', at'[t]))
        BY <1>2, <3>2, RootPrefix
      <4>2. tree'[Kid(x, m)'].rq_sent \/ tree'[Kid(x, m)'].n > 0
        BY <1>2, <2>5, <4>1 DEF Reached
      <4> QED
        BY <3>2, <4>2 DEF Reached
    <3>4. AfterElders(o, m)
      BY <3>1, <3>3 DEF FlightInv, InOrder
    <3> HIDE DEF o
    <3>5. ASSUME NEW l \in 1..(m - 1)
          PROVE  tree'[Kid(x, l)'].n # 0 \/ Repeats(Kid(x, l))'
      <4>1. l \in Moves
        BY SearchAssumption DEF Moves
      <4>2. tree[Kid(o, l)].n # 0 \/ Repeats(Kid(o, l))
        BY <3>4, <3>5 DEF AfterElders
      <4>3. Repeats(Kid(x, l))' <=> Repeats(Kid(o, l))
        <5>1. PICK y \in Paths : y = Kid(x, l)'
          BY <3>2, <4>1
        <5>2. Repeats(y)' <=> Repeats(Kid(o, l))
          BY <2>3, <3>2, <4>1, <5>1
        <5>3. Repeats(Kid(x, l))' <=> Repeats(y)'
          BY <5>1 DEF Repeats, Line
        <5> QED
          BY <5>2, <5>3
      <4> QED
        BY <3>2, <4>1, <4>2, <4>3
    <3> QED
      BY <3>5 DEF AfterElders
  <2>6. InOrder'
    BY <2>5 DEF InOrder
  <2> QED
    BY <2>2, <2>4, <2>6 DEF FlightInv
<1> QED
  BY <1>1, <1>3, <1>4, <1>5 DEF Moved

LEMMA RestCovers ==
    ASSUME AtRest', NEW k \in DOMAIN tree', k # Root, k \in Paths,
           tree'[k].vl \in Int, tree'[k].vl >= 0
    PROVE  CoverAt(k)'
<1>1. Walkers(k)' = {}
  BY RootPrefix DEF AtRest, Walkers, OnWay
<1>2. jobs' = {}
  BY DEF AtRest
<1>3. SumOf(OwedAt(k)', {}) = 0 /\ Cardinality({}) = 0
  BY SumEmpty, FS_EmptySet
<1>4. UnderWay(k)' = 0
  BY <1>1, <1>2, <1>3 DEF UnderWay
<1>5. Loss * 0 = 0
  BY SearchAssumption
<1> QED
  BY <1>4, <1>5 DEF CoverAt

LEMMA HandedSolo ==
    ASSUME HandedOver, SoloInv
    PROVE  SoloInv'
<1>1. TreeInv /\ AtRest /\ AtRest' /\ Moved
  BY DEF HandedOver
<1>2. SoloJobs' /\ SoloThread'
  BY <1>1 DEF AtRest, SoloJobs, SoloThread
<1>3. CASE UNCHANGED <<tree, played>>
  BY <1>2, <1>3 DEF SoloInv, SoloNodes
<1>4. CASE tree' = NewTree
  <2>1. DOMAIN tree' = {Root} /\ tree'[Root] = NewNode
    BY <1>4 DEF NewTree
  <2> QED
    BY <1>2, <2>1 DEF SoloInv, SoloNodes, NewNode
<1>5. ASSUME NEW i \in Moves, tree[Root].gen > 0, tree' = Below(i)
      PROVE  SoloInv'
  <2>1. \A x \in DOMAIN tree' : Old(i, x) \in DOMAIN tree /\ tree'[x] = tree[Old(i, x)]
    BY <1>1, <1>5, BelowNodes
  <2> QED
    BY <1>2, <2>1 DEF SoloInv, SoloNodes
<1> QED
  BY <1>1, <1>3, <1>4, <1>5 DEF Moved

\* The loss of a node that nobody is below is not negative, and stays so.
LEMMA HandedCover ==
    ASSUME IndInv, Finite, HandedOver, Cover
    PROVE  Cover'
<1> SUFFICES ASSUME NEW k \in DOMAIN tree', k # Root
             PROVE  CoverAt(k)'
  BY DEF Cover
<1>1. TreeInv /\ AtRest /\ AtRest' /\ Moved
  BY DEF HandedOver
<1>2. CASE UNCHANGED <<tree, played>>
  <2>1. k \in DOMAIN tree /\ k \in Paths /\ tree'[k] = tree[k]
    BY <1>1, <1>2 DEF TreeInv, NodesType
  <2> QED
    BY <1>1, <2>1, RestCovers, NoLossBelowZero
<1>3. CASE tree' = NewTree
  BY <1>3 DEF NewTree
<1>4. ASSUME NEW i \in Moves, tree[Root].gen > 0, tree' = Below(i)
      PROVE  CoverAt(k)'
  <2>1. k \in Paths /\ Old(i, k) \in DOMAIN tree /\ tree'[k] = tree[Old(i, k)]
    BY <1>1, <1>4, BelowNodes
  <2>2. Old(i, k) # Root
    BY <1>1, <1>4, <2>1, OldPath
  <2> QED
    BY <1>1, <2>1, <2>2, RestCovers, NoLossBelowZero
<1> QED
  BY <1>1, <1>2, <1>3, <1>4 DEF Moved

\* No visit is between its two additions.
LEMMA RestRising ==
    ASSUME AtRest
    PROVE  \A x : Rising(x) = 0
<1> TAKE x
<1>1. RisingJobs(x) = {} /\ RisingThreads(x) = {}
  BY DEF AtRest, RisingJobs, RisingThreads, RisesThread
<1> QED
  BY <1>1, FS_EmptySet, RisingIs

\* The nodes below x were those below the place of x in the old tree.
LEMMA OldBelow ==
    ASSUME TreeInv, tree[Root].gen > 0, NEW i \in Moves, tree' = Below(i), NEW x \in DOMAIN tree'
    PROVE  {Old(i, y) : y \in KidsIn(x)'} = KidsIn(Old(i, x))
<1> DEFINE k == <<i, tree[Root].gen>>
<1>1. k \in Links /\ DOMAIN tree \subseteq Paths
  BY NodeFields DEF TreeInv, NodesType, Links
<1>2. \A y : Old(i, y) = <<k>> \o y
  BY DEF Old
<1> HIDE DEF k
<1>3. x \in Paths
  BY BelowNodes
<1>4. ASSUME NEW y \in KidsIn(x)'
      PROVE  Old(i, y) \in KidsIn(Old(i, x))
  <2>1. y \in DOMAIN tree' /\ y # Root /\ Father(y) = x
    BY <1>4 DEF KidsIn, Father
  <2>2. y \in Paths /\ Old(i, y) \in DOMAIN tree
    BY <2>1, BelowNodes
  <2>3. Father(Old(i, y)) = Old(i, x) /\ Old(i, y) # Root
    BY <1>1, <1>2, <2>1, <2>2, JoinFather, PathJoin
  <2> QED
    BY <2>2, <2>3 DEF KidsIn
<1>5. ASSUME NEW z \in KidsIn(Old(i, x))
      PROVE  \E y \in KidsIn(x)' : z = Old(i, y)
  <2>1. z \in DOMAIN tree /\ z \in Paths /\ z # Root /\ Father(z) = <<k>> \o x
    BY <1>1, <1>2, <1>5 DEF KidsIn
  <2> DEFINE y == Tail(z)
             e == Head(z)
  <2>2. e \in Links /\ y \in Paths /\ <<e>> \o y = z
    BY <2>1, PathSplit
  <2> HIDE DEF y, e
  <2>3. y # Root
    <3>1. ASSUME y = Root PROVE FALSE
      <4>1. Len(z) = Len(y) + 1 /\ Len(y) = 0
        BY <2>2, <3>1, PathJoin DEF Root
      <4>2. Len(Father(z)) = 0
        BY <2>1, <4>1, FatherPath
      <4>3. Len(Father(z)) = Len(x) + 1 /\ Len(x) \in Nat
        BY <1>1, <1>3, <2>1, PathJoin DEF Paths
      <4> QED
        BY <4>2, <4>3
    <3> QED
      BY <3>1
  <2>4. Father(y) \in Paths /\ <<e>> \o Father(y) = <<k>> \o x
    BY <2>1, <2>2, <2>3, JoinFather
  <2>5. e = k /\ Father(y) = x
    <3>1. Head(<<e>> \o Father(y)) = e /\ Tail(<<e>> \o Father(y)) = Father(y)
      BY <2>2, <2>4, PathJoin
    <3>2. Head(<<k>> \o x) = k /\ Tail(<<k>> \o x) = x
      BY <1>1, <1>3, PathJoin
    <3> QED
      BY <2>4, <3>1, <3>2
  <2>6. z = Old(i, y)
    BY <1>2, <2>2, <2>5
  <2>7. y \in DOMAIN tree'
    BY <2>1, <2>2, <2>6, BelowNodes
  <2>8. y \in KidsIn(x)'
    BY <2>3, <2>5, <2>7 DEF KidsIn, Father
  <2> QED
    BY <2>6, <2>8
<1> QED
  BY <1>4, <1>5

LEMMA HandedVisits ==
    ASSUME HandedOver, IsFiniteSet(DOMAIN tree'), TreeInv', VisitsEven
    PROVE  VisitsEven'
<1>1. TreeInv /\ AtRest /\ AtRest' /\ Moved
  BY DEF HandedOver
<1>2. \A x : Rising(x) = 0
  BY <1>1, RestRising
<1>3. \A x : Rising(x)' = 0
  <2> TAKE x
  <2>1. RisingJobs(x)' = {} /\ RisingThreads(x)' = {}
    BY <1>1 DEF AtRest, RisingJobs, RisingThreads, RisesThread
  <2>2. Rising(x)' = Cardinality(RisingJobs(x)') + Cardinality(RisingThreads(x)')
    BY DEF Rising, RisingJobs, RisingThreads, RisesJob, RisesThread
  <2> QED
    BY <2>1, <2>2, FS_EmptySet
<1>4. ASSUME NEW x \in DOMAIN tree'
      PROVE  tree'[x].total_n + Rising(x)' = SumOf(VisitsOf', KidsIn(x)')
  <2>1. CASE UNCHANGED <<tree, played>>
    <3>1. VisitsOf' = VisitsOf /\ KidsIn(x)' = KidsIn(x)
      BY <2>1 DEF VisitsOf, KidsIn, Father
    <3>2. tree[x].total_n + Rising(x) = SumOf(VisitsOf, KidsIn(x))
      BY <1>4, <2>1 DEF VisitsEven
    <3> QED
      BY <1>2, <1>3, <2>1, <3>1, <3>2
  <2>2. CASE tree' = NewTree
    <3>1. x = Root /\ KidsIn(x)' = {} /\ tree'[x].total_n = 0
      BY <1>4, <2>2 DEF NewTree, NewNode, KidsIn
    <3> QED
      BY <1>3, <3>1, SumEmpty
  <2>3. ASSUME NEW i \in Moves, tree[Root].gen > 0, tree' = Below(i)
        PROVE  tree'[x].total_n + Rising(x)' = SumOf(VisitsOf', KidsIn(x)')
    <3> DEFINE o == Old(i, x)
               S == KidsIn(x)'
               f == [y \in S |-> Old(i, y)]
               w == VisitsOf'
               v == VisitsOf
    <3>1. o \in DOMAIN tree /\ tree'[x] = tree[o]
      BY <1>1, <1>4, <2>3, BelowNodes
    <3>2. tree[o].total_n + Rising(o) = SumOf(v, KidsIn(o))
      BY <3>1 DEF VisitsEven
    <3>3. S \in SUBSET DOMAIN tree'
      BY DEF KidsIn
    <3>4. IsFiniteSet(S)
      BY <3>3, FS_Subset
    <3>5. \A y \in S : /\ y \in Paths /\ Old(i, y) \in DOMAIN tree
                       /\ w[y] = tree[Old(i, y)].n /\ v[Old(i, y)] = w[y]
      BY <1>1, <2>3, <3>3, BelowNodes DEF VisitsOf
    <3>6. \A y \in S : w[y] \in Int
      <4>1. \A z \in DOMAIN tree : tree[z].n \in Nat
        BY <1>1 DEF TreeInv, NodesType, NodeType
      <4> HIDE DEF S, w, v
      <4> QED
        BY <3>5, <4>1
    <3>7. \A y \in S : \A z \in S : f[y] = f[z] => y = z
      <4>1. <<i, tree[Root].gen>> \in Links
        BY <1>1, <2>3, BelowNodes
      <4>2. \A y \in Paths : Tail(Old(i, y)) = y
        BY <4>1, PathJoin DEF Old
      <4> QED
        BY <3>5, <4>2
    <3>8. {f[y] : y \in S} = KidsIn(o)
      BY <1>1, <2>3, OldBelow
    <3>9. \A y \in S : v[f[y]] = w[y]
      BY <3>5
    <3> HIDE DEF S, f, v, w, o
    <3>10. SumOf(v, {f[y] : y \in S}) = SumOf(w, S)
      BY <3>4, <3>6, <3>7, <3>9, SumMoved
    <3>11. tree'[x].total_n + Rising(x)' = SumOf(w, S)
      BY <1>2, <1>3, <3>1, <3>2, <3>8, <3>10
    <3> QED
      BY <3>11 DEF S, w
  <2> QED
    BY <1>1, <2>1, <2>2, <2>3 DEF Moved
<1> QED
  BY <1>4 DEF VisitsEven

------------------------------------------------------------------------------
(* What Search promises, over a game                                        *)

LEMMA HandedRequests ==
    ASSUME HandedOver, RequestInv
    PROVE  RequestInv'
<1>1. AtRest' /\ Moved /\ IsFiniteSet(DOMAIN tree)
  BY DEF HandedOver, RequestInv, Finite
<1>2. IsFiniteSet(DOMAIN tree')
  BY <1>1, BelowFinite, NewTreeFinite DEF Moved
<1>3. Finite' /\ Distinct' /\ LeavesSent' /\ FirstAsk'
  BY <1>1, <1>2, FS_EmptySet DEF AtRest, Finite, Distinct, LeavesSent, FirstAsk
<1> QED
  BY <1>3 DEF RequestInv

\* What does not look at whose turn it is, or at the opponent's move above the
\* root, stays as it is while the search rests.
LEMMA StillKeeps ==
    ASSUME UNCHANGED <<tree, played, pc, at, jobs>>
    PROVE  /\ RequestInv => RequestInv'
           /\ VisitsEven => VisitsEven'
           /\ FlightInv => FlightInv'
           /\ SoloInv => SoloInv'
           /\ Cover => Cover'
           /\ SelectionSafe => SelectionSafe'
<1>1. RequestInv => RequestInv'
  BY DEF RequestInv, Finite, Distinct, LeavesSent, FirstAsk
<1>2. VisitsEven => VisitsEven'
  <2>1. \A x : Rising(x)' = Rising(x) /\ KidsIn(x)' = KidsIn(x)
    BY DEF Rising, KidsIn, Father
  <2>2. VisitsOf' = VisitsOf
    BY DEF VisitsOf
  <2> QED
    BY <2>1, <2>2 DEF VisitsEven
<1>3. FlightInv => FlightInv'
  BY RepeatsSame DEF FlightInv, PrefixClosed, Repetitions, InOrder, Reached, AfterElders,
     Repeats, Line, Kid
<1>4. SoloInv => SoloInv'
  BY DEF SoloInv, SoloNodes, SoloJobs, SoloThread
<1>5. Cover => Cover'
  <2>1. \A k : UnderWay(k)' = UnderWay(k)
    BY DEF UnderWay, Walkers, OnWay, OwedAt, Owed, InDebt, DebtOf, Father
  <2> QED
    BY <2>1 DEF Cover, CoverAt
<1>6. SelectionSafe => SelectionSafe'
  BY DEF SelectionSafe, Crashed
<1> QED
  BY <1>1, <1>2, <1>3, <1>4, <1>5, <1>6

LEMMA GameRequests == GameInv /\ RequestInv /\ [GameNext]_allVars => RequestInv'
<1> SUFFICES ASSUME GameInv, RequestInv, [GameNext]_allVars PROVE RequestInv'
  OBVIOUS
<1>1. CASE SearchStep
  BY <1>1, SearchSteps, StepRequests DEF GameInv
<1> QED
  BY <1>1, GameSteps, HandedRequests, StillKeeps

LEMMA GameVisits == GameInv /\ RequestInv /\ VisitsEven /\ [GameNext]_allVars => VisitsEven'
<1> SUFFICES ASSUME GameInv, RequestInv, VisitsEven, [GameNext]_allVars PROVE VisitsEven'
  OBVIOUS
<1>1. RequestInv' /\ GameInv'
  BY GameRequests, GameStepInv
<1>2. IsFiniteSet(DOMAIN tree') /\ TreeInv'
  BY <1>1 DEF RequestInv, Finite, GameInv, IndInv
<1>3. CASE SearchStep
  BY <1>3, SearchSteps, StepVisits DEF GameInv
<1> QED
  BY <1>2, <1>3, GameSteps, HandedVisits, StillKeeps

LEMMA GameFlight == GameInv /\ FlightInv /\ [GameNext]_allVars => FlightInv'
<1> SUFFICES ASSUME GameInv, FlightInv, [GameNext]_allVars PROVE FlightInv'
  OBVIOUS
<1>1. CASE SearchStep
  BY <1>1, SearchSteps, StepFlight DEF GameInv
<1> QED
  BY <1>1, GameSteps, HandedFlight, StillKeeps

\* One thread.
SoloGame == RequestInv /\ SoloInv /\ FlightInv /\ Cover /\ SelectionSafe

LEMMA GameSolo == OneThread /\ GameInv /\ SoloGame /\ [GameNext]_allVars => SoloGame'
<1> SUFFICES ASSUME OneThread, GameInv, SoloGame, [GameNext]_allVars PROVE SoloGame'
  OBVIOUS
<1>1. RequestInv' /\ FlightInv'
  BY GameRequests, GameFlight DEF SoloGame
<1>2. CASE SearchStep
  <2>1. IndInv /\ RequestInv /\ SoloInv /\ FlightInv /\ PrefixClosed /\ Cover /\ SelectionSafe
    BY DEF GameInv, SoloGame, FlightInv
  <2>2. [Next]_vars
    BY <1>2, SearchSteps
  <2> QED
    BY <1>1, <2>1, <2>2, StepSolo, StepCover, StepSafe DEF SoloGame
<1>3. CASE UNCHANGED <<tree, played, pc, at, jobs>>
  BY <1>3, StillKeeps DEF SoloGame
<1>4. CASE HandedOver
  <2>1. SoloInv' /\ Cover'
    BY <1>4, HandedSolo, HandedCover DEF SoloGame, GameInv, RequestInv
  <2>2. SelectionSafe'
    BY <1>4 DEF HandedOver, AtRest, SelectionSafe, Crashed
  <2> QED
    BY <1>1, <2>1, <2>2 DEF SoloGame
<1> QED
  BY <1>2, <1>3, <1>4, GameSteps

LEMMA GameBegins ==
    GameInit => RequestInv /\ VisitsEven /\ FlightInv /\ SoloInv /\ Cover /\ SelectionSafe
<1> SUFFICES ASSUME GameInit
             PROVE  RequestInv /\ VisitsEven /\ FlightInv /\ SoloInv /\ Cover /\ SelectionSafe
  OBVIOUS
<1>1. /\ DOMAIN tree = {Root} /\ tree[Root] = NewNode /\ AtRest
      /\ \A t \in Threads : pc[t] = "over"
  BY DEF GameInit, NewTree, AtRest
<1>2. RequestInv
  BY GameInitCounts DEF CountInv
<1>3. VisitsEven
  <2>1. KidsIn(Root) = {} /\ tree[Root].total_n = 0 /\ Rising(Root) = 0
    BY <1>1, RestRising DEF KidsIn, NewNode
  <2> QED
    BY <1>1, <2>1, SumEmpty DEF VisitsEven
<1>4. FlightInv
  BY <1>1, PrefixRoot DEF FlightInv, PrefixClosed, Repetitions, InOrder, NewNode
<1>5. SoloInv
  BY <1>1 DEF AtRest, SoloInv, SoloNodes, SoloJobs, SoloThread, NewNode
<1>6. Cover /\ SelectionSafe
  BY <1>1 DEF Cover, SelectionSafe, Crashed
<1> QED
  BY <1>2, <1>3, <1>4, <1>5, <1>6

\* Over a whole game, for any number of threads: the part of the tree that a move
\* hands over keeps its accounts, so that total_n of every node is still the
\* visits of its edges, those of earlier searches included (root.swap,
\* mcts_back_update).
THEOREM GamesAddUp == GameSpec => []VisitsAddUp
<1>1. GameInit => GameInv /\ RequestInv /\ VisitsEven
  BY GameInitInv, GameBegins
<1>2. GameInv /\ RequestInv /\ VisitsEven /\ [GameNext]_allVars
        => GameInv' /\ RequestInv' /\ VisitsEven'
  BY GameStepInv, GameRequests, GameVisits
<1>3. RequestInv /\ VisitsEven => VisitsAddUp
  BY EvenAddsUp DEF RequestInv
<1> QED
  BY <1>1, <1>2, <1>3, PTL DEF GameSpec

\* Over a whole game, for any number of threads, no two children of a node wait
\* for their first visit: a hand-over leaves nodes that were visited in the order
\* of their siblings, and lines of moves that mean what they meant.
THEOREM GamesTakeTurns == GameSpec => []OneKidInFlight
<1>1. GameInit => GameInv /\ FlightInv
  BY GameInitInv, GameBegins
<1>2. GameInv /\ FlightInv /\ [GameNext]_allVars => GameInv' /\ FlightInv'
  BY GameStepInv, GameFlight
<1>3. GameInv /\ FlightInv => OneKidInFlight
  BY FlightMeans DEF GameInv
<1> QED
  BY <1>1, <1>2, <1>3, PTL DEF GameSpec

\* With one search thread the virtual losses of a handed-over tree are covered, and
\* a leaf of it is asked for once, whatever was pruned, repeated or visited late in
\* the searches before.
THEOREM GamesCoverLoss == Cardinality(Threads) = 1 => (GameSpec => [](SentOnce /\ LossCovered))
<1> SUFFICES ASSUME OneThread PROVE GameSpec => [](SentOnce /\ LossCovered)
  BY DEF OneThread
<1>1. GameInit => GameInv /\ SoloGame
  BY GameInitInv, GameBegins DEF SoloGame
<1>2. GameInv /\ SoloGame /\ [GameNext]_allVars => GameInv' /\ SoloGame'
  BY GameStepInv, GameSolo
<1>3. GameInv /\ SoloGame => SentOnce /\ LossCovered
  BY SoloMeans, CoverMeans DEF GameInv, SoloGame, RequestInv
<1> QED
  BY <1>1, <1>2, <1>3, PTL DEF GameSpec

\* With one search thread no search of a game runs into a node without a best child
\* (mcts_select_path), however the searches before have left the tree.
THEOREM GamesSelect == Cardinality(Threads) = 1 => (GameSpec => []SelectionSafe)
<1> SUFFICES ASSUME OneThread PROVE GameSpec => []SelectionSafe
  BY DEF OneThread
<1>1. GameInit => GameInv /\ SoloGame
  BY GameInitInv, GameBegins DEF SoloGame
<1>2. GameInv /\ SoloGame /\ [GameNext]_allVars => GameInv' /\ SoloGame'
  BY GameStepInv, GameSolo
<1>3. SoloGame => SelectionSafe
  BY DEF SoloGame
<1> QED
  BY <1>1, <1>2, <1>3, PTL DEF GameSpec
==============================================================================
