----------------------------- MODULE SearchProofs -----------------------------
(***************************************************************************)
(* Proofs about Search for any threads, width, moves and bounds.           *)
(*                                                                         *)
(* The inductive invariant IndInv has the types and says that a node with  *)
(* children has all of them in the tree, that the father of a node is      *)
(* there and has made the vector the node is in, and that a callback past  *)
(* its first step has given its leaf children.                             *)
(***************************************************************************)
EXTENDS Search, FiniteSetTheorems, TLAPS

Steps == {"top", "wait", "select", "crash", "leaf", "test", "send",
          "late", "edge", "total", "poll", "over"}
JobSteps == {"asked", "aside", "flag", "read", "edge", "total", "end"}

NodesType ==
    /\ DOMAIN tree \subseteq Paths /\ Root \in DOMAIN tree
    /\ tree \in [DOMAIN tree -> NodeType]

ThreadsType ==
    /\ pc \in [Threads -> Steps]
    /\ at \in [Threads -> DOMAIN tree]
    /\ counted \in [Threads -> Nat] /\ rounds \in [Threads -> Nat]

JobsType == jobs \subseteq [leaf : DOMAIN tree, by : Threads, now : DOMAIN tree,
                            invalid : Nat, failed : 0..MaxFails, step : JobSteps]

GameType == played \in Seq(Moves) /\ own \in BOOLEAN /\ above \in BOOLEAN

Family ==
    /\ \A x \in DOMAIN tree : tree[x].gen > 0 => KidsOf(x, tree[x].gen) \subseteq DOMAIN tree
    /\ \A x \in DOMAIN tree \ {Root} :
          Father(x) \in DOMAIN tree /\ x[Len(x)][2] <= tree[Father(x)].gen

TreeInv == NodesType /\ Family /\ ReadyHasKids

JobShape ==
    \A j \in jobs : j.step \notin {"asked", "aside"} => tree[j.leaf].gen > 0

IndInv == TreeInv /\ ThreadsType /\ JobsType /\ JobShape /\ GameType

------------------------------------------------------------------------------
(* Paths                                                                    *)

\* A child's path is a path, its father is its father, and its last step is
\* the one to the child.
LEMMA KidPath ==
    ASSUME NEW x \in Paths, NEW i \in Moves, NEW g \in Nat \ {0}
    PROVE  /\ Append(x, <<i, g>>) \in Paths /\ Append(x, <<i, g>>) # Root
           /\ Father(Append(x, <<i, g>>)) = x
           /\ Append(x, <<i, g>>)[Len(Append(x, <<i, g>>))] = <<i, g>>
<1> DEFINE k == Append(x, <<i, g>>)
<1>1. <<i, g>> \in Moves \X (Nat \ {0})
  OBVIOUS
<1>2. k \in Paths /\ Len(k) = Len(x) + 1
  BY <1>1 DEF Paths
<1>3. k[Len(k)] = <<i, g>>
  BY <1>1, <1>2 DEF Paths
<1>4. Father(k) = x
  BY <1>1, <1>2 DEF Paths, Father, Front
<1>5. k # Root
  BY <1>2 DEF Root, Paths
<1> QED
  BY <1>2, <1>3, <1>4, <1>5

\* The paths of the children are told apart by what made them.
LEMMA KidsApart ==
    ASSUME NEW x \in Paths, NEW y \in Paths, NEW g \in Nat \ {0}, NEW h \in Nat \ {0},
           NEW k \in KidsOf(x, g), k \in KidsOf(y, h)
    PROVE  x = y /\ g = h
<1>1. PICK i \in Moves : k = Append(x, <<i, g>>)
  BY DEF KidsOf
<1>2. PICK l \in Moves : k = Append(y, <<l, h>>)
  BY DEF KidsOf
<1>a. Father(k) = x /\ k[Len(k)] = <<i, g>>
  BY <1>1, KidPath
<1>b. Father(k) = y /\ k[Len(k)] = <<l, h>>
  BY <1>2, KidPath
<1>3. x = y
  BY <1>a, <1>b
<1>4. <<i, g>> = <<l, h>>
  BY <1>a, <1>b
<1> QED
  BY <1>3, <1>4

------------------------------------------------------------------------------
(* Steps that keep the shape of the tree                                    *)

Kept ==
    /\ DOMAIN tree' = DOMAIN tree
    /\ tree' \in [DOMAIN tree -> NodeType]
    /\ \A x \in DOMAIN tree : /\ tree'[x].gen = tree[x].gen
                              /\ tree'[x].eval_ready = tree[x].eval_ready

LEMMA KeptInv ==
    ASSUME TreeInv, Kept
    PROVE  TreeInv'
<1>1. NodesType'
  BY DEF TreeInv, NodesType, Kept
<1>2. Family'
  <2>1. ASSUME NEW x \in DOMAIN tree', tree'[x].gen > 0
        PROVE  KidsOf(x, tree'[x].gen) \subseteq DOMAIN tree'
    BY <2>1 DEF TreeInv, Family, Kept
  <2>2. ASSUME NEW x \in DOMAIN tree' \ {Root}
        PROVE  Father(x) \in DOMAIN tree' /\ x[Len(x)][2] <= tree'[Father(x)].gen
    BY <2>2 DEF TreeInv, Family, Kept
  <2> QED
    BY <2>1, <2>2 DEF Family, KidsOf, Father
<1>3. ReadyHasKids'
  BY DEF TreeInv, ReadyHasKids, Kept
<1> QED
  BY <1>1, <1>2, <1>3 DEF TreeInv

\* Updates of a field that is neither gen nor eval_ready.
LEMMA SameTree ==
    ASSUME TreeInv, UNCHANGED tree
    PROVE  Kept
BY DEF TreeInv, NodesType, Kept

LEMMA OneNode ==
    ASSUME TreeInv, NEW x \in DOMAIN tree, NEW v \in NodeType,
           v.gen = tree[x].gen, v.eval_ready = tree[x].eval_ready,
           tree' = [tree EXCEPT ![x] = v]
    PROVE  Kept
BY DEF TreeInv, NodesType, Kept

LEMMA VisitedNode ==
    ASSUME NEW r \in NodeType, NEW a \in Int, NEW b \in Nat
    PROVE  LET v == [r EXCEPT !.vl = a, !.n = b]
           IN  v \in NodeType /\ v.gen = r.gen /\ v.eval_ready = r.eval_ready
BY DEF NodeType

LEMMA VisitKeeps ==
    ASSUME TreeInv, NEW x \in DOMAIN tree, NEW invalid \in Nat, UpdateEdge(x, invalid)
    PROVE  Kept
<1>1. TakenBack(invalid) \in Int
  BY SearchAssumption DEF TakenBack
<1>2. tree[x] \in NodeType /\ tree[x].n \in Nat /\ tree[x].vl \in Int
  BY DEF TreeInv, NodesType, NodeType
<1> DEFINE v == [tree[x] EXCEPT !.vl = tree[x].vl - TakenBack(invalid), !.n = tree[x].n + 1]
<1>3. tree' = [tree EXCEPT ![x] = v]
  BY DEF UpdateEdge, TreeInv, NodesType
<1>4. tree[x].vl - TakenBack(invalid) \in Int /\ tree[x].n + 1 \in Nat
  BY <1>1, <1>2
<1>5. v \in NodeType /\ v.gen = tree[x].gen /\ v.eval_ready = tree[x].eval_ready
  BY <1>2, <1>4, VisitedNode
<1> HIDE DEF v
<1> QED
  BY <1>3, <1>5, OneNode

LEMMA TotalKeeps ==
    ASSUME TreeInv, NEW x \in DOMAIN tree, UpdateTotal(x)
    PROVE  Kept
<1>1. CASE x = Root
  BY <1>1, SameTree DEF UpdateTotal
<1>2. CASE x # Root
  <2>1. Father(x) \in DOMAIN tree
    BY <1>2 DEF TreeInv, Family
  <2>2. tree' = [tree EXCEPT ![Father(x)].total_n = @ + 1]
    BY <1>2 DEF UpdateTotal
  <2> QED
    BY <2>1, <2>2 DEF TreeInv, NodesType, NodeType, Kept
<1> QED
  BY <1>1, <1>2

------------------------------------------------------------------------------
(* Steps of a thread                                                        *)

\* The child that a ready node selects is in the tree.
LEMMA KidThere ==
    ASSUME TreeInv, NEW x \in DOMAIN tree, tree[x].eval_ready, NEW i \in Moves
    PROVE  Kid(x, i) \in DOMAIN tree
BY DEF TreeInv, Family, ReadyHasKids, Kid, KidsOf

LEMMA FatherThere ==
    ASSUME TreeInv, NEW x \in DOMAIN tree, x # Root
    PROVE  Father(x) \in DOMAIN tree
BY DEF TreeInv, Family

\* One field of one node changes.
LEMMA LossSet ==
    ASSUME NEW r \in NodeType, NEW a \in Int
    PROVE  /\ [r EXCEPT !.vl = a] \in NodeType
           /\ [r EXCEPT !.vl = a].gen = r.gen /\ [r EXCEPT !.vl = a].eval_ready = r.eval_ready
BY DEF NodeType

LEMMA RepetitionSet ==
    ASSUME NEW r \in NodeType, NEW b \in BOOLEAN
    PROVE  /\ [r EXCEPT !.is_repetition = b] \in NodeType
           /\ [r EXCEPT !.is_repetition = b].gen = r.gen
           /\ [r EXCEPT !.is_repetition = b].eval_ready = r.eval_ready
BY DEF NodeType

LEMMA SentSet ==
    ASSUME NEW r \in NodeType
    PROVE  /\ [r EXCEPT !.rq_sent = TRUE] \in NodeType
           /\ [r EXCEPT !.rq_sent = TRUE].gen = r.gen
           /\ [r EXCEPT !.rq_sent = TRUE].eval_ready = r.eval_ready
BY DEF NodeType

LEMMA InvalidSet ==
    ASSUME NEW r \in NodeType, NEW m \in Nat
    PROVE  /\ [r EXCEPT !.invalid_visit = m] \in NodeType
           /\ [r EXCEPT !.invalid_visit = m].gen = r.gen
           /\ [r EXCEPT !.invalid_visit = m].eval_ready = r.eval_ready
BY DEF NodeType

LEMMA NodeFields ==
    ASSUME TreeInv, NEW x \in DOMAIN tree
    PROVE  /\ tree[x] \in NodeType /\ tree[x].vl \in Int /\ tree[x].invalid_visit \in Nat
           /\ tree[x].gen \in Nat
BY DEF TreeInv, NodesType, NodeType

LEMMA ThreadKeeps ==
    ASSUME IndInv, NEW t \in Threads, ThreadStep(t)
    PROVE  Kept
<1>1. TreeInv /\ at[t] \in DOMAIN tree
  BY DEF IndInv, ThreadsType
<1>2. CASE UNCHANGED tree
  BY <1>1, <1>2, SameTree
<1>3. CASE Select(t)
  <2>1. PICK i \in Moves : tree' = [tree EXCEPT ![Kid(at[t], i)].vl = @ + Loss]
    BY <1>3 DEF Select, Scored
  <2>2. Kid(at[t], i) \in DOMAIN tree
    BY <1>1, <1>3, KidThere DEF Select
  <2> DEFINE x == Kid(at[t], i)
             v == [tree[x] EXCEPT !.vl = tree[x].vl + Loss]
  <2>3. tree' = [tree EXCEPT ![x] = v]
    BY <2>1
  <2>4. tree[x] \in NodeType /\ tree[x].vl + Loss \in Int
    BY <1>1, <2>2, NodeFields, SearchAssumption
  <2>5. v \in NodeType /\ v.gen = tree[x].gen /\ v.eval_ready = tree[x].eval_ready
    BY <2>4, LossSet
  <2> HIDE DEF v, x
  <2> QED
    BY <1>1, <2>2, <2>3, <2>5, OneNode DEF x
<1>4. CASE LeafRepeats(t) \/ LeafDecided(t) \/ LeafOpen(t)
  <2>1. PICK b \in BOOLEAN : tree' = [tree EXCEPT ![at[t]].is_repetition = b]
    BY <1>4 DEF LeafRepeats, LeafDecided, LeafOpen
  <2> DEFINE x == at[t]
             v == [tree[x] EXCEPT !.is_repetition = b]
  <2>2. tree' = [tree EXCEPT ![x] = v]
    BY <2>1
  <2>3. v \in NodeType /\ v.gen = tree[x].gen /\ v.eval_ready = tree[x].eval_ready
    BY <1>1, NodeFields, RepetitionSet
  <2> HIDE DEF v
  <2> QED
    BY <1>1, <2>2, <2>3, OneNode
<1>5. CASE Send(t)
  <2> DEFINE x == at[t]
             v == [tree[x] EXCEPT !.rq_sent = TRUE]
  <2>1. tree' = [tree EXCEPT ![x] = v]
    BY <1>5 DEF Send
  <2>2. v \in NodeType /\ v.gen = tree[x].gen /\ v.eval_ready = tree[x].eval_ready
    BY <1>1, NodeFields, SentSet
  <2> HIDE DEF v
  <2> QED
    BY <1>1, <2>1, <2>2, OneNode
<1>6. CASE Late(t)
  <2> DEFINE x == at[t]
             v == [tree[x] EXCEPT !.invalid_visit = tree[x].invalid_visit + 1]
  <2>1. tree' = [tree EXCEPT ![x] = v]
    BY <1>6 DEF Late
  <2>2. tree[x] \in NodeType /\ tree[x].invalid_visit + 1 \in Nat
    BY <1>1, NodeFields
  <2>3. v \in NodeType /\ v.gen = tree[x].gen /\ v.eval_ready = tree[x].eval_ready
    BY <2>2, InvalidSet
  <2> HIDE DEF v
  <2> QED
    BY <1>1, <2>1, <2>3, OneNode
<1>7. CASE ThreadEdge(t)
  BY <1>1, <1>7, VisitKeeps DEF ThreadEdge
<1>8. CASE ThreadTotal(t)
  BY <1>1, <1>8, TotalKeeps DEF ThreadTotal
<1> QED
  BY <1>2, <1>3, <1>4, <1>5, <1>6, <1>7, <1>8
  DEF ThreadStep, Break, Round, AwaitRoot, SelectEnds, SelectNothing, Test, Over

LEMMA ThreadTypes ==
    ASSUME IndInv, NEW t \in Threads, ThreadStep(t)
    PROVE  ThreadsType'
<1>1. DOMAIN tree' = DOMAIN tree
  BY ThreadKeeps DEF Kept
<1>2. TreeInv /\ ThreadsType /\ at[t] \in DOMAIN tree /\ Root \in DOMAIN tree
  BY DEF IndInv, ThreadsType, TreeInv, NodesType
<1>3. pc' \in [Threads -> Steps]
  BY <1>2 DEF ThreadStep, ThreadsType, Steps, Go, Again, Break, Round, AwaitRoot, Select,
     SelectEnds, SelectNothing, LeafRepeats, LeafDecided, LeafOpen, Test, Send, Late,
     ThreadEdge, ThreadTotal, Over
<1>4. counted' \in [Threads -> Nat] /\ rounds' \in [Threads -> Nat]
  BY <1>2 DEF ThreadStep, ThreadsType, Break, Round, AwaitRoot, Select,
     SelectEnds, SelectNothing, LeafRepeats, LeafDecided, LeafOpen, Test, Send, Late,
     ThreadEdge, ThreadTotal, Over
<1>5. at' \in [Threads -> DOMAIN tree]
  <2>1. CASE Select(t)
    <3>1. PICK i \in Moves : at' = [at EXCEPT ![t] = Kid(at[t], i)]
      BY <2>1 DEF Select, Scored
    <3>2. Kid(at[t], i) \in DOMAIN tree
      BY <1>2, <2>1, KidThere DEF Select
    <3> QED
      BY <1>2, <3>1, <3>2 DEF ThreadsType
  <2>2. CASE ThreadTotal(t)
    <3>1. CASE GoesOn(at[t])
      <4>1. Father(at[t]) \in DOMAIN tree
        BY <1>2, <3>1, FatherThere DEF GoesOn
      <4> QED
        BY <1>2, <2>2, <3>1, <4>1 DEF ThreadTotal, ThreadsType
    <3>2. CASE ~GoesOn(at[t])
      BY <1>2, <2>2, <3>2 DEF ThreadTotal, ThreadsType, Again
    <3> QED
      BY <3>1, <3>2
  <2> QED
    BY <1>2, <2>1, <2>2 DEF ThreadStep, ThreadsType, Again, Break, Round, AwaitRoot,
       SelectEnds, SelectNothing, LeafRepeats, LeafDecided, LeafOpen, Test, Send, Late,
       ThreadEdge, Over
<1> QED
  BY <1>1, <1>3, <1>4, <1>5 DEF ThreadsType

\* A thread leaves the jobs alone, but to add one that has just been asked.
LEMMA ThreadJobs ==
    ASSUME IndInv, NEW t \in Threads, ThreadStep(t)
    PROVE  JobsType' /\ JobShape'
<1>1. Kept
  BY ThreadKeeps
<1>2. JobsType /\ JobShape /\ at[t] \in DOMAIN tree
  BY DEF IndInv, ThreadsType
<1>3. CASE UNCHANGED jobs
  BY <1>1, <1>2, <1>3 DEF Kept, JobsType, JobShape
<1>4. CASE Send(t)
  <2> DEFINE j == [leaf |-> at[t], by |-> t, step |-> "asked", now |-> at[t],
                   invalid |-> 0, failed |-> 0]
  <2>1. jobs' = jobs \cup {j}
    BY <1>4 DEF Send
  <2>2. j \in [leaf : DOMAIN tree, by : Threads, now : DOMAIN tree, invalid : Nat,
               failed : 0..MaxFails, step : JobSteps]
    BY <1>2, SearchAssumption DEF JobSteps
  <2>3. JobsType'
    BY <1>1, <1>2, <2>1, <2>2 DEF JobsType, Kept
  <2>4. JobShape'
    <3> SUFFICES ASSUME NEW k \in jobs', k.step \notin {"asked", "aside"}
                 PROVE  tree'[k.leaf].gen > 0
      BY DEF JobShape
    <3>1. k \in jobs
      BY <2>1
    <3> QED
      BY <1>1, <1>2, <3>1 DEF JobShape, JobsType, Kept
  <2> QED
    BY <2>3, <2>4
<1> QED
  BY <1>3, <1>4 DEF ThreadStep, Break, Round, AwaitRoot, Select, SelectEnds, SelectNothing,
     LeafRepeats, LeafDecided, LeafOpen, Test, Late, ThreadEdge, ThreadTotal, Over

------------------------------------------------------------------------------
(* Steps of a callback                                                      *)

\* No node goes, and no vector of children is taken back.
Grown ==
    \A x \in DOMAIN tree :
        x \in DOMAIN tree' /\ tree'[x].gen \in Nat /\ tree'[x].gen >= tree[x].gen

LEMMA KeptGrown ==
    ASSUME TreeInv, Kept
    PROVE  Grown
BY NodeFields DEF Grown, Kept

LEMMA GrownThreads ==
    ASSUME IndInv, Grown, UNCHANGED <<pc, at, counted, rounds>>
    PROVE  ThreadsType'
BY DEF IndInv, ThreadsType, Grown

JobType == [leaf : DOMAIN tree, by : Threads, now : DOMAIN tree, invalid : Nat,
            failed : 0..MaxFails, step : JobSteps]

\* A job that changes keeps its leaf; once past its first step it has children.
LEMMA GrownJobs ==
    ASSUME IndInv, Grown, NEW j \in jobs, NEW k \in JobType, Becomes(j, k),
           k.step \notin {"asked", "aside"} => tree'[k.leaf].gen > 0
    PROVE  JobsType' /\ JobShape'
<1>1. jobs' = (jobs \ {j}) \cup {k}
  BY DEF Becomes
<1>2. DOMAIN tree \subseteq DOMAIN tree'
  BY DEF Grown
<1>3. jobs' \subseteq JobType
  BY <1>1 DEF IndInv, JobsType, JobType
<1>4. JobsType'
  BY <1>2, <1>3 DEF JobsType, JobType
<1>5. ASSUME NEW m \in jobs', m.step \notin {"asked", "aside"}
      PROVE  tree'[m.leaf].gen > 0
  <2>1. CASE m = k
    BY <1>5, <2>1
  <2>2. CASE m # k
    <3>1. m \in jobs /\ m.leaf \in DOMAIN tree
      BY <1>1, <2>2 DEF IndInv, JobsType
    <3>2. tree[m.leaf].gen > 0
      BY <1>5, <3>1 DEF IndInv, JobShape
    <3>3. /\ tree'[m.leaf].gen >= tree[m.leaf].gen
          /\ tree[m.leaf].gen \in Nat /\ tree'[m.leaf].gen \in Nat
      BY <3>1, NodeFields DEF Grown, IndInv
    <3> QED
      BY <3>2, <3>3
  <2> QED
    BY <2>1, <2>2
<1> QED
  BY <1>4, <1>5 DEF JobShape

\* The nodes of a new vector are children of the leaf that no one has made.
LEMMA KidsAreNew ==
    ASSUME TreeInv, NEW x \in DOMAIN tree, NEW k \in NewKids(x)
    PROVE  /\ k \in Paths /\ k # Root /\ Father(k) = x /\ k[Len(k)][2] = tree[x].gen + 1
           /\ k \notin DOMAIN tree
<1> DEFINE g == tree[x].gen
<1>1. x \in Paths /\ g \in Nat
  BY NodeFields DEF TreeInv, NodesType
<1>2. PICK i \in Moves : k = Append(x, <<i, g + 1>>)
  BY DEF KidsOf, NewKids
<1>3. g + 1 \in Nat \ {0}
  BY <1>1
<1>4. k \in Paths /\ k # Root /\ Father(k) = x /\ k[Len(k)] = <<i, g + 1>>
  BY <1>1, <1>2, <1>3, KidPath
<1>5. k[Len(k)][2] = g + 1
  BY <1>4
<1>6. ASSUME k \in DOMAIN tree
      PROVE  FALSE
  <2>1. k[Len(k)][2] <= tree[Father(k)].gen
    BY <1>4, <1>6 DEF TreeInv, Family
  <2>2. g + 1 <= g
    BY <1>4, <1>5, <2>1
  <2> QED
    BY <1>1, <2>2
<1> QED
  BY <1>4, <1>5, <1>6

LEMMA ExpandKeeps ==
    ASSUME IndInv, NEW j \in jobs, Expand(j)
    PROVE  TreeInv' /\ Grown /\ tree'[j.leaf].gen > 0
<1> DEFINE x == j.leaf
           g == tree[x].gen
           kids == KidsOf(x, g + 1)
<1>1. TreeInv /\ x \in DOMAIN tree /\ x \in Paths /\ g \in Nat /\ tree[x] \in NodeType
  BY NodeFields DEF IndInv, JobsType, TreeInv, NodesType
<1>2. tree' = [y \in DOMAIN tree \cup kids |->
                  IF y \in kids THEN NewNode
                  ELSE IF y = x THEN [tree[y] EXCEPT !.gen = @ + 1]
                  ELSE tree[y]]
  BY DEF Expand, NewKids
<1>3. ASSUME NEW k \in kids
      PROVE  k \in Paths /\ k # Root /\ Father(k) = x /\ k[Len(k)][2] = g + 1
  BY <1>1, KidsAreNew DEF NewKids
<1>4. ASSUME NEW k \in kids
      PROVE  k \notin DOMAIN tree
  BY <1>1, KidsAreNew DEF NewKids
<1> HIDE DEF kids, g
<1>5. DOMAIN tree' = DOMAIN tree \cup kids
  BY <1>2
<1>6. ASSUME NEW k \in kids
      PROVE  tree'[k] = NewNode
  BY <1>2
<1>7. tree'[x] = [tree[x] EXCEPT !.gen = g + 1]
  BY <1>1, <1>2, <1>4 DEF g
<1>8. ASSUME NEW y \in DOMAIN tree, y # x
      PROVE  tree'[y] = tree[y]
  BY <1>2, <1>4, <1>8
<1>9. tree'[x] \in NodeType /\ tree'[x].gen = g + 1 /\ tree'[x].eval_ready = tree[x].eval_ready
  BY <1>1, <1>7 DEF NodeType
<1>10. NewNode \in NodeType /\ NewNode.gen = 0 /\ NewNode.eval_ready = FALSE
  BY DEF NewNode, NodeType
<1>11. NodesType'
  <2>1. tree' \in [DOMAIN tree' -> NodeType]
    <3>1. ASSUME NEW y \in DOMAIN tree'
          PROVE  tree'[y] \in NodeType
      <4>1. CASE y \in kids
        BY <1>6, <1>10, <4>1
      <4>2. CASE y = x
        BY <1>9, <4>2
      <4>3. CASE y \in DOMAIN tree /\ y # x
        BY <1>1, <1>8, <4>3, NodeFields
      <4> QED
        BY <1>5, <4>1, <4>2, <4>3
    <3> QED
      BY <1>2, <1>5, <3>1
  <2> QED
    BY <1>1, <1>3, <1>5, <2>1 DEF TreeInv, NodesType
<1>12. Grown
  <2> SUFFICES ASSUME NEW y \in DOMAIN tree
               PROVE  /\ y \in DOMAIN tree' /\ tree'[y].gen \in Nat
                      /\ tree'[y].gen >= tree[y].gen
    BY DEF Grown
  <2>1. CASE y = x
    BY <1>1, <1>5, <1>9, <2>1 DEF g
  <2>2. CASE y # x
    <3>1. tree'[y].gen = tree[y].gen /\ tree[y].gen \in Nat
      BY <1>1, <1>8, <2>2, NodeFields
    <3> QED
      BY <1>5, <3>1
  <2> QED
    BY <2>1, <2>2
<1>13. Family'
  <2>1. ASSUME NEW y \in DOMAIN tree', tree'[y].gen > 0
        PROVE  KidsOf(y, tree'[y].gen) \subseteq DOMAIN tree'
    <3>1. CASE y \in kids
      BY <1>6, <1>10, <2>1, <3>1
    <3>2. CASE y = x
      BY <1>5, <1>9, <3>2 DEF kids
    <3>3. CASE y \in DOMAIN tree /\ y # x
      BY <1>1, <1>5, <1>8, <2>1, <3>3 DEF TreeInv, Family
    <3> QED
      BY <1>5, <3>1, <3>2, <3>3
  <2>2. ASSUME NEW y \in DOMAIN tree' \ {Root}
        PROVE  Father(y) \in DOMAIN tree' /\ y[Len(y)][2] <= tree'[Father(y)].gen
    <3>1. CASE y \in kids
      BY <1>1, <1>3, <1>5, <1>9, <3>1
    <3>2. CASE y \in DOMAIN tree
      <4>1. Father(y) \in DOMAIN tree /\ y[Len(y)][2] <= tree[Father(y)].gen
        BY <1>1, <2>2, <3>2 DEF TreeInv, Family
      <4>2. y[Len(y)][2] \in Nat
        BY <1>1, <2>2, <3>2 DEF TreeInv, NodesType, Paths, Root
      <4>3. tree[Father(y)].gen \in Nat /\ tree'[Father(y)].gen \in Nat
        BY <1>1, <1>5, <1>11, <4>1, NodeFields DEF NodesType, NodeType
      <4>4. tree'[Father(y)].gen >= tree[Father(y)].gen
        BY <1>12, <4>1 DEF Grown
      <4> QED
        BY <1>5, <4>1, <4>2, <4>3, <4>4
    <3> QED
      BY <1>5, <3>1, <3>2
  <2> QED
    BY <2>1, <2>2 DEF Family, KidsOf, Father
<1>14. ReadyHasKids'
  <2> SUFFICES ASSUME NEW y \in DOMAIN tree', tree'[y].eval_ready
               PROVE  tree'[y].gen > 0
    BY DEF ReadyHasKids
  <2>1. CASE y \in kids
    BY <1>6, <1>10, <2>1
  <2>2. CASE y = x
    BY <1>1, <1>9, <2>2
  <2>3. CASE y \in DOMAIN tree /\ y # x
    BY <1>1, <1>8, <2>3 DEF TreeInv, ReadyHasKids
  <2> QED
    BY <1>5, <2>1, <2>2, <2>3
<1> QED
  BY <1>1, <1>9, <1>11, <1>12, <1>13, <1>14 DEF TreeInv

LEMMA ReadyKeeps ==
    ASSUME IndInv, NEW j \in jobs, SetReady(j)
    PROVE  TreeInv' /\ Grown /\ tree'[j.leaf].gen > 0
<1> DEFINE x == j.leaf
<1>1. TreeInv /\ x \in DOMAIN tree /\ tree[x].gen > 0
  BY DEF IndInv, JobsType, JobShape, SetReady
<1>2. tree' = [tree EXCEPT ![x].eval_ready = TRUE]
  BY DEF SetReady
<1> HIDE DEF x
<1>3. DOMAIN tree' = DOMAIN tree /\ tree' \in [DOMAIN tree -> NodeType]
  BY <1>1, <1>2 DEF TreeInv, NodesType, NodeType
<1>4. ASSUME NEW y \in DOMAIN tree
      PROVE  tree'[y].gen = tree[y].gen
  BY <1>1, <1>2 DEF TreeInv, NodesType, NodeType
<1>5. Grown
  BY <1>1, <1>3, <1>4, NodeFields DEF Grown
<1>6. NodesType'
  BY <1>1, <1>3 DEF TreeInv, NodesType
<1>7. Family'
  BY <1>1, <1>3, <1>4 DEF TreeInv, Family, KidsOf, Father
<1>8. ReadyHasKids'
  <2> SUFFICES ASSUME NEW y \in DOMAIN tree, tree'[y].eval_ready
               PROVE  tree[y].gen > 0
    BY <1>3, <1>4 DEF ReadyHasKids
  <2>1. CASE y = x
    BY <1>1, <2>1
  <2>2. CASE y # x
    BY <1>1, <1>2, <2>2 DEF TreeInv, ReadyHasKids
  <2> QED
    BY <2>1, <2>2
<1> QED
  BY <1>1, <1>4, <1>5, <1>6, <1>7, <1>8 DEF TreeInv, x

LEMMA CallbackKeeps ==
    ASSUME IndInv, NEW j \in jobs, CallbackStep(j) \/ Aside(j) \/ Retry(j)
    PROVE  IndInv'
<1>1. TreeInv /\ j \in JobType /\ GameType
  BY DEF IndInv, JobsType, JobType
<1>2. j.leaf \in DOMAIN tree /\ j.now \in DOMAIN tree /\ j.invalid \in Nat
  BY <1>1 DEF JobType
<1>3. UNCHANGED <<pc, at, counted, rounds>> /\ UNCHANGED gameVars
  BY DEF CallbackStep, Aside, Retry, Expand, SetReady, ReadInvalid, JobEdge, JobTotal, Retire
<1>4. GameType'
  BY <1>1, <1>3 DEF GameType, gameVars
<1>5. ASSUME NEW s \in JobSteps
      PROVE  [j EXCEPT !.step = s] \in JobType /\ [j EXCEPT !.step = s].leaf = j.leaf
             /\ [j EXCEPT !.step = s].step = s
  BY <1>1 DEF JobType
<1>6. j.step \notin {"asked", "aside"} => tree[j.leaf].gen > 0
  BY DEF IndInv, JobShape
<1>7. ASSUME TreeInv', Grown, NEW k \in JobType, Becomes(j, k),
             k.step \notin {"asked", "aside"} => tree'[k.leaf].gen > 0
      PROVE  IndInv'
  <2>1. ThreadsType'
    BY <1>3, <1>7, GrownThreads
  <2>2. JobsType' /\ JobShape'
    BY <1>7, GrownJobs
  <2> QED
    BY <1>4, <1>7, <2>1, <2>2 DEF IndInv
<1>8. ASSUME Kept, j.step \notin {"asked", "aside"}, NEW k \in JobType,
             Becomes(j, k), k.leaf = j.leaf
      PROVE  IndInv'
  <2>1. TreeInv' /\ Grown
    BY <1>1, <1>8, KeptInv, KeptGrown
  <2>2. tree'[k.leaf].gen > 0
    BY <1>2, <1>6, <1>8 DEF Kept
  <2> QED
    BY <1>7, <1>8, <2>1, <2>2
<1>9. CASE Expand(j)
  <2> DEFINE k == [j EXCEPT !.step = "flag"]
  <2>1. TreeInv' /\ Grown /\ tree'[j.leaf].gen > 0
    BY <1>9, ExpandKeeps
  <2>2. k \in JobType /\ k.leaf = j.leaf
    BY <1>5 DEF JobSteps
  <2>3. Becomes(j, k)
    BY <1>9 DEF Expand, StepTo
  <2> HIDE DEF k
  <2> QED
    BY <1>7, <2>1, <2>2, <2>3
<1>10. CASE SetReady(j)
  <2> DEFINE k == [j EXCEPT !.step = "read"]
  <2>1. TreeInv' /\ Grown /\ tree'[j.leaf].gen > 0
    BY <1>10, ReadyKeeps
  <2>2. k \in JobType /\ k.leaf = j.leaf
    BY <1>5 DEF JobSteps
  <2>3. Becomes(j, k)
    BY <1>10 DEF SetReady, StepTo
  <2> HIDE DEF k
  <2> QED
    BY <1>7, <2>1, <2>2, <2>3
<1>11. CASE ReadInvalid(j)
  <2>1. PICK s \in JobSteps, v \in Nat : Becomes(j, [j EXCEPT !.invalid = v, !.step = s])
    <3>1. tree[j.leaf].invalid_visit \in Nat
      BY <1>1, <1>2, NodeFields
    <3> QED
      BY <1>11, <3>1 DEF ReadInvalid, JobSteps
  <2> DEFINE k == [j EXCEPT !.invalid = v, !.step = s]
  <2>2. k \in JobType /\ k.leaf = j.leaf
    BY <1>1 DEF JobType
  <2>3. Kept /\ j.step \notin {"asked", "aside"}
    BY <1>1, <1>11, SameTree DEF ReadInvalid
  <2> HIDE DEF k
  <2> QED
    BY <1>8, <2>1, <2>2, <2>3 DEF k
<1>12. CASE JobEdge(j)
  <2> DEFINE k == [j EXCEPT !.step = "total"]
  <2>1. Kept
    BY <1>1, <1>2, <1>12, VisitKeeps DEF JobEdge
  <2>2. k \in JobType /\ k.leaf = j.leaf
    BY <1>5 DEF JobSteps
  <2>3. Becomes(j, k) /\ j.step \notin {"asked", "aside"}
    BY <1>12 DEF JobEdge, StepTo
  <2> HIDE DEF k
  <2> QED
    BY <1>8, <2>1, <2>2, <2>3
<1>13. CASE JobTotal(j)
  <2>1. Kept /\ j.step \notin {"asked", "aside"}
    BY <1>1, <1>2, <1>13, TotalKeeps DEF JobTotal
  <2>2. CASE GoesOn(j.now)
    <3> DEFINE k == [j EXCEPT !.now = Father(j.now), !.step = "edge"]
    <3>1. Becomes(j, k)
      BY <1>13, <2>2 DEF JobTotal
    <3>2. Father(j.now) \in DOMAIN tree
      BY <1>1, <1>2, <2>2, FatherThere DEF GoesOn
    <3>3. k \in JobType /\ k.leaf = j.leaf
      BY <1>1, <3>2 DEF JobType, JobSteps
    <3> HIDE DEF k
    <3> QED
      BY <1>8, <2>1, <3>1, <3>3
  <2>3. CASE ~GoesOn(j.now)
    <3> DEFINE k == [j EXCEPT !.step = "end"]
    <3>1. Becomes(j, k)
      BY <1>13, <2>3 DEF JobTotal, StepTo
    <3>2. k \in JobType /\ k.leaf = j.leaf
      BY <1>5 DEF JobSteps
    <3> HIDE DEF k
    <3> QED
      BY <1>8, <2>1, <3>1, <3>2
  <2> QED
    BY <2>2, <2>3
<1>14. CASE Retire(j)
  <2>1. Kept /\ jobs' \subseteq jobs
    BY <1>1, <1>14, SameTree DEF Retire
  <2>2. TreeInv' /\ ThreadsType'
    BY <1>1, <1>3, <2>1, KeptInv, KeptGrown, GrownThreads
  <2>3. JobsType' /\ JobShape'
    BY <1>14, <2>1 DEF Kept, IndInv, JobsType, JobShape, Retire
  <2> QED
    BY <1>4, <2>2, <2>3 DEF IndInv
<1>15. CASE Aside(j) \/ Retry(j)
  <2>1. TreeInv' /\ Grown
    <3>1. UNCHANGED tree
      BY <1>15 DEF Aside, Retry
    <3> QED
      BY <1>1, <3>1, SameTree, KeptInv, KeptGrown
  <2>2. CASE Retry(j)
    <3> DEFINE k == [j EXCEPT !.step = "asked"]
    <3>1. k \in JobType /\ k.step = "asked"
      BY <1>5 DEF JobSteps
    <3>2. Becomes(j, k)
      BY <2>2 DEF Retry, StepTo
    <3> HIDE DEF k
    <3> QED
      BY <1>7, <2>1, <3>1, <3>2
  <2>3. CASE Aside(j)
    <3> DEFINE k == [j EXCEPT !.step = "aside", !.failed = j.failed + 1]
    <3>1. j.failed + 1 \in 0..MaxFails
      BY <1>1, <2>3, SearchAssumption DEF Aside, JobType
    <3>2. k \in JobType /\ k.step = "aside"
      BY <1>1, <3>1 DEF JobType, JobSteps
    <3>3. Becomes(j, k)
      BY <2>3 DEF Aside
    <3> HIDE DEF k
    <3> QED
      BY <1>7, <2>1, <3>2, <3>3
  <2> QED
    BY <1>15, <2>2, <2>3
<1> QED
  BY <1>9, <1>10, <1>11, <1>12, <1>13, <1>14, <1>15 DEF CallbackStep

------------------------------------------------------------------------------
(* The invariant                                                            *)

LEMMA InitInv == Init => IndInv
<1> SUFFICES ASSUME Init PROVE IndInv
  OBVIOUS
<1>1. DOMAIN tree = {Root} /\ tree[Root] = NewNode
  BY DEF Init, NewTree
<1>2. NewNode \in NodeType /\ NewNode.gen = 0 /\ NewNode.eval_ready = FALSE
  BY DEF NewNode, NodeType
<1>3. Root \in Paths
  BY DEF Root, Paths
<1>4. tree \in [DOMAIN tree -> NodeType]
  BY <1>1, <1>2 DEF Init, NewTree
<1>5. NodesType
  BY <1>1, <1>3, <1>4 DEF NodesType
<1>6. Family
  BY <1>1, <1>2 DEF Family
<1>7. ReadyHasKids
  BY <1>1, <1>2 DEF ReadyHasKids
<1>8. ThreadsType
  BY <1>1 DEF Init, ThreadsType, Steps
<1>9. JobsType /\ JobShape
  BY DEF Init, JobsType, JobShape
<1>10. <<>> \in Seq(Moves)
  OBVIOUS
<1>11. GameType
  BY <1>10 DEF Init, GameType
<1> QED
  BY <1>5, <1>6, <1>7, <1>8, <1>9, <1>11 DEF IndInv, TreeInv

LEMMA StepInv == IndInv /\ [Next]_vars => IndInv'
<1> SUFFICES ASSUME IndInv, [Next]_vars PROVE IndInv'
  OBVIOUS
<1>1. ASSUME NEW t \in Threads, ThreadStep(t)
      PROVE  IndInv'
  <2>1. TreeInv'
    BY <1>1, ThreadKeeps, KeptInv DEF IndInv
  <2>2. ThreadsType'
    BY <1>1, ThreadTypes
  <2>3. JobsType' /\ JobShape'
    BY <1>1, ThreadJobs
  <2>4. GameType'
    BY <1>1 DEF IndInv, GameType, gameVars, ThreadStep, Break, Round, AwaitRoot, Select,
       SelectEnds, SelectNothing, LeafRepeats, LeafDecided, LeafOpen, Test, Send, Late,
       ThreadEdge, ThreadTotal, Over
  <2> QED
    BY <2>1, <2>2, <2>3, <2>4 DEF IndInv
<1>2. CASE \E j \in jobs : CallbackStep(j) \/ Aside(j) \/ Retry(j)
  BY <1>2, CallbackKeeps
<1>3. CASE UNCHANGED vars
  BY <1>3 DEF IndInv, TreeInv, NodesType, Family, KidsOf, Father, ReadyHasKids, ThreadsType,
     JobsType, JobShape, GameType, vars, gameVars
<1> QED
  BY <1>1, <1>2, <1>3 DEF Next, Ended

LEMMA TypesFollow == IndInv => TypeOK
BY DEF IndInv, TreeInv, NodesType, ThreadsType, JobsType, GameType, TypeOK, Steps, JobSteps

\* Whatever threads and callbacks do to the tree without a lock, every variable
\* of the search keeps its type: a thread and a callback are always at a node
\* that the tree has (rollout, mcts_select_path, mcts_back_update).
THEOREM SearchTypes == Spec => []TypeOK
<1>1. Init => IndInv
  BY InitInv
<1>2. IndInv /\ [Next]_vars => IndInv'
  BY StepInv
<1>3. IndInv => TypeOK
  BY TypesFollow
<1> QED
  BY <1>1, <1>2, <1>3, PTL DEF Spec

\* For any number of threads and of moves, whatever is sent twice, fails or is
\* retried, a node that is eval_ready has its children, so that a thread which
\* sees the flag may follow nexts (the order of the two assignments, and the
\* mfence between them, in the callback of server_evaluate).
THEOREM ReadyNodesHaveChildren == Spec => []ReadyHasKids
<1>1. Init => IndInv
  BY InitInv
<1>2. IndInv /\ [Next]_vars => IndInv'
  BY StepInv
<1>3. IndInv => ReadyHasKids
  BY DEF IndInv, TreeInv
<1> QED
  BY <1>1, <1>2, <1>3, PTL DEF Spec

------------------------------------------------------------------------------
(* A rollout that is over                                                   *)

\* Of the requests there are, get_pending does not count those that wait to be
\* sent again, and these have failed.
AnsweredInv ==
    /\ IsFiniteSet(jobs)
    /\ \A j \in jobs : j.step = "aside" => j.failed > 0
    /\ LeftOnlyFailed

LEMMA NoneLeftIsAside ==
    ASSUME IsFiniteSet(jobs), NoneLeft
    PROVE  \A j \in jobs : j.step = "aside"
<1> DEFINE S == {j \in jobs : j.step # "aside"}
<1>1. IsFiniteSet(S)
  BY FS_Subset
<1>2. Cardinality(S) \in Nat
  BY <1>1, FS_CardinalityType
<1>3. Cardinality(S) = 0
  BY <1>2 DEF NoneLeft, Pending
<1>4. S = {}
  BY <1>1, <1>3, FS_EmptySet
<1> QED
  BY <1>4

LEMMA ThreadAnswered ==
    ASSUME AnsweredInv, ThreadsType, NEW t \in Threads, ThreadStep(t)
    PROVE  AnsweredInv'
<1>1. CASE Over(t)
  <2>1. UNCHANGED jobs /\ NoneLeft
    BY <1>1 DEF Over
  <2>2. \A j \in jobs : j.failed > 0
    BY <2>1, NoneLeftIsAside DEF AnsweredInv
  <2> QED
    BY <2>1, <2>2 DEF AnsweredInv, LeftOnlyFailed
<1>2. CASE ~Over(t)
  <2>1. pc'[t] # "over"
    BY <1>2 DEF ThreadStep, ThreadsType, Go, Again, Break, Round, AwaitRoot, Select,
       SelectEnds, SelectNothing, LeafRepeats, LeafDecided, LeafOpen, Test, Send, Late,
       ThreadEdge, ThreadTotal
  <2>2. LeftOnlyFailed'
    BY <2>1 DEF LeftOnlyFailed, AllOver
  <2>3. CASE UNCHANGED jobs
    BY <2>2, <2>3 DEF AnsweredInv
  <2>4. CASE Send(t)
    <3> DEFINE k == [leaf |-> at[t], by |-> t, step |-> "asked", now |-> at[t],
                     invalid |-> 0, failed |-> 0]
    <3>1. jobs' = jobs \cup {k} /\ k.step = "asked"
      BY <2>4 DEF Send
    <3> HIDE DEF k
    <3>2. IsFiniteSet(jobs')
      BY <3>1, FS_AddElement DEF AnsweredInv
    <3> QED
      BY <2>2, <3>1, <3>2 DEF AnsweredInv
  <2> QED
    BY <1>2, <2>3, <2>4 DEF ThreadStep, Break, Round, AwaitRoot, Select, SelectEnds,
       SelectNothing, LeafRepeats, LeafDecided, LeafOpen, Test, Late, ThreadEdge, ThreadTotal
<1> QED
  BY <1>1, <1>2

\* A job that changes has failed as often as before, or once more.
LEMMA CallbackAnswered ==
    ASSUME AnsweredInv, IndInv, NEW j \in jobs, CallbackStep(j) \/ Aside(j) \/ Retry(j)
    PROVE  AnsweredInv'
<1>1. j \in JobType /\ j.failed \in Nat
  BY SearchAssumption DEF IndInv, JobsType, JobType
<1>2. UNCHANGED pc
  BY DEF CallbackStep, Aside, Retry, Expand, SetReady, ReadInvalid, JobEdge, JobTotal, Retire
<1>3. ASSUME NEW k, Becomes(j, k), k.failed >= j.failed, k.failed \in Nat,
             k.step = "aside" => k.failed > 0
      PROVE  AnsweredInv'
  <2>1. jobs' = (jobs \ {j}) \cup {k}
    BY <1>3 DEF Becomes
  <2>2. IsFiniteSet(jobs \ {j})
    BY FS_Subset DEF AnsweredInv
  <2>3. IsFiniteSet(jobs')
    BY <2>1, <2>2, FS_AddElement
  <2>4. LeftOnlyFailed'
    <3> SUFFICES ASSUME AllOver', NEW m \in jobs' PROVE m.failed > 0
      BY DEF LeftOnlyFailed
    <3>1. AllOver
      BY <1>2 DEF AllOver
    <3>2. j.failed > 0 /\ (m \in jobs => m.failed > 0)
      BY <3>1 DEF AnsweredInv, LeftOnlyFailed
    <3> QED
      BY <1>1, <1>3, <2>1, <3>2
  <2> QED
    BY <1>3, <2>1, <2>3, <2>4 DEF AnsweredInv
<1>4. ASSUME NEW s \in {"asked", "flag", "read", "total", "end"}, StepTo(j, s)
      PROVE  AnsweredInv'
  <2> DEFINE k == [j EXCEPT !.step = s]
  <2>1. k.step = s /\ k.failed = j.failed /\ Becomes(j, k)
    BY <1>1, <1>4 DEF JobType, StepTo
  <2> HIDE DEF k
  <2> QED
    BY <1>1, <1>3, <2>1
<1>5. CASE Expand(j) \/ SetReady(j) \/ JobEdge(j) \/ Retry(j)
  BY <1>4, <1>5 DEF Expand, SetReady, JobEdge, Retry
<1>6. CASE ReadInvalid(j)
  <2> DEFINE s == IF HasFather(j.leaf) THEN "edge" ELSE "end"
             k == [j EXCEPT !.invalid = tree[j.leaf].invalid_visit, !.step = s]
  <2>1. k.step # "aside" /\ k.failed = j.failed
    BY <1>1 DEF JobType
  <2>2. Becomes(j, k)
    BY <1>6 DEF ReadInvalid
  <2> HIDE DEF k
  <2> QED
    BY <1>1, <1>3, <2>1, <2>2
<1>7. CASE JobTotal(j)
  <2> DEFINE k == [j EXCEPT !.now = Father(j.now), !.step = "edge"]
  <2>1. k.step = "edge" /\ k.failed = j.failed
    BY <1>1 DEF JobType
  <2>2. Becomes(j, k) \/ StepTo(j, "end")
    BY <1>7 DEF JobTotal
  <2> HIDE DEF k
  <2> QED
    BY <1>1, <1>3, <1>4, <2>1, <2>2
<1>8. CASE Aside(j)
  <2> DEFINE k == [j EXCEPT !.step = "aside", !.failed = j.failed + 1]
  <2>1. k.failed = j.failed + 1
    BY <1>1 DEF JobType
  <2>2. Becomes(j, k)
    BY <1>8 DEF Aside
  <2> HIDE DEF k
  <2> QED
    BY <1>1, <1>3, <2>1, <2>2
<1>9. CASE Retire(j)
  <2>1. jobs' \subseteq jobs
    BY <1>9 DEF Retire
  <2> QED
    BY <1>2, <2>1, FS_Subset DEF AnsweredInv, LeftOnlyFailed, AllOver
<1> QED
  BY <1>5, <1>6, <1>7, <1>8, <1>9 DEF CallbackStep

\* Threads that have all waited for get_pending leave no request and no callback
\* behind but of requests that failed, for any number of threads and however often
\* requests fail (on_server_rollout_loop_over; failure_cb takes a batch out of the
\* count until it is sent again).
THEOREM RolloutsLeaveFailed == Spec => []LeftOnlyFailed
<1> DEFINE Inv == IndInv /\ AnsweredInv
<1>1. Init => Inv
  <2> SUFFICES ASSUME Init PROVE Inv
    OBVIOUS
  <2>1. IndInv
    BY InitInv
  <2>2. jobs = {} /\ IsFiniteSet({})
    BY FS_EmptySet DEF Init
  <2> QED
    BY <2>1, <2>2 DEF AnsweredInv, LeftOnlyFailed
<1>2. Inv /\ [Next]_vars => Inv'
  <2> SUFFICES ASSUME Inv, [Next]_vars PROVE Inv'
    OBVIOUS
  <2>1. IndInv'
    BY StepInv
  <2>2. ThreadsType
    BY DEF IndInv
  <2>3. CASE \E t \in Threads : ThreadStep(t)
    BY <2>1, <2>2, <2>3, ThreadAnswered
  <2>4. CASE \E j \in jobs : CallbackStep(j) \/ Aside(j) \/ Retry(j)
    BY <2>1, <2>4, CallbackAnswered
  <2>5. CASE UNCHANGED vars
    BY <2>1, <2>5 DEF AnsweredInv, LeftOnlyFailed, AllOver, vars
  <2> QED
    BY <2>3, <2>4, <2>5 DEF Next, Ended
<1>3. Inv => LeftOnlyFailed
  BY DEF AnsweredInv
<1> QED
  BY <1>1, <1>2, <1>3, PTL DEF Spec

==============================================================================
