---------------------------- MODULE RolloutProofs ----------------------------
(***************************************************************************)
(* Proofs about what the rollouts of Search leave behind: visits, requests *)
(* and virtual losses, for any threads, width, moves and bounds.           *)
(***************************************************************************)
EXTENDS SearchProofs, SumTheorems, SequenceTheorems, WellFoundedInduction

------------------------------------------------------------------------------
(* The requests                                                             *)

\* The tree and the requests are finite; the same thread never asks twice for
\* one leaf, because it has then set rq_sent itself.
Finite == IsFiniteSet(jobs) /\ IsFiniteSet(DOMAIN tree)
Distinct == \A j, k \in jobs : j.leaf = k.leaf /\ j.by = k.by => j = k
LeavesSent == \A j \in jobs : tree[j.leaf].rq_sent
FirstAsk ==
    \A t \in Threads : pc[t] = "send" => \A j \in jobs : j.by = t => j.leaf # at[t]

RequestInv == Finite /\ Distinct /\ LeavesSent /\ FirstAsk

\* What an update of one field of one node leaves alone.
Same(x) ==
    /\ tree'[x].n = tree[x].n
    /\ tree'[x].total_n = tree[x].total_n
    /\ tree'[x].invalid_visit = tree[x].invalid_visit
    /\ tree'[x].rq_sent = tree[x].rq_sent

LEMMA NodeThere ==
    ASSUME IndInv, NEW x \in DOMAIN tree
    PROVE  tree[x] \in NodeType
BY DEF IndInv, TreeInv, NodesType

LEMMA MarkWrites ==
    ASSUME IndInv, NEW x \in DOMAIN tree, NEW y, NEW v,
           \/ tree' = [tree EXCEPT ![y].vl = v]
           \/ tree' = [tree EXCEPT ![y].is_repetition = v]
           \/ tree' = [tree EXCEPT ![y].eval_ready = v]
    PROVE  Same(x)
<1>1. tree[x] \in NodeType
  BY NodeThere
<1> QED
  BY <1>1 DEF NodeType, Same

LEMMA SentWrites ==
    ASSUME IndInv, NEW x \in DOMAIN tree, NEW y, tree' = [tree EXCEPT ![y].rq_sent = TRUE]
    PROVE  /\ tree'[x].n = tree[x].n /\ tree'[x].total_n = tree[x].total_n
           /\ tree'[x].invalid_visit = tree[x].invalid_visit
           /\ tree[x].rq_sent => tree'[x].rq_sent
           /\ x = y => tree'[x].rq_sent
           /\ x # y => tree'[x].rq_sent = tree[x].rq_sent
<1>1. tree[x] \in NodeType
  BY NodeThere
<1> QED
  BY <1>1 DEF NodeType

LEMMA InvalidWrites ==
    ASSUME IndInv, NEW x \in DOMAIN tree, NEW y,
           tree' = [tree EXCEPT ![y].invalid_visit = @ + 1]
    PROVE  /\ tree'[x].n = tree[x].n /\ tree'[x].total_n = tree[x].total_n
           /\ tree'[x].rq_sent = tree[x].rq_sent
           /\ tree'[x].invalid_visit =
                 IF x = y THEN tree[x].invalid_visit + 1 ELSE tree[x].invalid_visit
<1>1. tree[x] \in NodeType
  BY NodeThere
<1> QED
  BY <1>1 DEF NodeType

LEMMA EdgeWrites ==
    ASSUME IndInv, NEW x \in DOMAIN tree, NEW y, NEW invalid, UpdateEdge(y, invalid)
    PROVE  /\ tree'[x].n = IF x = y THEN tree[x].n + 1 ELSE tree[x].n
           /\ tree'[x].vl = IF x = y THEN tree[x].vl - TakenBack(invalid) ELSE tree[x].vl
           /\ tree'[x].total_n = tree[x].total_n
           /\ tree'[x].invalid_visit = tree[x].invalid_visit
           /\ tree'[x].rq_sent = tree[x].rq_sent
<1>1. tree[x] \in NodeType
  BY NodeThere
<1> QED
  BY <1>1 DEF NodeType, UpdateEdge

LEMMA TotalWrites ==
    ASSUME IndInv, NEW x \in DOMAIN tree, NEW y, UpdateTotal(y)
    PROVE  /\ tree'[x].n = tree[x].n /\ tree'[x].vl = tree[x].vl
           /\ tree'[x].total_n =
                 IF y # Root /\ x = Father(y) THEN tree[x].total_n + 1 ELSE tree[x].total_n
           /\ tree'[x].invalid_visit = tree[x].invalid_visit
           /\ tree'[x].rq_sent = tree[x].rq_sent
<1>1. tree[x] \in NodeType
  BY NodeThere
<1> QED
  BY <1>1 DEF NodeType, UpdateTotal

\* What a step of a thread does not write.
LEMMA ThreadWrites ==
    ASSUME IndInv, NEW t \in Threads, ThreadStep(t), NEW x \in DOMAIN tree
    PROVE  /\ tree[x].rq_sent => tree'[x].rq_sent
           /\ ~ThreadEdge(t) => tree'[x].n = tree[x].n
           /\ ~ThreadTotal(t) => tree'[x].total_n = tree[x].total_n
           /\ ~Late(t) => tree'[x].invalid_visit = tree[x].invalid_visit
           /\ ~Send(t) => tree'[x].rq_sent = tree[x].rq_sent
<1>1. CASE Break(t) \/ Round(t) \/ AwaitRoot(t) \/ SelectEnds(t) \/ SelectNothing(t) \/ Test(t) \/ Over(t)
  BY <1>1 DEF Break, Round, AwaitRoot, SelectEnds, SelectNothing, Test, Over
<1>2. CASE Select(t)
  BY <1>2, MarkWrites DEF Select, Same
<1>3. CASE LeafRepeats(t) \/ LeafDecided(t) \/ LeafOpen(t)
  BY <1>3, MarkWrites DEF LeafRepeats, LeafDecided, LeafOpen, Same
<1>4. CASE Send(t)
  <2>1. ~ThreadEdge(t) /\ ~ThreadTotal(t) /\ ~Late(t)
    BY <1>4 DEF Send, ThreadEdge, ThreadTotal, Late
  <2> QED
    BY <1>4, <2>1, SentWrites DEF Send
<1>5. CASE Late(t)
  BY <1>5, InvalidWrites DEF Late
<1>6. CASE ThreadEdge(t)
  BY <1>6, EdgeWrites DEF ThreadEdge
<1>7. CASE ThreadTotal(t)
  BY <1>7, TotalWrites DEF ThreadTotal
<1> QED
  BY <1>1, <1>2, <1>3, <1>4, <1>5, <1>6, <1>7 DEF ThreadStep

\* What a callback writes: Expand adds nodes, the others change one.
LEMMA ExpandWrites ==
    ASSUME IndInv, NEW j \in jobs, Expand(j)
    PROVE  /\ DOMAIN tree' = DOMAIN tree \cup NewKids(j.leaf)
           /\ \A k \in NewKids(j.leaf) : tree'[k] = NewNode /\ k \notin DOMAIN tree
           /\ \A x \in DOMAIN tree :
                 /\ Same(x) /\ tree'[x].vl = tree[x].vl
                 /\ tree'[x].eval_ready = tree[x].eval_ready
                 /\ tree'[x].is_repetition = tree[x].is_repetition
                 /\ tree'[x].gen = IF x = j.leaf THEN tree[x].gen + 1 ELSE tree[x].gen
<1> DEFINE kids == NewKids(j.leaf)
<1>1. tree' = [x \in DOMAIN tree \cup kids |->
                  IF x \in kids THEN NewNode
                  ELSE IF x = j.leaf THEN [tree[x] EXCEPT !.gen = @ + 1]
                  ELSE tree[x]]
  BY DEF Expand
<1>2. j.leaf \in DOMAIN tree /\ TreeInv
  BY DEF IndInv, JobsType
<1>3. \A k \in kids : k \notin DOMAIN tree
  BY <1>2, KidsAreNew
<1> HIDE DEF kids
<1>4. DOMAIN tree' = DOMAIN tree \cup kids
  BY <1>1
<1>5. \A k \in kids : tree'[k] = NewNode
  BY <1>1
<1>6. ASSUME NEW x \in DOMAIN tree
      PROVE  /\ Same(x) /\ tree'[x].vl = tree[x].vl
             /\ tree'[x].eval_ready = tree[x].eval_ready
             /\ tree'[x].is_repetition = tree[x].is_repetition
             /\ tree'[x].gen = IF x = j.leaf THEN tree[x].gen + 1 ELSE tree[x].gen
  <2>1. tree'[x] = IF x = j.leaf THEN [tree[x] EXCEPT !.gen = @ + 1] ELSE tree[x]
    BY <1>1, <1>3
  <2>2. tree[x] \in NodeType
    BY NodeThere
  <2> QED
    BY <2>1, <2>2 DEF NodeType, Same
<1> QED
  BY <1>3, <1>4, <1>5, <1>6 DEF kids

LEMMA CallbackWrites ==
    ASSUME IndInv, NEW j \in jobs, CallbackStep(j) \/ Aside(j) \/ Retry(j),
           NEW x \in DOMAIN tree
    PROVE  /\ x \in DOMAIN tree'
           /\ tree'[x].rq_sent = tree[x].rq_sent
           /\ tree'[x].invalid_visit = tree[x].invalid_visit
           /\ ~JobEdge(j) => tree'[x].n = tree[x].n /\ tree'[x].vl = tree[x].vl
           /\ ~JobTotal(j) => tree'[x].total_n = tree[x].total_n
<1>1. CASE Expand(j)
  BY <1>1, ExpandWrites DEF Same
<1>2. CASE SetReady(j)
  <2>1. tree' = [tree EXCEPT ![j.leaf].eval_ready = TRUE]
    BY <1>2 DEF SetReady
  <2>2. Same(x)
    BY <2>1, MarkWrites
  <2>3. tree'[x].vl = tree[x].vl /\ x \in DOMAIN tree'
    <3>1. tree[x] \in NodeType
      BY NodeThere
    <3> QED
      BY <2>1, <3>1 DEF NodeType
  <2> QED
    BY <2>2, <2>3 DEF Same
<1>3. CASE JobEdge(j)
  <2>1. DOMAIN tree' = DOMAIN tree /\ ~JobTotal(j)
    BY <1>3 DEF JobEdge, UpdateEdge, JobTotal
  <2> QED
    BY <1>3, <2>1, EdgeWrites DEF JobEdge
<1>4. CASE JobTotal(j)
  <2>1. DOMAIN tree' = DOMAIN tree /\ ~JobEdge(j)
    BY <1>4 DEF JobEdge, UpdateTotal, JobTotal
  <2> QED
    BY <1>4, <2>1, TotalWrites DEF JobTotal
<1>5. CASE UNCHANGED tree
  BY <1>5
<1> QED
  BY <1>1, <1>2, <1>3, <1>4, <1>5 DEF CallbackStep, Aside, Retry, ReadInvalid, Retire

\* A request that fails is put aside, and is else as it was.
LEMMA AsideJob ==
    ASSUME IndInv, NEW j \in jobs, Aside(j)
    PROVE  /\ j.step = "asked"
           /\ \E k \in JobType : /\ Becomes(j, k) /\ k.step = "aside" /\ k.leaf = j.leaf
                                 /\ k.by = j.by /\ k.now = j.now /\ k.invalid = j.invalid
<1> DEFINE k == [j EXCEPT !.step = "aside", !.failed = j.failed + 1]
<1>1. j \in JobType
  BY DEF IndInv, JobsType, JobType
<1>2. j.failed + 1 \in 0..MaxFails
  BY <1>1, SearchAssumption DEF Aside, JobType
<1>3. /\ k \in JobType /\ k.step = "aside" /\ k.leaf = j.leaf
      /\ k.by = j.by /\ k.now = j.now /\ k.invalid = j.invalid
  BY <1>1, <1>2 DEF JobType, JobSteps
<1>4. Becomes(j, k) /\ j.step = "asked"
  BY DEF Aside
<1> HIDE DEF k
<1> QED
  BY <1>3, <1>4

\* A callback's step leaves its job's leaf and thread alone.
LEMMA CallbackJob ==
    ASSUME IndInv, NEW j \in jobs, CallbackStep(j) \/ Aside(j) \/ Retry(j)
    PROVE  \/ jobs' = jobs \ {j}
           \/ \E k \in JobType : jobs' = (jobs \ {j}) \cup {k} /\ k.leaf = j.leaf /\ k.by = j.by
<1>1. j \in JobType /\ TreeInv
  BY DEF IndInv, JobsType, JobType
<1>2. ASSUME NEW s \in JobSteps, StepTo(j, s)
      PROVE  \E k \in JobType : jobs' = (jobs \ {j}) \cup {k} /\ k.leaf = j.leaf /\ k.by = j.by
  <2>1. [j EXCEPT !.step = s] \in JobType /\ [j EXCEPT !.step = s].leaf = j.leaf
        /\ [j EXCEPT !.step = s].by = j.by
    BY <1>1 DEF JobType
  <2> QED
    BY <1>2, <2>1 DEF StepTo, Becomes
<1>3. CASE ReadInvalid(j)
  <2>1. PICK s \in JobSteps, v \in Nat : Becomes(j, [j EXCEPT !.invalid = v, !.step = s])
    <3>1. tree[j.leaf].invalid_visit \in Nat
      BY <1>1, NodeFields DEF JobType
    <3> QED
      BY <1>3, <3>1 DEF ReadInvalid, JobSteps
  <2> DEFINE k == [j EXCEPT !.invalid = v, !.step = s]
  <2>2. k \in JobType /\ k.leaf = j.leaf /\ k.by = j.by
    BY <1>1 DEF JobType
  <2> HIDE DEF k
  <2> QED
    BY <2>1, <2>2 DEF Becomes, k
<1>4. CASE JobTotal(j) /\ GoesOn(j.now)
  <2> DEFINE k == [j EXCEPT !.now = Father(j.now), !.step = "edge"]
  <2>1. Becomes(j, k)
    BY <1>4 DEF JobTotal
  <2>2. Father(j.now) \in DOMAIN tree
    BY <1>1, <1>4, FatherThere DEF GoesOn, JobType
  <2>3. k \in JobType /\ k.leaf = j.leaf /\ k.by = j.by
    BY <1>1, <2>2 DEF JobType, JobSteps
  <2> HIDE DEF k
  <2> QED
    BY <2>1, <2>3 DEF Becomes
<1>5. CASE Aside(j)
  BY <1>5, AsideJob DEF Becomes
<1> QED
  BY <1>2, <1>3, <1>4, <1>5 DEF CallbackStep, Retry, Expand, SetReady, JobEdge, JobTotal, Retire, JobSteps

\* Only Send adds a job, and only to a leaf for which the thread has none.
LEMMA ThreadAsks ==
    ASSUME IndInv, NEW t \in Threads, ThreadStep(t)
    PROVE  \/ UNCHANGED jobs
           \/ /\ Send(t)
              /\ \E k \in JobType : /\ jobs' = jobs \cup {k} /\ k.leaf = at[t] /\ k.now = at[t]
                                    /\ k.by = t /\ k.step = "asked"
<1>1. CASE Send(t)
  <2> DEFINE k == [leaf |-> at[t], by |-> t, step |-> "asked", now |-> at[t],
                     invalid |-> 0, failed |-> 0]
  <2>1. jobs' = jobs \cup {k}
    BY <1>1 DEF Send
  <2>2. at[t] \in DOMAIN tree
    BY DEF IndInv, ThreadsType
  <2>3. k \in JobType /\ k.leaf = at[t] /\ k.now = at[t] /\ k.by = t /\ k.step = "asked"
    BY <2>2, SearchAssumption DEF JobType, JobSteps
  <2> HIDE DEF k
  <2> QED
    BY <1>1, <2>1, <2>3
<1> QED
  BY <1>1 DEF ThreadStep, Break, Round, AwaitRoot, Select, SelectEnds, SelectNothing,
     LeafRepeats, LeafDecided, LeafOpen, Test, Late, ThreadEdge, ThreadTotal, Over

\* A thread is about to ask only if it was before, or has just read rq_sent.
LEMMA ThreadSends ==
    ASSUME IndInv, NEW t \in Threads, ThreadStep(t)
    PROVE  /\ \A u \in Threads \ {t} : pc'[u] = pc[u] /\ at'[u] = at[u]
           /\ pc'[t] = "send" => UNCHANGED <<at, jobs>> /\ ~tree[at[t]].rq_sent
<1>1. pc \in [Threads -> Steps] /\ at \in [Threads -> DOMAIN tree]
  BY DEF IndInv, ThreadsType
<1>2. \A u \in Threads \ {t} : pc'[u] = pc[u]
  BY <1>1 DEF ThreadStep, Go, Again, Break, Round, AwaitRoot, Select,
     SelectEnds, SelectNothing, LeafRepeats, LeafDecided, LeafOpen, Test, Send, Late,
     ThreadEdge, ThreadTotal, Over
<1>3. \A u \in Threads \ {t} : at'[u] = at[u]
  BY <1>1 DEF ThreadStep, Go, Again, Break, Round, AwaitRoot, Select,
     SelectEnds, SelectNothing, LeafRepeats, LeafDecided, LeafOpen, Test, Send, Late,
     ThreadEdge, ThreadTotal, Over
<1>4. CASE Test(t)
  BY <1>1, <1>4 DEF Test, Go, SentBefore
<1>5. CASE ~Test(t)
  <2>1. pc'[t] # "send"
    BY <1>1, <1>5 DEF ThreadStep, Go, Again, Break, Round, AwaitRoot, Select,
       SelectEnds, SelectNothing, LeafRepeats, LeafDecided, LeafOpen, Send, Late,
       ThreadEdge, ThreadTotal, Over
  <2> QED
    BY <1>2, <1>3, <2>1
<1> QED
  BY <1>2, <1>3, <1>4, <1>5

LEMMA ThreadRequests ==
    ASSUME IndInv, RequestInv, NEW t \in Threads, ThreadStep(t)
    PROVE  RequestInv'
<1>1. DOMAIN tree' = DOMAIN tree
  BY ThreadKeeps DEF Kept
<1>2. \A j \in jobs : tree'[j.leaf].rq_sent
  BY ThreadWrites DEF IndInv, JobsType, RequestInv, LeavesSent
<1>3. CASE UNCHANGED jobs
  <2>1. Finite' /\ Distinct' /\ LeavesSent'
    BY <1>1, <1>2, <1>3 DEF RequestInv, Finite, Distinct, LeavesSent
  <2>2. FirstAsk'
    BY <1>3, ThreadSends DEF RequestInv, FirstAsk, LeavesSent
  <2> QED
    BY <2>1, <2>2 DEF RequestInv
<1>4. ASSUME Send(t), NEW k \in JobType, jobs' = jobs \cup {k}, k.leaf = at[t], k.by = t
      PROVE  RequestInv'
  <2>1. \A j \in jobs : j.by = t => j.leaf # at[t]
    BY <1>4 DEF RequestInv, FirstAsk, Send
  <2>2. Distinct'
    BY <1>4, <2>1 DEF RequestInv, Distinct
  <2>3. Finite'
    BY <1>1, <1>4, FS_AddElement DEF RequestInv, Finite
  <2>4. tree'[at[t]].rq_sent
    BY <1>4, SentWrites DEF Send, IndInv, ThreadsType
  <2>5. LeavesSent'
    BY <1>2, <1>4, <2>4 DEF LeavesSent
  <2>6. FirstAsk'
    <3>1. pc'[t] # "send"
      BY <1>4 DEF Send, Again, Go, IndInv, ThreadsType
    <3> QED
      BY <1>4, <3>1, ThreadSends DEF RequestInv, FirstAsk
  <2> QED
    BY <2>2, <2>3, <2>5, <2>6 DEF RequestInv
<1> QED
  BY <1>3, <1>4, ThreadAsks

LEMMA CallbackRequests ==
    ASSUME IndInv, RequestInv, NEW j \in jobs, CallbackStep(j) \/ Aside(j) \/ Retry(j)
    PROVE  RequestInv'
<1>1. UNCHANGED <<pc, at>>
  BY DEF CallbackStep, Aside, Retry, Expand, SetReady, ReadInvalid, JobEdge, JobTotal, Retire
<1>2. IsFiniteSet(DOMAIN tree')
  <2>1. CASE Expand(j)
    <3>1. DOMAIN tree' = DOMAIN tree \cup NewKids(j.leaf)
      BY <2>1, ExpandWrites
    <3>2. IsFiniteSet(NewKids(j.leaf))
      <4> DEFINE g == tree[j.leaf].gen + 1
                 f == [i \in Moves |-> Append(j.leaf, <<i, g>>)]
      <4>1. IsFiniteSet(Moves)
        BY SearchAssumption, FS_Interval DEF Moves
      <4>2. NewKids(j.leaf) = {f[i] : i \in Moves}
        BY DEF NewKids, KidsOf
      <4>3. f \in Surjection(Moves, NewKids(j.leaf))
        BY <4>2 DEF Surjection
      <4> QED
        BY <4>1, <4>3, FS_Surjection
    <3> QED
      BY <3>1, <3>2, FS_Union DEF RequestInv, Finite
  <2>2. CASE ~Expand(j)
    <3>1. DOMAIN tree' = DOMAIN tree
      BY <2>2 DEF CallbackStep, Aside, Retry, SetReady, ReadInvalid, JobEdge, UpdateEdge,
         JobTotal, UpdateTotal, Retire
    <3> QED
      BY <3>1 DEF RequestInv, Finite
  <2> QED
    BY <2>1, <2>2
<1>3. \A m \in jobs : tree'[m.leaf].rq_sent
  BY CallbackWrites DEF IndInv, JobsType, RequestInv, LeavesSent
<1>4. IsFiniteSet(jobs \ {j})
  BY FS_Subset DEF RequestInv, Finite
<1>5. CASE jobs' = jobs \ {j}
  BY <1>1, <1>2, <1>3, <1>4, <1>5 DEF RequestInv, Finite, Distinct, LeavesSent, FirstAsk
<1>6. ASSUME NEW k \in JobType, jobs' = (jobs \ {j}) \cup {k}, k.leaf = j.leaf, k.by = j.by
      PROVE  RequestInv'
  <2>1. IsFiniteSet(jobs')
    BY <1>4, <1>6, FS_AddElement
  <2>2. Distinct'
    BY <1>6 DEF RequestInv, Distinct
  <2>3. LeavesSent'
    BY <1>3, <1>6 DEF LeavesSent
  <2>4. FirstAsk'
    BY <1>1, <1>6 DEF RequestInv, FirstAsk
  <2> QED
    BY <1>2, <2>1, <2>2, <2>3, <2>4 DEF RequestInv, Finite
<1> QED
  BY <1>5, <1>6, CallbackJob

LEMMA InitRequests == Init => RequestInv
<1> SUFFICES ASSUME Init PROVE RequestInv
  OBVIOUS
<1>1. DOMAIN tree = {Root} /\ jobs = {}
  BY DEF Init, NewTree
<1>2. IsFiniteSet({Root}) /\ IsFiniteSet({})
  BY FS_Singleton, FS_EmptySet
<1> QED
  BY <1>1, <1>2 DEF RequestInv, Finite, Distinct, LeavesSent, FirstAsk, Init

LEMMA StepRequests == IndInv /\ RequestInv /\ [Next]_vars => RequestInv'
<1> SUFFICES ASSUME IndInv, RequestInv, [Next]_vars PROVE RequestInv'
  OBVIOUS
<1>1. CASE UNCHANGED vars
  BY <1>1 DEF RequestInv, Finite, Distinct, LeavesSent, FirstAsk, vars
<1> QED
  BY <1>1, ThreadRequests, CallbackRequests DEF Next, Ended

------------------------------------------------------------------------------
(* The visits of a node and of its edges                                    *)

VisitsOf == [k \in DOMAIN tree |-> tree[k].n]
KidsIn(x) == {k \in DOMAIN tree \ {Root} : Father(k) = x}

\* VisitsAddUp with the sum of a function.
VisitsEven ==
    \A x \in DOMAIN tree : tree[x].total_n + Rising(x) = SumOf(VisitsOf, KidsIn(x))

LEMMA EvenAddsUp ==
    ASSUME Finite, VisitsEven
    PROVE  VisitsAddUp
<1> SUFFICES ASSUME NEW x \in DOMAIN tree
             PROVE  tree[x].total_n + Rising(x)
                       = MapThenSumSet(Visits, {k \in DOMAIN tree \ {Root} : Father(k) = x})
  BY DEF VisitsAddUp
<1>1. KidsIn(x) \in SUBSET (DOMAIN tree)
  BY DEF KidsIn
<1>2. IsFiniteSet(KidsIn(x))
  BY <1>1, FS_Subset DEF Finite
<1>3. \A k \in KidsIn(x) : VisitsOf[k] = tree[k].n
  BY <1>1 DEF VisitsOf
<1>4. MapThenSumSet(LAMBDA k : tree[k].n, KidsIn(x)) = SumOf(VisitsOf, KidsIn(x))
  BY <1>2, <1>3, FieldSum
<1>5. tree[x].total_n + Rising(x) = MapThenSumSet(LAMBDA k : tree[k].n, KidsIn(x))
  BY <1>4 DEF VisitsEven
<1> QED
  BY <1>5 DEF Visits, KidsIn

\* Jobs and threads between the two additions of a back-update.
RisesJob(j, x) == j.step = "total" /\ j.now # Root /\ Father(j.now) = x
RisesThread(t, x) == pc[t] = "total" /\ at[t] # Root /\ Father(at[t]) = x
RisingJobs(x) == {j \in jobs : RisesJob(j, x)}
RisingThreads(x) == {t \in Threads : RisesThread(t, x)}

LEMMA RisingIs == \A x : Rising(x) = Cardinality(RisingJobs(x)) + Cardinality(RisingThreads(x))
BY DEF Rising, RisingJobs, RisingThreads, RisesJob, RisesThread

LEMMA RisingNat ==
    ASSUME Finite, NEW x
    PROVE  /\ IsFiniteSet(RisingJobs(x)) /\ IsFiniteSet(RisingThreads(x))
           /\ Cardinality(RisingJobs(x)) \in Nat /\ Cardinality(RisingThreads(x)) \in Nat
           /\ Rising(x) \in Nat
<1>1. RisingJobs(x) \in SUBSET jobs /\ RisingThreads(x) \in SUBSET Threads
  BY DEF RisingJobs, RisingThreads
<1>2. IsFiniteSet(RisingJobs(x)) /\ IsFiniteSet(RisingThreads(x))
  BY <1>1, FS_Subset, SearchAssumption DEF Finite
<1>3. Cardinality(RisingJobs(x)) \in Nat /\ Cardinality(RisingThreads(x)) \in Nat
  BY <1>2, FS_CardinalityType
<1> QED
  BY <1>2, <1>3, RisingIs

\* A thread that moves: it rises no more where it did, and rises where it now does.
LEMMA ThreadRising ==
    ASSUME IndInv, Finite, NEW t \in Threads, ThreadStep(t), NEW x
    PROVE  /\ Rising(x)' \in Nat
           /\ Rising(x)' + One(RisesThread(t, x)) = Rising(x) + One(RisesThread(t, x)')
<1>1. RisingJobs(x)' = RisingJobs(x)
  BY ThreadAsks DEF RisingJobs, RisesJob
<1>2. RisingThreads(x)' \ {t} = RisingThreads(x) \ {t}
  BY ThreadSends DEF RisingThreads, RisesThread
<1>3. (t \in RisingThreads(x)) = RisesThread(t, x)
  BY DEF RisingThreads, RisesThread
<1>4. (t \in RisingThreads(x)') = RisesThread(t, x)'
  BY DEF RisingThreads, RisesThread
<1>5. /\ Cardinality(RisingThreads(x)) \in Nat /\ Cardinality(RisingThreads(x)') \in Nat
      /\ Cardinality(RisingThreads(x)') + One(t \in RisingThreads(x))
            = Cardinality(RisingThreads(x)) + One(t \in RisingThreads(x)')
  BY <1>2, RisingNat, CountMove
<1>6. Rising(x)' = Cardinality(RisingJobs(x)') + Cardinality(RisingThreads(x)')
  BY DEF Rising, RisingJobs, RisingThreads, RisesJob, RisesThread
<1>7. Rising(x) = Cardinality(RisingJobs(x)) + Cardinality(RisingThreads(x))
  BY RisingIs
<1>8. Cardinality(RisingJobs(x)) \in Nat /\ One(RisesThread(t, x)) \in Nat /\ One(RisesThread(t, x)') \in Nat
  BY RisingNat DEF One
<1>9. Cardinality(RisingThreads(x)') + One(RisesThread(t, x))
            = Cardinality(RisingThreads(x)) + One(RisesThread(t, x)')
  BY <1>3, <1>4, <1>5
<1> QED
  BY <1>1, <1>5, <1>6, <1>7, <1>8, <1>9

\* A job that becomes another.
LEMMA JobRising ==
    ASSUME IndInv, RequestInv, NEW j \in jobs, NEW k, jobs' = (jobs \ {j}) \cup {k},
           k.leaf = j.leaf, k.by = j.by, UNCHANGED <<pc, at>>, NEW x
    PROVE  /\ Rising(x)' \in Nat
           /\ Rising(x)' + One(RisesJob(j, x)) = Rising(x) + One(RisesJob(k, x))
<1> DEFINE R == RisingJobs(x)
           S == R \ {j}
           Q == RisingJobs(x)'
<1>1. k \notin jobs \ {j}
  BY DEF RequestInv, Distinct
<1>2. Q = IF RisesJob(k, x) THEN S \cup {k} ELSE S
  BY DEF RisingJobs, RisesJob
<1>3. IsFiniteSet(R) /\ Cardinality(R) \in Nat
  BY RisingNat DEF RequestInv
<1>4. IsFiniteSet(S) /\ Cardinality(S) = Cardinality(R) - One(RisesJob(j, x))
  <2>1. (j \in R) = RisesJob(j, x)
    BY DEF RisingJobs, RisesJob
  <2>2. IsFiniteSet(S)
        /\ Cardinality(S) = IF j \in R THEN Cardinality(R) - 1 ELSE Cardinality(R)
    BY <1>3, FS_RemoveElement
  <2>3. CASE RisesJob(j, x)
    BY <2>1, <2>2, <2>3 DEF One
  <2>4. CASE ~RisesJob(j, x)
    <3>1. Cardinality(R) = Cardinality(R) - 0
      BY <1>3
    <3> QED
      BY <2>1, <2>2, <2>4, <3>1 DEF One
  <2> QED
    BY <2>3, <2>4
<1>5. k \notin S
  BY <1>1 DEF RisingJobs
<1>6. Cardinality(S) \in Nat
  BY <1>4, FS_CardinalityType
<1>7. Cardinality(Q) = Cardinality(S) + One(RisesJob(k, x))
  <2>1. Cardinality(S \cup {k}) = Cardinality(S) + 1
    BY <1>4, <1>5, FS_AddElement
  <2>2. CASE RisesJob(k, x)
    BY <1>2, <2>1, <2>2 DEF One
  <2>3. CASE ~RisesJob(k, x)
    <3>1. Cardinality(S) = Cardinality(S) + 0
      BY <1>6
    <3> QED
      BY <1>2, <2>3, <3>1 DEF One
  <2> QED
    BY <2>2, <2>3
<1>8. RisingThreads(x)' = RisingThreads(x)
  BY DEF RisingThreads, RisesThread
<1>9. Rising(x)' = Cardinality(Q) + Cardinality(RisingThreads(x)')
  BY DEF Rising, RisingJobs, RisingThreads, RisesJob, RisesThread
<1>10. Rising(x) = Cardinality(R) + Cardinality(RisingThreads(x))
  BY RisingIs
<1>11. /\ Cardinality(RisingThreads(x)) \in Nat
       /\ One(RisesJob(j, x)) \in Nat /\ One(RisesJob(k, x)) \in Nat
  BY RisingNat DEF One, RequestInv
<1> HIDE DEF R, S, Q
<1> QED
  BY <1>3, <1>4, <1>6, <1>7, <1>8, <1>9, <1>10, <1>11

\* Every visit of the tree is a number, and every node has finitely many edges.
LEMMA VisitsFinite ==
    ASSUME IndInv, Finite, NEW x
    PROVE  /\ IsFiniteSet(KidsIn(x)) /\ KidsIn(x) \subseteq DOMAIN tree
           /\ \A k \in DOMAIN tree : VisitsOf[k] = tree[k].n /\ VisitsOf[k] \in Int
           /\ \A k \in DOMAIN tree : tree[k].total_n \in Nat /\ tree[k].n \in Nat
<1>1. KidsIn(x) \in SUBSET (DOMAIN tree)
  BY DEF KidsIn
<1>2. \A k \in DOMAIN tree : tree[k].total_n \in Nat /\ tree[k].n \in Nat
  BY NodeThere DEF NodeType
<1>3. IsFiniteSet(KidsIn(x))
  BY <1>1, FS_Subset DEF Finite
<1>4. \A k \in DOMAIN tree : VisitsOf[k] = tree[k].n
  BY DEF VisitsOf
<1> QED
  BY <1>1, <1>2, <1>3, <1>4

\* Steps between which no visit is added.
LEMMA QuietVisits ==
    ASSUME VisitsEven, DOMAIN tree' = DOMAIN tree,
           \A x \in DOMAIN tree : /\ tree'[x].n = tree[x].n /\ tree'[x].total_n = tree[x].total_n
                                  /\ Rising(x)' = Rising(x)
    PROVE  VisitsEven'
<1>1. VisitsOf' = VisitsOf
  BY DEF VisitsOf
<1>2. \A x : KidsIn(x)' = KidsIn(x)
  BY DEF KidsIn, Father
<1> SUFFICES ASSUME NEW x \in DOMAIN tree
             PROVE  tree'[x].total_n + Rising(x)' = SumOf(VisitsOf', KidsIn(x)')
  BY DEF VisitsEven
<1>3. tree[x].total_n + Rising(x) = SumOf(VisitsOf, KidsIn(x))
  BY DEF VisitsEven
<1> QED
  BY <1>1, <1>2, <1>3

\* The edge above y has one visit more, and its father waits for it.
LEMMA EdgeVisits ==
    ASSUME IndInv, Finite, VisitsEven, NEW y \in DOMAIN tree, NEW invalid, UpdateEdge(y, invalid),
           \A x \in DOMAIN tree : Rising(x)' = Rising(x) + One(y # Root /\ Father(y) = x)
    PROVE  VisitsEven'
<1> SUFFICES ASSUME NEW x \in DOMAIN tree'
             PROVE  tree'[x].total_n + Rising(x)' = SumOf(VisitsOf', KidsIn(x)')
  BY DEF VisitsEven
<1>1. DOMAIN tree' = DOMAIN tree
  BY DEF UpdateEdge
<1>2. KidsIn(x)' = KidsIn(x) /\ x \in DOMAIN tree
  BY <1>1 DEF KidsIn, Father
<1> DEFINE w == VisitsOf
           v == VisitsOf'
           S == KidsIn(x)
<1>3. IsFiniteSet(S) /\ S \subseteq DOMAIN tree /\ \A k \in S : w[k] \in Int
  BY VisitsFinite
<1>4. \A k \in S : v[k] = IF k = y THEN w[k] + 1 ELSE w[k]
  BY <1>1, <1>3, EdgeWrites DEF VisitsOf
<1>5. tree[x].total_n + Rising(x) = SumOf(w, S)
  BY <1>2 DEF VisitsEven
<1>6. tree[x].total_n \in Nat /\ Rising(x) \in Nat
  BY <1>2, VisitsFinite, RisingNat
<1>7. tree'[x].total_n = tree[x].total_n
  BY <1>2, EdgeWrites
<1>8. (y # Root /\ Father(y) = x) = (y \in S)
  BY DEF KidsIn
<1> HIDE DEF w, v, S
<1>9. CASE y \in S
  <2>1. v[y] = w[y] + 1 /\ w[y] \in Int /\ v[y] \in Int /\ \A k \in S \ {y} : v[k] = w[k]
    BY <1>3, <1>4, <1>9
  <2>2. SumOf(v, S) = SumOf(w, S) - w[y] + v[y]
    BY <1>3, <1>9, <2>1, SumChange
  <2>3. SumOf(w, S) \in Int
    BY <1>3, SumInt
  <2>4. SumOf(v, S) = SumOf(w, S) + 1
    BY <2>1, <2>2, <2>3
  <2>5. Rising(x)' = Rising(x) + 1
    BY <1>2, <1>8, <1>9 DEF One
  <2>6. tree'[x].total_n + Rising(x)' = SumOf(v, S)
    BY <1>5, <1>6, <1>7, <2>3, <2>4, <2>5
  <2> QED
    BY <1>2, <2>6 DEF S, v
<1>10. CASE y \notin S
  <2>1. \A k \in S : w[k] = v[k]
    BY <1>4, <1>10
  <2>2. SumOf(w, S) = SumOf(v, S)
    BY <1>3, <2>1, SumSame
  <2>3. Rising(x)' = Rising(x) + 0
    BY <1>2, <1>8, <1>10 DEF One
  <2>4. tree'[x].total_n + Rising(x)' = SumOf(v, S)
    BY <1>5, <1>6, <1>7, <2>2, <2>3
  <2> QED
    BY <1>2, <2>4 DEF S, v
<1> QED
  BY <1>9, <1>10

\* The father of y has the visit it has waited for.
LEMMA TotalVisits ==
    ASSUME IndInv, Finite, VisitsEven, NEW y \in DOMAIN tree, UpdateTotal(y),
           \A x \in DOMAIN tree :
               Rising(x)' \in Nat /\ Rising(x)' + One(y # Root /\ Father(y) = x) = Rising(x)
    PROVE  VisitsEven'
<1> SUFFICES ASSUME NEW x \in DOMAIN tree'
             PROVE  tree'[x].total_n + Rising(x)' = SumOf(VisitsOf', KidsIn(x)')
  BY DEF VisitsEven
<1>1. DOMAIN tree' = DOMAIN tree
  BY DEF UpdateTotal
<1>2. KidsIn(x)' = KidsIn(x) /\ x \in DOMAIN tree
  BY <1>1 DEF KidsIn, Father
<1>3. VisitsOf' = VisitsOf
  BY <1>1, TotalWrites DEF VisitsOf
<1>4. tree[x].total_n + Rising(x) = SumOf(VisitsOf, KidsIn(x))
  BY <1>2 DEF VisitsEven
<1>5. tree[x].total_n \in Nat /\ Rising(x) \in Nat /\ Rising(x)' \in Nat
  BY <1>2, VisitsFinite, RisingNat
<1>6. CASE y # Root /\ Father(y) = x
  <2>1. tree'[x].total_n = tree[x].total_n + 1
    BY <1>2, <1>6, TotalWrites
  <2>2. Rising(x)' + 1 = Rising(x)
    BY <1>2, <1>6 DEF One
  <2>3. tree'[x].total_n + Rising(x)' = tree[x].total_n + Rising(x)
    BY <1>5, <2>1, <2>2
  <2> QED
    BY <1>2, <1>3, <1>4, <2>3
<1>7. CASE ~(y # Root /\ Father(y) = x)
  <2>1. tree'[x].total_n = tree[x].total_n
    BY <1>2, <1>7, TotalWrites
  <2>2. Rising(x)' + 0 = Rising(x)
    BY <1>2, <1>7 DEF One
  <2>3. tree'[x].total_n + Rising(x)' = tree[x].total_n + Rising(x)
    BY <1>5, <2>1, <2>2
  <2> QED
    BY <1>2, <1>3, <1>4, <2>3
<1> QED
  BY <1>6, <1>7

\* New nodes have no visit, and nobody is below them.
LEMMA ExpandVisits ==
    ASSUME IndInv, RequestInv, VisitsEven, NEW j \in jobs, Expand(j)
    PROVE  VisitsEven'
<1> DEFINE kids == NewKids(j.leaf)
<1>1. j \in JobType /\ j.leaf \in DOMAIN tree /\ TreeInv
  BY DEF IndInv, JobsType, JobType
<1>2. /\ DOMAIN tree' = DOMAIN tree \cup kids
      /\ \A k \in kids : tree'[k] = NewNode /\ k \notin DOMAIN tree
      /\ \A x \in DOMAIN tree : Same(x)
  BY ExpandWrites
<1>3. \A k \in kids : k # Root /\ Father(k) = j.leaf
  BY <1>1, KidsAreNew
<1>4. IsFiniteSet(kids)
  <2>1. IsFiniteSet(DOMAIN tree')
    BY CallbackRequests DEF RequestInv, Finite, CallbackStep
  <2>2. kids \in SUBSET (DOMAIN tree')
    BY <1>2
  <2> QED
    BY <2>1, <2>2, FS_Subset
<1> HIDE DEF kids
<1> DEFINE m == [j EXCEPT !.step = "flag"]
<1>5. \A x : Rising(x)' = Rising(x)
  <2>1. jobs' = (jobs \ {j}) \cup {m} /\ UNCHANGED <<pc, at>>
    BY DEF Expand, StepTo, Becomes
  <2>2. m.leaf = j.leaf /\ m.by = j.by /\ m.step = "flag" /\ j.step = "asked"
    BY <1>1 DEF JobType, Expand
  <2>3. \A x : ~RisesJob(j, x) /\ ~RisesJob(m, x)
    BY <2>2 DEF RisesJob
  <2> HIDE DEF m
  <2> SUFFICES ASSUME NEW x PROVE Rising(x)' = Rising(x)
    OBVIOUS
  <2>4. Rising(x)' + One(RisesJob(j, x)) = Rising(x) + One(RisesJob(m, x))
    BY <2>1, <2>2, JobRising
  <2>5. Rising(x)' + 0 = Rising(x) + 0
    BY <2>3, <2>4 DEF One
  <2>6. Rising(x) \in Nat
    BY RisingNat DEF RequestInv
  <2>7. Rising(x)' \in Nat
    BY <2>1, <2>2, JobRising
  <2> QED
    BY <2>5, <2>6, <2>7
<1>6. ASSUME NEW x \in DOMAIN tree
      PROVE  tree'[x].total_n + Rising(x)' = SumOf(VisitsOf', KidsIn(x)')
  <2> DEFINE w == VisitsOf
             v == VisitsOf'
             S == KidsIn(x)
             Z == {k \in kids : Father(k) = x}
  <2>1. IsFiniteSet(S) /\ S \subseteq DOMAIN tree /\ \A k \in S : w[k] \in Int
    BY VisitsFinite DEF RequestInv
  <2>2. KidsIn(x)' = S \cup Z
    BY <1>2, <1>3 DEF KidsIn, Father
  <2>3. \A k \in S : v[k] = w[k]
    BY <1>2, <2>1 DEF VisitsOf, Same
  <2>4. \A k \in Z : v[k] = 0
    BY <1>2 DEF VisitsOf, NewNode
  <2>5. IsFiniteSet(Z)
    <3>1. Z \in SUBSET kids
      OBVIOUS
    <3> QED
      BY <1>4, <3>1, FS_Subset
  <2> HIDE DEF w, v, S, Z
  <2>6. SumOf(v, S \cup Z) = SumOf(v, S)
    BY <2>1, <2>3, <2>4, <2>5, SumSupport
  <2>7. SumOf(v, S) = SumOf(w, S)
    BY <2>1, <2>3, SumSame
  <2>8. tree[x].total_n + Rising(x) = SumOf(w, S)
    BY DEF VisitsEven, w, S
  <2>9. tree'[x].total_n = tree[x].total_n
    BY <1>2 DEF Same
  <2> QED
    BY <1>5, <2>2, <2>6, <2>7, <2>8, <2>9 DEF v
<1>7. ASSUME NEW x \in kids
      PROVE  tree'[x].total_n + Rising(x)' = SumOf(VisitsOf', KidsIn(x)')
  <2>1. x \notin DOMAIN tree /\ tree'[x] = NewNode
    BY <1>2, <1>7
  <2>2. ASSUME NEW k \in DOMAIN tree, k # Root PROVE Father(k) # x
    BY <1>1, <2>1, <2>2, FatherThere
  <2>3. KidsIn(x)' = {}
    BY <1>1, <1>2, <1>3, <2>1, <2>2 DEF KidsIn, Father
  <2>4. RisingJobs(x) = {} /\ RisingThreads(x) = {}
    BY <2>2 DEF RisingJobs, RisingThreads, RisesJob, RisesThread, IndInv, JobsType, ThreadsType
  <2>5. Rising(x) = 0
    <3>1. Cardinality({}) = 0
      BY FS_EmptySet
    <3> QED
      BY <2>4, <3>1, RisingIs
  <2>6. tree'[x].total_n = 0
    BY <2>1 DEF NewNode
  <2>7. SumOf(VisitsOf', {}) = 0
    BY SumEmpty
  <2> QED
    BY <1>5, <2>3, <2>5, <2>6, <2>7
<1> QED
  BY <1>2, <1>6, <1>7 DEF VisitsEven

LEMMA NatSame == ASSUME NEW m \in Nat, NEW n \in Nat, m + 0 = n + 0 PROVE m = n
OBVIOUS

LEMMA ThreadVisits ==
    ASSUME IndInv, RequestInv, VisitsEven, NEW t \in Threads, ThreadStep(t)
    PROVE  VisitsEven'
<1>1. /\ DOMAIN tree' = DOMAIN tree /\ Finite /\ at[t] \in DOMAIN tree
      /\ pc \in [Threads -> Steps] /\ at \in [Threads -> DOMAIN tree]
  BY ThreadKeeps DEF Kept, RequestInv, IndInv, ThreadsType
<1>2. \A x : /\ Rising(x)' \in Nat /\ Rising(x) \in Nat
             /\ Rising(x)' + One(RisesThread(t, x)) = Rising(x) + One(RisesThread(t, x)')
  BY <1>1, ThreadRising, RisingNat
<1>3. CASE ThreadEdge(t)
  <2>1. UpdateEdge(at[t], 0) /\ pc[t] = "edge" /\ pc'[t] = "total" /\ at' = at
    BY <1>1, <1>3 DEF ThreadEdge, Go
  <2>2. \A x : ~RisesThread(t, x) /\ (RisesThread(t, x)' = (at[t] # Root /\ Father(at[t]) = x))
    BY <2>1 DEF RisesThread
  <2>3. \A x : Rising(x)' = Rising(x) + One(at[t] # Root /\ Father(at[t]) = x)
    <3> SUFFICES ASSUME NEW x PROVE Rising(x)' = Rising(x) + One(at[t] # Root /\ Father(at[t]) = x)
      OBVIOUS
    <3>1. Rising(x)' + 0 = Rising(x) + One(at[t] # Root /\ Father(at[t]) = x)
      BY <1>2, <2>2 DEF One
    <3> QED
      BY <1>2, <3>1
  <2> QED
    BY <1>1, <2>1, <2>3, EdgeVisits
<1>4. CASE ThreadTotal(t)
  <2>1. UpdateTotal(at[t]) /\ pc[t] = "total" /\ pc'[t] # "total"
    BY <1>1, <1>4 DEF ThreadTotal, Go, Again
  <2>2. \A x : ~RisesThread(t, x)' /\ (RisesThread(t, x) = (at[t] # Root /\ Father(at[t]) = x))
    BY <2>1 DEF RisesThread
  <2>3. \A x : Rising(x)' \in Nat /\ Rising(x)' + One(at[t] # Root /\ Father(at[t]) = x) = Rising(x)
    <3> SUFFICES ASSUME NEW x
                 PROVE Rising(x)' \in Nat /\ Rising(x)' + One(at[t] # Root /\ Father(at[t]) = x) = Rising(x)
      OBVIOUS
    <3>1. Rising(x)' + One(at[t] # Root /\ Father(at[t]) = x) = Rising(x) + 0
      BY <1>2, <2>2 DEF One
    <3> QED
      BY <1>2, <3>1
  <2> QED
    BY <1>1, <2>1, <2>3, TotalVisits
<1>5. CASE ~ThreadEdge(t) /\ ~ThreadTotal(t)
  <2>1. pc[t] # "total"
    BY <1>5 DEF ThreadStep, Break, Round, AwaitRoot, Select, SelectEnds, SelectNothing,
       LeafRepeats, LeafDecided, LeafOpen, Test, Send, Late, Over
  <2>2. pc'[t] # "total"
    BY <1>1, <1>5 DEF ThreadStep, Go, Again, Break, Round, AwaitRoot, Select, SelectEnds, SelectNothing,
       LeafRepeats, LeafDecided, LeafOpen, Test, Send, Late, Over
  <2>3. \A x : ~RisesThread(t, x) /\ ~RisesThread(t, x)'
    BY <2>1, <2>2 DEF RisesThread
  <2>4. \A x : Rising(x)' = Rising(x)
    BY <1>2, <2>3, NatSame DEF One
  <2> QED
    BY <1>1, <1>5, <2>4, ThreadWrites, QuietVisits
<1> QED
  BY <1>3, <1>4, <1>5

LEMMA CallbackVisits ==
    ASSUME IndInv, RequestInv, VisitsEven, NEW j \in jobs, CallbackStep(j) \/ Aside(j) \/ Retry(j)
    PROVE  VisitsEven'
<1>1. j \in JobType /\ j.now \in DOMAIN tree /\ Finite /\ TreeInv
  BY DEF IndInv, JobsType, JobType, RequestInv
<1>2. UNCHANGED <<pc, at>>
  BY DEF CallbackStep, Aside, Retry, Expand, SetReady, ReadInvalid, JobEdge, JobTotal, Retire
<1>3. \A x : Rising(x) \in Nat
  BY <1>1, RisingNat
<1>4. ASSUME NEW k, Becomes(j, k), k.leaf = j.leaf, k.by = j.by, NEW x
      PROVE  /\ Rising(x)' \in Nat
             /\ Rising(x)' + One(RisesJob(j, x)) = Rising(x) + One(RisesJob(k, x))
  <2>1. jobs' = (jobs \ {j}) \cup {k}
    BY <1>4 DEF Becomes
  <2> QED
    BY <1>2, <1>4, <2>1, JobRising
<1>5. CASE JobEdge(j)
  <2> DEFINE k == [j EXCEPT !.step = "total"]
  <2>1. Becomes(j, k) /\ UpdateEdge(j.now, j.invalid) /\ j.step = "edge"
    BY <1>5 DEF JobEdge, StepTo
  <2>2. k.leaf = j.leaf /\ k.by = j.by /\ k.now = j.now /\ k.step = "total"
    BY <1>1 DEF JobType
  <2> HIDE DEF k
  <2>3. ASSUME NEW x
        PROVE  Rising(x)' = Rising(x) + One(j.now # Root /\ Father(j.now) = x)
    <3>1. ~RisesJob(j, x) /\ (RisesJob(k, x) = (j.now # Root /\ Father(j.now) = x))
      BY <2>1, <2>2 DEF RisesJob
    <3>2. Rising(x)' + One(RisesJob(j, x)) = Rising(x) + One(RisesJob(k, x)) /\ Rising(x)' \in Nat
      BY <1>4, <2>1, <2>2
    <3>3. Rising(x)' + 0 = Rising(x) + One(j.now # Root /\ Father(j.now) = x)
      BY <3>1, <3>2 DEF One
    <3> QED
      BY <3>2, <3>3
  <2> QED
    BY <1>1, <2>1, <2>3, EdgeVisits
<1>6. CASE JobTotal(j)
  <2> DEFINE k == IF GoesOn(j.now) THEN [j EXCEPT !.now = Father(j.now), !.step = "edge"]
                  ELSE [j EXCEPT !.step = "end"]
  <2>1. Becomes(j, k) /\ UpdateTotal(j.now) /\ j.step = "total"
    BY <1>6 DEF JobTotal, StepTo
  <2>2. k.leaf = j.leaf /\ k.by = j.by /\ k.step # "total"
    BY <1>1 DEF JobType
  <2> HIDE DEF k
  <2>3. ASSUME NEW x
        PROVE  Rising(x)' \in Nat /\ Rising(x)' + One(j.now # Root /\ Father(j.now) = x) = Rising(x)
    <3>1. ~RisesJob(k, x) /\ (RisesJob(j, x) = (j.now # Root /\ Father(j.now) = x))
      BY <2>1, <2>2 DEF RisesJob
    <3>2. Rising(x)' + One(RisesJob(j, x)) = Rising(x) + One(RisesJob(k, x)) /\ Rising(x)' \in Nat
      BY <1>4, <2>1, <2>2
    <3>3. Rising(x)' + One(j.now # Root /\ Father(j.now) = x) = Rising(x) + 0
      BY <3>1, <3>2 DEF One
    <3> QED
      BY <1>3, <3>2, <3>3
  <2> QED
    BY <1>1, <2>1, <2>3, TotalVisits
<1>7. CASE Expand(j)
  BY <1>7, ExpandVisits
<1>8. ASSUME ~Expand(j), ~JobEdge(j), ~JobTotal(j)
      PROVE  VisitsEven'
  <2>1. DOMAIN tree' = DOMAIN tree
    BY <1>8 DEF CallbackStep, Aside, Retry, SetReady, ReadInvalid, Retire
  <2>2. \A x : ~RisesJob(j, x)
    BY <1>8 DEF RisesJob, CallbackStep, Aside, Retry, SetReady, ReadInvalid, Retire
  <2>3. ASSUME NEW x PROVE Rising(x)' = Rising(x)
    <3>1. CASE Retire(j)
      <4>1. RisingJobs(x)' = RisingJobs(x) /\ RisingThreads(x)' = RisingThreads(x)
        BY <1>2, <2>2, <3>1 DEF Retire, RisingJobs, RisingThreads, RisesThread, RisesJob
      <4> QED
        BY <4>1 DEF Rising, RisingJobs, RisingThreads, RisesJob, RisesThread
    <3>2. ASSUME NEW k, Becomes(j, k), k.leaf = j.leaf, k.by = j.by, k.step # "total"
          PROVE  Rising(x)' = Rising(x)
      <4>1. ~RisesJob(k, x)
        BY <3>2 DEF RisesJob
      <4>2. Rising(x)' + 0 = Rising(x) + 0 /\ Rising(x)' \in Nat
        BY <1>4, <2>2, <3>2, <4>1 DEF One
      <4> QED
        BY <1>3, <4>2
    <3>3. CASE SetReady(j) \/ Retry(j)
      <4>1. PICK s \in {"read", "asked"} : Becomes(j, [j EXCEPT !.step = s])
        BY <3>3 DEF SetReady, Retry, StepTo
      <4>2. [j EXCEPT !.step = s].leaf = j.leaf /\ [j EXCEPT !.step = s].by = j.by
            /\ [j EXCEPT !.step = s].step # "total"
        BY <1>1 DEF JobType
      <4> QED
        BY <3>2, <4>1, <4>2
    <3>4. CASE ReadInvalid(j)
      <4>1. PICK v \in {tree[j.leaf].invalid_visit}, s \in {"edge", "end"} :
                 Becomes(j, [j EXCEPT !.invalid = v, !.step = s])
        BY <3>4 DEF ReadInvalid
      <4> DEFINE k == [j EXCEPT !.invalid = v, !.step = s]
      <4>2. k.leaf = j.leaf /\ k.by = j.by /\ k.step # "total"
        BY <1>1 DEF JobType
      <4> HIDE DEF k
      <4> QED
        BY <3>2, <4>1, <4>2 DEF k
    <3>5. CASE Aside(j)
      BY <3>2, <3>5, AsideJob
    <3> QED
      BY <1>8, <3>1, <3>3, <3>4, <3>5 DEF CallbackStep
  <2> QED
    BY <1>8, <2>1, <2>3, CallbackWrites, QuietVisits
<1> QED
  BY <1>5, <1>6, <1>7, <1>8

LEMMA InitVisits == Init => VisitsEven
<1> SUFFICES ASSUME Init PROVE VisitsEven
  OBVIOUS
<1>1. DOMAIN tree = {Root} /\ tree[Root] = NewNode /\ jobs = {} /\ \A t \in Threads : pc[t] = "top"
  BY DEF Init, NewTree
<1>2. KidsIn(Root) = {} /\ RisingJobs(Root) = {} /\ RisingThreads(Root) = {}
  BY <1>1 DEF KidsIn, RisingJobs, RisingThreads, RisesJob, RisesThread
<1>3. Cardinality({}) = 0 /\ SumOf(VisitsOf, {}) = 0
  BY FS_EmptySet, SumEmpty
<1>4. Rising(Root) = 0
  BY <1>2, <1>3, RisingIs
<1>5. tree[Root].total_n = 0
  BY <1>1 DEF NewNode
<1>6. tree[Root].total_n + Rising(Root) = SumOf(VisitsOf, KidsIn(Root))
  BY <1>2, <1>3, <1>4, <1>5
<1> QED
  BY <1>1, <1>6 DEF VisitsEven

LEMMA StepVisits == IndInv /\ RequestInv /\ VisitsEven /\ [Next]_vars => VisitsEven'
<1> SUFFICES ASSUME IndInv, RequestInv, VisitsEven, [Next]_vars PROVE VisitsEven'
  OBVIOUS
<1>1. CASE UNCHANGED vars
  <2>1. \A x : Rising(x)' = Rising(x)
    BY <1>1 DEF vars, Rising
  <2> QED
    BY <1>1, <2>1, QuietVisits DEF vars
<1> QED
  BY <1>1, ThreadVisits, CallbackVisits DEF Next, Ended

\* For any number of threads, and though each back-update adds to the edge and to
\* its father in two steps that others interleave with, no visit is lost or
\* counted twice: total_n of every node is the visits of its edges, those of
\* replaced vectors of children included, but for the updates between their two
\* additions (mcts_back_update, run by rollout and by the callbacks).
THEOREM VisitsAlwaysAddUp == Spec => []VisitsAddUp
<1> DEFINE Inv == IndInv /\ RequestInv /\ VisitsEven
<1>1. Init => Inv
  BY InitInv, InitRequests, InitVisits
<1>2. Inv /\ [Next]_vars => Inv'
  BY StepInv, StepRequests, StepVisits
<1>3. Inv => VisitsAddUp
  BY EvenAddsUp DEF RequestInv
<1> QED
  BY <1>1, <1>2, <1>3, PTL DEF Spec

------------------------------------------------------------------------------
(* The rollouts that were counted                                           *)

\* A job begins its way up at its leaf.
Under ==
    \A j \in jobs : /\ j.leaf = Root => j.now = Root
                    /\ j.step \in {"asked", "aside", "flag", "read"} => j.now = j.leaf

\* Rollouts that are counted and have not yet added to the root: the walk up has
\* not come there, where a root that still has a father goes on for one level.
Owes(j) ==
    IF j.leaf = Root THEN j.step \in {"asked", "aside"} ELSE j.step # "end" /\ j.now # Root
OwingJobs == {j \in jobs : Owes(j)}
Climbs(t) == pc[t] \in {"edge", "total"} /\ at[t] # Root
Climbers == {t \in Threads : Climbs(t)}

\* What the root has and is owed, less the rollouts counted: no step of a search
\* changes it.
Tally ==
    tree[Root].total_n + tree[Root].gen + Cardinality(OwingJobs) + Cardinality(Climbers)
        - SumOf(counted, Threads)

LEMMA OwingNat ==
    ASSUME Finite
    PROVE  /\ IsFiniteSet(OwingJobs) /\ Cardinality(OwingJobs) \in Nat
           /\ IsFiniteSet(Climbers) /\ Cardinality(Climbers) \in Nat
<1>1. OwingJobs \in SUBSET jobs /\ Climbers \in SUBSET Threads
  BY DEF OwingJobs, Climbers
<1> QED
  BY <1>1, FS_Subset, FS_CardinalityType, SearchAssumption DEF Finite

LEMMA JobOwing ==
    ASSUME RequestInv, NEW j \in jobs, NEW k, jobs' = (jobs \ {j}) \cup {k},
           k.leaf = j.leaf, k.by = j.by
    PROVE  /\ Cardinality(OwingJobs') \in Nat
           /\ Cardinality(OwingJobs') + One(Owes(j)) = Cardinality(OwingJobs) + One(Owes(k))
<1> DEFINE S == OwingJobs \ {j}
<1>1. k \notin jobs \ {j}
  BY DEF RequestInv, Distinct
<1>2. /\ S \ {k} = S /\ OwingJobs' \ {k} = S /\ k \notin S
      /\ (k \in OwingJobs') = Owes(k)
  <2>1. k \in jobs'
    OBVIOUS
  <2>2. (k \in OwingJobs') = Owes(k)
    BY <2>1 DEF OwingJobs, Owes
  <2>3. S \ {k} = S /\ OwingJobs' \ {k} = S /\ k \notin S
    BY <1>1 DEF OwingJobs
  <2> QED
    BY <2>2, <2>3
<1>3. (j \in OwingJobs) = Owes(j) /\ j \notin S
  BY DEF OwingJobs, Owes
<1>4. IsFiniteSet(OwingJobs) /\ Cardinality(OwingJobs) \in Nat
  BY OwingNat DEF RequestInv
<1>5. /\ IsFiniteSet(S) /\ Cardinality(S) \in Nat
      /\ Cardinality(S) + One(j \in OwingJobs) = Cardinality(OwingJobs) + One(j \in S)
  <2>1. S \ {j} = OwingJobs \ {j}
    OBVIOUS
  <2> HIDE DEF S
  <2> QED
    BY <1>4, <2>1, CountMove
<1>6. /\ Cardinality(OwingJobs') \in Nat
      /\ Cardinality(OwingJobs') + One(k \in S) = Cardinality(S) + One(k \in OwingJobs')
  <2>1. OwingJobs' \ {k} = S \ {k}
    BY <1>2
  <2> HIDE DEF S
  <2> QED
    BY <1>5, <2>1, CountMove
<1>7. Cardinality(S) + One(Owes(j)) = Cardinality(OwingJobs) + 0
  BY <1>3, <1>5 DEF One
<1>8. Cardinality(OwingJobs') + 0 = Cardinality(S) + One(Owes(k))
  BY <1>2, <1>6 DEF One
<1>9. One(Owes(j)) \in Nat /\ One(Owes(k)) \in Nat
  BY DEF One
<1> HIDE DEF S
<1> QED
  BY <1>4, <1>5, <1>6, <1>7, <1>8, <1>9

LEMMA ThreadClimbs ==
    ASSUME IndInv, NEW t \in Threads, ThreadStep(t)
    PROVE  /\ Cardinality(Climbers') \in Nat
           /\ Cardinality(Climbers') + One(Climbs(t)) = Cardinality(Climbers) + One(Climbs(t)')
<1>1. Climbers' \ {t} = Climbers \ {t}
  BY ThreadSends DEF Climbers, Climbs
<1>2. (t \in Climbers) = Climbs(t) /\ (t \in Climbers') = Climbs(t)'
  BY DEF Climbers, Climbs
<1>3. IsFiniteSet(Climbers)
  <2>1. Climbers \in SUBSET Threads
    BY DEF Climbers
  <2> QED
    BY <2>1, FS_Subset, SearchAssumption
<1> QED
  BY <1>1, <1>2, <1>3, CountMove

LEMMA ThreadUnder ==
    ASSUME IndInv, Under, NEW t \in Threads, ThreadStep(t)
    PROVE  Under'
BY ThreadAsks DEF Under

\* The line of the root is that of the game.
LEMMA RootLine ==
    ASSUME GameType
    PROVE  Line(Root) = played
<1>1. [i \in DOMAIN Root |-> Root[i][1]] = <<>>
  BY DEF Root
<1>2. played \in Seq(Moves)
  BY DEF GameType
<1> QED
  BY <1>1, <1>2, ConcatEmptySeq DEF Line

LEMMA CallbackUnder ==
    ASSUME IndInv, Under, NEW j \in jobs, CallbackStep(j) \/ Aside(j) \/ Retry(j)
    PROVE  Under'
<1>2. j \in JobType
  BY DEF IndInv, JobsType, JobType
<1>3. ASSUME NEW k, Becomes(j, k), k.leaf = Root => k.now = Root,
             k.step \in {"asked", "aside", "flag", "read"} => k.now = k.leaf
      PROVE  Under'
  BY <1>3 DEF Becomes, Under
<1>4. ASSUME NEW s \in JobSteps, StepTo(j, s),
             s \in {"asked", "aside", "flag", "read"} => j.step \in {"asked", "aside", "flag", "read"}
      PROVE  Under'
  <2> DEFINE k == [j EXCEPT !.step = s]
  <2>1. Becomes(j, k)
    BY <1>4 DEF StepTo
  <2>2. k.step = s /\ k.leaf = j.leaf /\ k.now = j.now
    BY <1>2 DEF JobType
  <2> HIDE DEF k
  <2> QED
    BY <1>3, <1>4, <2>1, <2>2 DEF Under
<1>5. CASE ReadInvalid(j)
  <2> DEFINE s == IF HasFather(j.leaf) THEN "edge" ELSE "end"
             k == [j EXCEPT !.invalid = tree[j.leaf].invalid_visit, !.step = s]
  <2>1. Becomes(j, k) /\ j.step = "read"
    BY <1>5 DEF ReadInvalid
  <2>2. k.step = s /\ k.leaf = j.leaf /\ k.now = j.now
    BY <1>2 DEF JobType
  <2>3. j.now = j.leaf /\ s \in {"edge", "end"}
    BY <2>1 DEF Under
  <2> HIDE DEF k, s
  <2> QED
    BY <1>3, <2>1, <2>2, <2>3
<1>6. CASE JobTotal(j) /\ GoesOn(j.now)
  <2> DEFINE k == [j EXCEPT !.now = Father(j.now), !.step = "edge"]
  <2>1. Becomes(j, k) /\ j.step = "total"
    BY <1>6 DEF JobTotal
  <2>2. k.step = "edge" /\ k.leaf = j.leaf /\ k.now = Father(j.now)
    BY <1>2 DEF JobType
  <2>3. j.leaf # Root
    BY <1>6 DEF GoesOn, Under
  <2> HIDE DEF k
  <2> QED
    BY <1>3, <2>1, <2>2, <2>3
<1>7. CASE JobTotal(j) /\ ~GoesOn(j.now)
  BY <1>4, <1>7 DEF JobTotal, JobSteps
<1>8. CASE Retire(j)
  BY <1>8 DEF Retire, Under
<1>9. CASE Expand(j) \/ SetReady(j) \/ JobEdge(j) \/ Retry(j)
  BY <1>4, <1>9 DEF Expand, SetReady, JobEdge, Retry, JobSteps
<1>10. CASE Aside(j)
  <2>1. PICK k \in JobType : /\ Becomes(j, k) /\ k.leaf = j.leaf /\ k.now = j.now
                             /\ j.step = "asked"
    BY <1>10, AsideJob
  <2>2. (j.leaf = Root => j.now = Root) /\ j.now = j.leaf
    BY <2>1 DEF Under
  <2> QED
    BY <1>3, <2>1, <2>2
<1> QED
  BY <1>5, <1>6, <1>7, <1>8, <1>9, <1>10 DEF CallbackStep

\* A rollout that is counted is asked for, or starts on its way up.
LEMMA ThreadTally ==
    ASSUME IndInv, RequestInv, Under, played \notin Decided, NEW t \in Threads, ThreadStep(t)
    PROVE  Tally' = Tally
<1> DEFINE root == tree[Root].total_n + tree[Root].gen
           root2 == tree'[Root].total_n + tree'[Root].gen
           sum == SumOf(counted, Threads)
           sum2 == SumOf(counted', Threads)
           o == Cardinality(OwingJobs)
           o2 == Cardinality(OwingJobs')
           c == Cardinality(Climbers)
           c2 == Cardinality(Climbers')
<1>1. /\ IsFiniteSet(Threads) /\ counted \in [Threads -> Nat] /\ Root \in DOMAIN tree
      /\ pc \in [Threads -> Steps] /\ at \in [Threads -> DOMAIN tree] /\ TreeInv
  BY SearchAssumption DEF IndInv, ThreadsType, TreeInv, NodesType
<1>2. tree'[Root].gen = tree[Root].gen
  BY <1>1, ThreadKeeps DEF Kept
<1>3. root \in Nat /\ sum \in Nat
  <2>1. tree[Root].total_n \in Nat /\ tree[Root].gen \in Nat
    BY <1>1, NodeThere DEF NodeType
  <2>2. sum \in Nat
    BY <1>1, SumNat
  <2> QED
    BY <2>1, <2>2
<1>4. o \in Nat /\ c \in Nat /\ c2 \in Nat /\ c2 + One(Climbs(t)) = c + One(Climbs(t)')
  BY OwingNat, ThreadClimbs DEF RequestInv
<1>6. ASSUME counted' = [counted EXCEPT ![t] = @ + 1] PROVE sum2 = sum + 1
  <2>1. counted'[t] = counted[t] + 1 /\ counted'[t] \in Int /\ counted[t] \in Int
        /\ \A u \in Threads \ {t} : counted'[u] = counted[u]
    BY <1>1, <1>6
  <2>2. \A u \in Threads : counted[u] \in Int
    BY <1>1
  <2>3. sum2 = sum - counted[t] + counted'[t]
    BY <1>1, <2>1, <2>2, SumChange
  <2> QED
    BY <1>3, <2>1, <2>3
<1>7. ASSUME UNCHANGED jobs PROVE o2 = o
  BY <1>7 DEF OwingJobs
<1>8. ASSUME root2 + o2 + c2 - sum2 = root + o + c - sum PROVE Tally' = Tally
  BY <1>8 DEF Tally
<1>9. CASE Send(t)
  <2> DEFINE k == [leaf |-> at[t], by |-> t, step |-> "asked", now |-> at[t],
                     invalid |-> 0, failed |-> 0]
  <2>1. jobs' = jobs \cup {k} /\ k.leaf = at[t] /\ k.by = t /\ k.step = "asked"
    BY <1>9 DEF Send
  <2> HIDE DEF k
  <2>2. k \notin jobs /\ Owes(k)
    BY <1>9, <2>1 DEF Send, RequestInv, FirstAsk, Owes
  <2>3. OwingJobs' = OwingJobs \cup {k} /\ k \notin OwingJobs
    BY <2>1, <2>2 DEF OwingJobs
  <2>4. o2 = o + 1
    BY <2>3, OwingNat, FS_AddElement DEF RequestInv
  <2>5. ~Climbs(t) /\ ~Climbs(t)'
    BY <1>1, <1>9 DEF Climbs, Send, Again, Go
  <2>6. c2 + 0 = c + 0
    BY <1>4, <2>5 DEF One
  <2>7. sum2 = sum + 1
    BY <1>6, <1>9 DEF Send
  <2>8. tree'[Root].total_n = tree[Root].total_n
    BY <1>1, <1>9, SentWrites DEF Send
  <2>9. root2 = root
    BY <1>2, <2>8
  <2> HIDE DEF root, root2, sum, sum2, o, o2, c, c2
  <2> QED
    BY <1>3, <1>4, <1>8, <2>4, <2>6, <2>7, <2>9
<1>10. CASE LeafDecided(t)
  <2>1. at[t] # Root /\ UNCHANGED jobs
    BY <1>10, RootLine DEF LeafDecided, IndInv
  <2>2. ~Climbs(t) /\ Climbs(t)'
    BY <1>1, <1>10, <2>1 DEF Climbs, LeafDecided, HasFather, Go
  <2>3. c2 + 0 = c + 1
    BY <1>4, <2>2 DEF One
  <2>4. sum2 = sum + 1
    BY <1>6, <1>10 DEF LeafDecided
  <2>5. ~ThreadTotal(t)
    BY <1>10 DEF LeafDecided, ThreadTotal
  <2>6. tree'[Root].total_n = tree[Root].total_n
    BY <1>1, <2>5, ThreadWrites
  <2>7. root2 = root /\ o2 = o
    BY <1>2, <1>7, <2>1, <2>6
  <2> HIDE DEF root, root2, sum, sum2, o, o2, c, c2
  <2> QED
    BY <1>3, <1>4, <1>8, <2>3, <2>4, <2>7
<1>11. CASE ThreadTotal(t) /\ at[t] # Root
  <2>1. UNCHANGED <<jobs, counted>> /\ UpdateTotal(at[t])
    BY <1>11 DEF ThreadTotal
  <2>2. Climbs(t)
    BY <1>11 DEF Climbs, ThreadTotal
  <2>3. tree'[Root].total_n = IF Father(at[t]) = Root THEN tree[Root].total_n + 1 ELSE tree[Root].total_n
    BY <1>1, <1>11, <2>1, TotalWrites
  <2>4. Father(at[t]) # Root => GoesOn(at[t])
    BY <1>11 DEF GoesOn, HasFather
  <2>5. o2 = o /\ sum2 = sum
    BY <1>7, <2>1
  <2>6. tree[Root].total_n \in Nat /\ tree[Root].gen \in Nat
    BY <1>1, NodeThere DEF NodeType
  <2>7. CASE Father(at[t]) = Root
    <3>1. ~Climbs(t)'
      BY <1>1, <1>11, <2>7 DEF Climbs, ThreadTotal, Again, Go
    <3>2. c2 + 1 = c + 0
      BY <1>4, <2>2, <3>1 DEF One
    <3>3. root2 = root + 1
      BY <1>2, <2>3, <2>6, <2>7
    <3> HIDE DEF root, root2, sum, sum2, o, o2, c, c2
    <3> QED
      BY <1>3, <1>4, <1>8, <2>5, <3>2, <3>3
  <2>8. CASE Father(at[t]) # Root
    <3>1. Climbs(t)'
      BY <1>1, <1>11, <2>4, <2>8 DEF Climbs, ThreadTotal, Again, Go
    <3>2. c2 + 1 = c + 1
      BY <1>4, <2>2, <3>1 DEF One
    <3>3. root2 = root
      BY <1>2, <2>3, <2>8
    <3> HIDE DEF root, root2, sum, sum2, o, o2, c, c2
    <3> QED
      BY <1>3, <1>4, <1>8, <2>5, <3>2, <3>3
  <2> QED
    BY <2>7, <2>8
<1>13. CASE ThreadTotal(t) /\ at[t] = Root
  <2>1. UNCHANGED <<tree, jobs, counted>>
    BY <1>13 DEF ThreadTotal, UpdateTotal
  <2>2. ~Climbs(t) /\ ~Climbs(t)'
    BY <1>1, <1>13 DEF Climbs, ThreadTotal, GoesOn, Again
  <2>3. c2 + 0 = c + 0
    BY <1>4, <2>2 DEF One
  <2>4. root2 = root /\ o2 = o /\ sum2 = sum
    BY <1>7, <2>1
  <2> HIDE DEF root, root2, sum, sum2, o, o2, c, c2
  <2> QED
    BY <1>4, <1>8, <2>3, <2>4
<1>12. CASE ~Send(t) /\ ~LeafDecided(t) /\ ~ThreadTotal(t)
  <2>1. UNCHANGED <<jobs, counted>>
    BY <1>12 DEF ThreadStep, Break, Round, AwaitRoot, Select, SelectEnds, SelectNothing,
       LeafRepeats, LeafOpen, Test, Late, ThreadEdge, Over
  <2>2. Climbs(t)' = Climbs(t)
    BY <1>1, <1>12 DEF Climbs, ThreadStep, Go, Again, Break, Round, AwaitRoot, Select, SelectEnds,
       SelectNothing, LeafRepeats, LeafOpen, Test, Late, ThreadEdge, Over
  <2>3. tree'[Root].total_n = tree[Root].total_n
    BY <1>1, <1>12, ThreadWrites
  <2>4. root2 = root /\ o2 = o /\ sum2 = sum
    BY <1>2, <1>7, <2>1, <2>3
  <2>5. c2 + One(Climbs(t)) = c + One(Climbs(t)) /\ One(Climbs(t)) \in Nat
    BY <1>4, <2>2 DEF One
  <2> HIDE DEF root, root2, sum, sum2, o, o2, c, c2
  <2>6. c2 = c
    BY <1>4, <2>5
  <2> QED
    BY <1>8, <2>4, <2>6
<1> QED
  BY <1>9, <1>10, <1>11, <1>12, <1>13

LEMMA CallbackTally ==
    ASSUME IndInv, RequestInv, Under, NEW j \in jobs, CallbackStep(j) \/ Aside(j) \/ Retry(j)
    PROVE  Tally' = Tally
<1> DEFINE root == tree[Root].total_n + tree[Root].gen
           root2 == tree'[Root].total_n + tree'[Root].gen
           sum == SumOf(counted, Threads)
           o == Cardinality(OwingJobs)
           o2 == Cardinality(OwingJobs')
           c == Cardinality(Climbers)
<1>1. Root \in DOMAIN tree /\ TreeInv /\ j \in JobType
  BY DEF IndInv, TreeInv, NodesType, JobsType, JobType
<1>2. tree[Root].total_n \in Nat /\ tree[Root].gen \in Nat
  BY <1>1, NodeThere DEF NodeType
<1>3. UNCHANGED <<pc, at, counted>>
  BY DEF CallbackStep, Aside, Retry, Expand, SetReady, ReadInvalid, JobEdge, JobTotal, Retire
<1>4. Cardinality(Climbers') = c
  BY <1>3 DEF Climbers, Climbs
<1>5. o \in Nat /\ c \in Nat /\ root \in Nat
  BY <1>2, OwingNat DEF RequestInv
<1>6. sum \in Nat
  BY SumNat, SearchAssumption DEF IndInv, ThreadsType
<1>7. ASSUME root2 + o2 + c - sum = root + o + c - sum PROVE Tally' = Tally
  BY <1>3, <1>4, <1>7 DEF Tally
<1>8. ASSUME root2 = root, NEW k, Becomes(j, k), k.leaf = j.leaf, k.by = j.by, Owes(j) = Owes(k)
      PROVE  Tally' = Tally
  <2>1. o2 \in Nat /\ o2 + One(Owes(j)) = o + One(Owes(k))
    BY <1>8, JobOwing DEF Becomes
  <2>2. One(Owes(j)) = One(Owes(k)) /\ One(Owes(j)) \in Nat
    BY <1>8 DEF One
  <2> HIDE DEF root, root2, sum, o, o2, c
  <2>3. o2 = o
    BY <1>5, <2>1, <2>2
  <2> QED
    BY <1>7, <1>8, <2>3
<1>9. ASSUME root2 = root + 1, NEW k, Becomes(j, k), k.leaf = j.leaf, k.by = j.by, Owes(j), ~Owes(k)
      PROVE  Tally' = Tally
  <2>1. o2 \in Nat /\ o2 + One(Owes(j)) = o + One(Owes(k))
    BY <1>9, JobOwing DEF Becomes
  <2>2. o2 + 1 = o + 0
    BY <1>9, <2>1 DEF One
  <2> HIDE DEF root, root2, sum, o, o2, c
  <2> QED
    BY <1>5, <1>6, <1>7, <1>9, <2>1, <2>2
<1>10. CASE Expand(j)
  <2> DEFINE k == [j EXCEPT !.step = "flag"]
  <2>1. Becomes(j, k) /\ j.step = "asked"
    BY <1>10 DEF Expand, StepTo
  <2>2. k.step = "flag" /\ k.leaf = j.leaf /\ k.by = j.by /\ k.now = j.now
    BY <1>1 DEF JobType
  <2> HIDE DEF k
  <2>6. j.now = j.leaf
    BY <2>1 DEF Under
  <2>3. tree'[Root].total_n = tree[Root].total_n
        /\ tree'[Root].gen = IF Root = j.leaf THEN tree[Root].gen + 1 ELSE tree[Root].gen
    BY <1>1, <1>10, ExpandWrites DEF Same
  <2>4. CASE j.leaf = Root
    <3>1. root2 = root + 1
      BY <1>2, <2>3, <2>4
    <3>2. Owes(j) /\ ~Owes(k)
      BY <2>1, <2>2, <2>4 DEF Owes
    <3> QED
      BY <1>9, <2>1, <2>2, <3>1, <3>2
  <2>5. CASE j.leaf # Root
    <3>1. root2 = root
      BY <2>3, <2>5
    <3>2. Owes(j) = Owes(k)
      BY <2>1, <2>2, <2>5, <2>6 DEF Owes
    <3> QED
      BY <1>8, <2>1, <2>2, <3>1, <3>2
  <2> QED
    BY <2>4, <2>5
<1>11. CASE JobTotal(j) /\ j.now # Root
  <2> DEFINE k == IF GoesOn(j.now) THEN [j EXCEPT !.now = Father(j.now), !.step = "edge"]
                  ELSE [j EXCEPT !.step = "end"]
  <2>1. Becomes(j, k) /\ j.step = "total" /\ UpdateTotal(j.now)
    BY <1>11 DEF JobTotal, StepTo
  <2>2. /\ k.leaf = j.leaf /\ k.by = j.by
        /\ GoesOn(j.now) => k.step = "edge" /\ k.now = Father(j.now)
        /\ ~GoesOn(j.now) => k.step = "end"
    BY <1>1 DEF JobType
  <2> HIDE DEF k
  <2>3. j.now # Root /\ j.leaf # Root
    BY <1>11 DEF Under
  <2>4. tree'[Root].total_n = IF Father(j.now) = Root THEN tree[Root].total_n + 1 ELSE tree[Root].total_n
    BY <1>1, <2>1, <2>3, TotalWrites
  <2>5. tree'[Root].gen = tree[Root].gen
    <3>1. j.now \in DOMAIN tree
      BY <1>1 DEF JobType
    <3> QED
      BY <1>1, <2>1, <3>1, TotalKeeps DEF Kept
  <2>6. CASE Father(j.now) = Root
    <3>1. root2 = root + 1
      BY <1>2, <2>4, <2>5, <2>6
    <3>2. Owes(j) /\ ~Owes(k)
      BY <2>1, <2>2, <2>3, <2>6 DEF Owes
    <3> QED
      BY <1>9, <2>1, <2>2, <3>1, <3>2
  <2>7. CASE Father(j.now) # Root
    <3>1. root2 = root
      BY <2>4, <2>5, <2>7
    <3>2. Owes(j) = Owes(k)
      BY <2>1, <2>2, <2>3, <2>7 DEF Owes, GoesOn, HasFather
    <3> QED
      BY <1>8, <2>1, <2>2, <3>1, <3>2
  <2> QED
    BY <2>6, <2>7
<1>13. CASE JobTotal(j) /\ j.now = Root
  <2> DEFINE k == [j EXCEPT !.step = "end"]
  <2>1. Becomes(j, k) /\ j.step = "total" /\ UNCHANGED tree
    BY <1>13 DEF JobTotal, StepTo, UpdateTotal, GoesOn
  <2>2. k.step = "end" /\ k.leaf = j.leaf /\ k.by = j.by
    BY <1>1 DEF JobType
  <2> HIDE DEF k
  <2>3. Owes(j) = Owes(k)
    BY <1>13, <2>1, <2>2 DEF Owes
  <2> QED
    BY <1>8, <2>1, <2>2, <2>3
<1>12. CASE ~Expand(j) /\ ~JobTotal(j)
  <2>1. tree'[Root].total_n = tree[Root].total_n
    BY <1>1, <1>12, CallbackWrites
  <2>2. tree'[Root].gen = tree[Root].gen
    <3>1. CASE SetReady(j)
      <4>1. tree' = [tree EXCEPT ![j.leaf].eval_ready = TRUE] /\ tree[Root] \in NodeType
        BY <1>1, <3>1, NodeThere DEF SetReady
      <4> QED
        BY <1>1, <4>1 DEF NodeType
    <3>2. CASE JobEdge(j)
      BY <1>1, <3>2, VisitKeeps DEF JobEdge, Kept, JobType
    <3> QED
      BY <1>12, <3>1, <3>2 DEF CallbackStep, Aside, Retry, ReadInvalid, Retire
  <2>3. root2 = root
    BY <2>1, <2>2
  <2>4. CASE Retire(j)
    <3>1. ~Owes(j) /\ jobs' = jobs \ {j}
      BY <2>4 DEF Retire, Owes
    <3>2. OwingJobs' = OwingJobs
      BY <3>1 DEF OwingJobs
    <3> QED
      BY <1>7, <2>3, <3>2
  <2>5. CASE ReadInvalid(j)
    <3> DEFINE s == IF HasFather(j.leaf) THEN "edge" ELSE "end"
               k == [j EXCEPT !.invalid = tree[j.leaf].invalid_visit, !.step = s]
    <3>1. Becomes(j, k) /\ j.step = "read"
      BY <2>5 DEF ReadInvalid
    <3>2. k.step = s /\ k.leaf = j.leaf /\ k.by = j.by /\ k.now = j.now
      BY <1>1 DEF JobType
    <3> HIDE DEF k
    <3>3. Owes(j) = Owes(k)
      BY <3>1, <3>2 DEF Owes, HasFather
    <3> QED
      BY <1>8, <2>3, <3>1, <3>2, <3>3
  <2>6. CASE SetReady(j) \/ JobEdge(j) \/ Retry(j)
    <3>1. PICK s \in {"read", "total", "asked"} :
              /\ Becomes(j, [j EXCEPT !.step = s])
              /\ s \in {"aside", "asked"} <=> j.step \in {"aside", "asked"}
              /\ j.step # "end"
      BY <2>6 DEF SetReady, JobEdge, Retry, StepTo
    <3> DEFINE k == [j EXCEPT !.step = s]
    <3>2. k.step = s /\ k.leaf = j.leaf /\ k.by = j.by /\ k.now = j.now
      BY <1>1 DEF JobType
    <3> HIDE DEF k
    <3>3. Owes(j) = Owes(k)
      BY <3>1, <3>2 DEF Owes
    <3> QED
      BY <1>8, <2>3, <3>1, <3>2, <3>3 DEF k
  <2>7. CASE Aside(j)
    <3>1. PICK k \in JobType : /\ Becomes(j, k) /\ k.leaf = j.leaf /\ k.by = j.by
                               /\ k.now = j.now /\ k.step = "aside" /\ j.step = "asked"
      BY <2>7, AsideJob
    <3>2. Owes(j) = Owes(k)
      BY <3>1 DEF Owes
    <3> QED
      BY <1>8, <2>3, <3>1, <3>2
  <2> QED
    BY <1>12, <2>4, <2>5, <2>6, <2>7 DEF CallbackStep
<1> QED
  BY <1>10, <1>11, <1>12, <1>13

LEMMA ZeroSum ==
    ASSUME NEW f, \A t \in Threads : f[t] = 0
    PROVE  SumOf(f, Threads) = 0
<1>1. SumOf(f, {} \cup Threads) = SumOf(f, {})
  <2>1. IsFiniteSet(Threads) /\ IsFiniteSet({}) /\ \A t \in {} : f[t] \in Int
    BY SearchAssumption, FS_EmptySet
  <2> QED
    BY <2>1, SumSupport
<1>2. {} \cup Threads = Threads
  OBVIOUS
<1>3. SumOf(f, {}) = 0
  BY SumEmpty
<1> QED
  BY <1>1, <1>2, <1>3

LEMMA InitTally == Init => Under /\ Tally = 0
<1> SUFFICES ASSUME Init PROVE Under /\ Tally = 0
  OBVIOUS
<1>1. tree[Root] = NewNode /\ jobs = {} /\ counted = [t \in Threads |-> 0]
      /\ \A t \in Threads : pc[t] = "top"
  BY DEF Init, NewTree
<1>2. Under
  BY <1>1 DEF Under, Init
<1>3. OwingJobs = {} /\ Climbers = {}
  BY <1>1 DEF OwingJobs, Climbers, Climbs
<1>4. Cardinality({}) = 0
  BY FS_EmptySet
<1>6. SumOf(counted, Threads) = 0
  BY <1>1, ZeroSum
<1>7. tree[Root].total_n = 0 /\ tree[Root].gen = 0
  BY <1>1 DEF NewNode
<1> QED
  BY <1>2, <1>3, <1>4, <1>6, <1>7 DEF Tally

\* The board of a search is that of the game it begins with.
LEMMA StepTally ==
    /\ <<>> \notin Decided /\ IndInv /\ RequestInv /\ Under /\ played = <<>> /\ [Next]_vars
    => Under' /\ played' = <<>> /\ Tally' = Tally
<1> SUFFICES ASSUME <<>> \notin Decided, IndInv, RequestInv, Under, played = <<>>, [Next]_vars
             PROVE  Under' /\ played' = <<>> /\ Tally' = Tally
  OBVIOUS
<1>1. CASE UNCHANGED vars
  <2>1. Under'
    BY <1>1 DEF vars, gameVars, Under
  <2>2. OwingJobs' = OwingJobs /\ Climbers' = Climbers
    BY <1>1 DEF vars, OwingJobs, Climbers, Climbs, Owes
  <2>3. Tally' = Tally
    BY <1>1, <2>2 DEF vars, Tally
  <2> QED
    BY <1>1, <2>1, <2>3 DEF vars, gameVars
<1>2. CASE \E t \in Threads : ThreadStep(t)
  <2>1. played' = played
    BY <1>2 DEF ThreadStep, gameVars, Break, Round, AwaitRoot, Select, SelectEnds, SelectNothing,
       LeafRepeats, LeafDecided, LeafOpen, Test, Send, Late, ThreadEdge, ThreadTotal, Over
  <2> QED
    BY <1>2, <2>1, ThreadUnder, ThreadTally
<1>3. CASE \E j \in jobs : CallbackStep(j) \/ Aside(j) \/ Retry(j)
  <2>1. played' = played
    BY <1>3 DEF CallbackStep, Aside, Retry, Expand, SetReady, ReadInvalid, JobEdge, JobTotal,
       Retire, gameVars
  <2> QED
    BY <1>3, <2>1, CallbackUnder, CallbackTally
<1> QED
  BY <1>1, <1>2, <1>3 DEF Next, Ended

\* When nobody is under way the tally is what the rollouts have left.
LEMMA TallyAtRest ==
    ASSUME IndInv, AllOver, jobs = {}
    PROVE  /\ Tally = tree[Root].total_n + tree[Root].gen - SumOf(counted, Threads)
           /\ tree[Root].total_n \in Nat /\ tree[Root].gen \in Nat
           /\ SumOf(counted, Threads) \in Nat
<1>1. OwingJobs = {} /\ Climbers = {}
  BY DEF OwingJobs, Climbers, Climbs, AllOver
<1>2. Cardinality({}) = 0
  BY FS_EmptySet
<1>3. tree[Root].total_n \in Nat /\ tree[Root].gen \in Nat
  BY NodeThere DEF NodeType, IndInv, TreeInv, NodesType
<1>4. SumOf(counted, Threads) \in Nat
  BY SumNat, SearchAssumption DEF IndInv, ThreadsType
<1>5. Tally = tree[Root].total_n + tree[Root].gen - SumOf(counted, Threads)
  BY <1>1, <1>2, <1>3, <1>4 DEF Tally
<1> QED
  BY <1>3, <1>4, <1>5

\* The rollouts counted are the sum of what the threads counted.
LEMMA CountedSum == MapThenSumSet(Counted, Threads) = SumOf(counted, Threads)
BY DEF SumOf, Counted

LEMMA TallyCounts == IndInv /\ Tally = 0 => RolloutsCounted
<1> SUFFICES ASSUME IndInv, Tally = 0, AllOver, jobs = {}
             PROVE  tree[Root].total_n + tree[Root].gen = SumOf(counted, Threads)
  BY CountedSum DEF RolloutsCounted
<1> QED
  BY TallyAtRest

\* However the threads and the callbacks interleave, and whatever is sent twice
\* or retried, the rollouts that were counted are all there when the search is
\* over: each is a visit of the root's edges or an evaluation of the root.  The
\* root itself must not be decided: a rollout there is counted and adds nothing
\* (rollout_in_turn in rollout, mcts_back_update).
THEOREM CountedRolloutsVisit == <<>> \notin Decided => (Spec => []RolloutsCounted)
<1> SUFFICES ASSUME <<>> \notin Decided PROVE Spec => []RolloutsCounted
  OBVIOUS
<1> DEFINE Inv == IndInv /\ RequestInv /\ Under /\ played = <<>> /\ Tally = 0
<1>1. Init => Inv
  BY InitInv, InitRequests, InitTally DEF Init
<1>2. Inv /\ [Next]_vars => Inv'
  BY StepInv, StepRequests, StepTally
<1>3. Inv => RolloutsCounted
  BY TallyCounts
<1> QED
  BY <1>1, <1>2, <1>3, PTL DEF Spec

------------------------------------------------------------------------------
(* Prefixes                                                                 *)

LEMMA PrefixIs ==
    ASSUME NEW S, NEW k \in Seq(S), NEW x \in Seq(S)
    PROVE  IsPrefix(k, x) <=> Len(k) <= Len(x) /\ \A i \in 1..Len(k) : k[i] = x[i]
<1>1. ASSUME Len(k) <= Len(x)
      PROVE  /\ SubSeq(x, 1, Len(k)) \in Seq(S) /\ Len(SubSeq(x, 1, Len(k))) = Len(k)
             /\ \A i \in 1..Len(k) : SubSeq(x, 1, Len(k))[i] = x[i]
  BY <1>1
<1>2. /\ SubSeq(k, 1, Len(k)) \in Seq(S) /\ Len(SubSeq(k, 1, Len(k))) = Len(k)
      /\ \A i \in 1..Len(k) : SubSeq(k, 1, Len(k))[i] = k[i]
  OBVIOUS
<1> QED
  BY <1>1, <1>2, SeqEqual DEF IsPrefix

\* A path is below its father's ancestors and itself.
LEMMA PrefixStep ==
    ASSUME NEW x \in Paths, x # Root, NEW k \in Paths
    PROVE  /\ Father(x) \in Paths
           /\ IsPrefix(k, x) <=> k = x \/ IsPrefix(k, Father(x))
           /\ ~IsPrefix(x, Father(x))
<1> DEFINE f == Father(x)
           S == Moves \X (Nat \ {0})
<1>1. x \in Seq(S) /\ k \in Seq(S) /\ Len(x) > 0 /\ Len(x) \in Nat /\ Len(k) \in Nat
  BY DEF Paths, Root
<1> HIDE DEF S
<1>2. f \in Seq(S) /\ Len(f) = Len(x) - 1 /\ \A i \in 1..Len(f) : f[i] = x[i]
  <2>1. f = SubSeq(x, 1, Len(x) - 1)
    BY DEF Father, Front
  <2>2. /\ SubSeq(x, 1, Len(x) - 1) \in Seq(S)
        /\ Len(SubSeq(x, 1, Len(x) - 1)) = Len(x) - 1
        /\ \A i \in 1..(Len(x) - 1) : SubSeq(x, 1, Len(x) - 1)[i] = x[i]
    <3> DEFINE n == Len(x) - 1
    <3>1. n \in Int /\ 1 \in Int /\ \A i \in 1..n : x[i] \in S
      BY <1>1, ElementOfSeq
    <3>2. /\ SubSeq(x, 1, n) \in Seq(S)
          /\ Len(SubSeq(x, 1, n)) = IF 1 <= n THEN n - 1 + 1 ELSE 0
          /\ \A i \in 1..(n - 1 + 1) : SubSeq(x, 1, n)[i] = x[1 + i - 1]
      BY <3>1, SubSeqProperties
    <3>3. n >= 0 /\ n - 1 + 1 = n
      BY <1>1
    <3> HIDE DEF n
    <3>4. (IF 1 <= n THEN n - 1 + 1 ELSE 0) = n
      BY <3>1, <3>3
    <3>5. \A i \in 1..n : 1 + i - 1 = i
      BY <3>1
    <3> QED
      BY <3>2, <3>3, <3>4, <3>5 DEF n
  <2> QED
    BY <2>1, <2>2
<1> HIDE DEF f
<1>3. IsPrefix(k, x) <=> Len(k) <= Len(x) /\ \A i \in 1..Len(k) : k[i] = x[i]
  BY <1>1, PrefixIs
<1>4. IsPrefix(k, f) <=> Len(k) <= Len(f) /\ \A i \in 1..Len(k) : k[i] = f[i]
  BY <1>1, <1>2, PrefixIs
<1>5. IsPrefix(x, f) <=> Len(x) <= Len(f) /\ \A i \in 1..Len(x) : x[i] = f[i]
  BY <1>1, <1>2, PrefixIs
<1>6. ~IsPrefix(x, f)
  BY <1>1, <1>2, <1>5
<1>7. IsPrefix(k, f) => IsPrefix(k, x)
  BY <1>1, <1>2, <1>3, <1>4
<1>8. k = x => IsPrefix(k, x)
  BY <1>1, <1>3
<1>9. ASSUME IsPrefix(k, x), k # x PROVE IsPrefix(k, f)
  <2>1. Len(k) # Len(x)
    BY <1>1, <1>3, <1>9, SeqEqual
  <2>2. Len(k) <= Len(f)
    BY <1>1, <1>2, <1>3, <1>9, <2>1
  <2> QED
    BY <1>1, <1>2, <1>3, <1>4, <1>9, <2>2
<1> QED
  BY <1>2, <1>6, <1>7, <1>8, <1>9 DEF Paths, f, S

LEMMA PrefixRoot ==
    ASSUME NEW k \in Paths
    PROVE  (IsPrefix(k, Root) <=> k = Root) /\ IsPrefix(k, k)
<1>1. Root \in Paths /\ Len(Root) = 0
  BY DEF Root, Paths
<1> DEFINE S == Moves \X (Nat \ {0})
<1>s. k \in Seq(S) /\ Root \in Seq(S)
  BY <1>1 DEF Paths
<1> HIDE DEF S
<1>2. IsPrefix(k, Root) <=> Len(k) <= Len(Root) /\ \A i \in 1..Len(k) : k[i] = Root[i]
  BY <1>s, PrefixIs
<1>3. IsPrefix(k, k) <=> Len(k) <= Len(k) /\ \A i \in 1..Len(k) : k[i] = k[i]
  BY <1>s, PrefixIs
<1>4. Len(k) \in Nat
  BY DEF Paths
<1>5. Len(k) = 0 <=> k = Root
  BY DEF Root, Paths
<1> QED
  BY <1>1, <1>2, <1>3, <1>4, <1>5

------------------------------------------------------------------------------
(* The order in which the children of a node are first visited              *)

PrefixClosed == \A x \in DOMAIN tree : \A k \in Paths : IsPrefix(k, x) => k \in DOMAIN tree

\* is_repetition is the answer to a question about the line alone, and what
\* repeats is not asked for.
Repetitions ==
    /\ \A x \in DOMAIN tree : /\ tree[x].is_repetition => Repeats(x)
                              /\ tree[x].rq_sent => ~Repeats(x)
    /\ \A t \in Threads : pc[t] \in {"test", "send"} => ~Repeats(at[t])

\* A node to which somebody has come, and one whose older siblings have been
\* visited or repeat.
Reached(k) ==
    \/ tree[k].rq_sent \/ tree[k].n > 0
    \/ \E t \in Threads : IsPrefix(k, at[t])
    \/ \E j \in jobs : IsPrefix(k, j.now)
AfterElders(x, i) ==
    \A l \in 1..(i - 1) : tree[Kid(x, l)].n # 0 \/ Repeats(Kid(x, l))
InOrder ==
    \A x \in DOMAIN tree :
        tree[x].gen > 0 => \A i \in Moves : Reached(Kid(x, i)) => AfterElders(x, i)

FlightInv == PrefixClosed /\ Repetitions /\ InOrder

LEMMA RepeatsSame == UNCHANGED played => \A x : Repeats(x)' = Repeats(x)
BY DEF Repeats, Line

LEMMA KidFacts ==
    ASSUME TreeInv, NEW x \in DOMAIN tree, tree[x].gen > 0, NEW i \in Moves
    PROVE  /\ Kid(x, i) \in DOMAIN tree /\ Kid(x, i) \in Paths /\ Kid(x, i) # Root
           /\ Father(Kid(x, i)) = x
           /\ \A y \in DOMAIN tree : \A l \in Moves :
                 tree[y].gen > 0 /\ Kid(x, i) = Kid(y, l) => x = y /\ i = l
<1>1. tree[x].gen \in Nat \ {0} /\ x \in Paths
  BY NodeFields DEF TreeInv, NodesType
<1>2. Kid(x, i) \in DOMAIN tree
  BY DEF TreeInv, Family, Kid, KidsOf
<1>3. Kid(x, i) \in Paths /\ Kid(x, i) # Root /\ Father(Kid(x, i)) = x
      /\ Kid(x, i)[Len(Kid(x, i))] = <<i, tree[x].gen>>
  BY <1>1, KidPath DEF Kid
<1>4. ASSUME NEW y \in DOMAIN tree, NEW l \in Moves, tree[y].gen > 0, Kid(x, i) = Kid(y, l)
      PROVE  x = y /\ i = l
  <2>1. tree[y].gen \in Nat \ {0} /\ y \in Paths
    BY <1>4, NodeFields DEF TreeInv, NodesType
  <2>2. Father(Kid(y, l)) = y /\ Kid(y, l)[Len(Kid(y, l))] = <<l, tree[y].gen>>
    BY <2>1, KidPath DEF Kid
  <2>3. <<i, tree[x].gen>> = <<l, tree[y].gen>>
    BY <1>3, <1>4, <2>2
  <2> QED
    BY <1>3, <1>4, <2>2, <2>3
<1> QED
  BY <1>2, <1>3, <1>4

\* Reached after the step.
ReachedThen(k) ==
    \/ tree'[k].rq_sent \/ tree'[k].n > 0
    \/ \E t \in Threads : IsPrefix(k, at'[t])
    \/ \E j \in jobs' : IsPrefix(k, j.now)

\* Visits are not undone, so that the order lasts.
LEMMA OrderKept ==
    ASSUME IndInv, InOrder, DOMAIN tree' = DOMAIN tree, UNCHANGED played,
           \A x \in DOMAIN tree : tree'[x].gen = tree[x].gen /\ (tree[x].n # 0 => tree'[x].n # 0),
           \A x \in DOMAIN tree : \A i \in Moves :
               tree[x].gen > 0 /\ ReachedThen(Kid(x, i)) => Reached(Kid(x, i)) \/ AfterElders(x, i)
    PROVE  InOrder'
<1> SUFFICES ASSUME NEW x \in DOMAIN tree, tree[x].gen > 0, NEW i \in Moves, Reached(Kid(x, i))'
             PROVE  AfterElders(x, i)'
  BY DEF InOrder
<1>1. \A l \in Moves : Kid(x, l)' = Kid(x, l)
  BY DEF Kid
<1>2. ReachedThen(Kid(x, i))
  BY <1>1 DEF Reached, ReachedThen
<1>3. AfterElders(x, i)
  BY <1>2 DEF InOrder
<1>4. ASSUME NEW l \in 1..(i - 1)
      PROVE  tree'[Kid(x, l)].n # 0 \/ Repeats(Kid(x, l))'
  <2>1. l \in Moves
    BY SearchAssumption DEF Moves
  <2>2. Kid(x, l) \in DOMAIN tree /\ Kid(x, l)' = Kid(x, l)
    BY <1>1, <2>1, KidFacts DEF IndInv
  <2>3. Repeats(Kid(x, l))' = Repeats(Kid(x, l))
    BY <2>2 DEF Repeats, Line
  <2> QED
    BY <1>3, <2>2, <2>3 DEF AfterElders
<1>5. \A l \in 1..(i - 1) : Kid(x, l)' = Kid(x, l)
  BY <1>1, SearchAssumption DEF Moves
<1> QED
  BY <1>4, <1>5 DEF AfterElders

\* The way from the root grows by one edge at most.
LEMMA SamePrefix ==
    ASSUME PrefixClosed, IndInv, NEW x \in DOMAIN tree, NEW k \in Paths, IsPrefix(k, x)
    PROVE  k \in DOMAIN tree
BY DEF PrefixClosed

LEMMA FatherPrefix ==
    ASSUME TreeInv, NEW x \in DOMAIN tree, x # Root, NEW k \in Paths, IsPrefix(k, Father(x))
    PROVE  IsPrefix(k, x)
<1>1. x \in Paths
  BY DEF TreeInv, NodesType
<1> QED
  BY <1>1, PrefixStep

LEMMA RootPrefix ==
    ASSUME NEW k \in Paths, k # Root
    PROVE  ~IsPrefix(k, Root)
BY PrefixRoot

\* Where the callback of a job is after a step.
LEMMA CallbackNow ==
    ASSUME IndInv, NEW j \in jobs, CallbackStep(j) \/ Aside(j) \/ Retry(j), NEW m \in jobs'
    PROVE  \/ m \in jobs
           \/ m.now = j.now
           \/ j.now # Root /\ m.now = Father(j.now)
<1>1. j \in JobType
  BY DEF IndInv, JobsType, JobType
<1>2. CASE JobTotal(j) /\ GoesOn(j.now)
  <2> DEFINE k == [j EXCEPT !.now = Father(j.now), !.step = "edge"]
  <2>1. Becomes(j, k) /\ j.now # Root
    BY <1>2 DEF JobTotal, GoesOn
  <2>2. k.now = Father(j.now)
    BY <1>1 DEF JobType
  <2> HIDE DEF k
  <2> QED
    BY <2>1, <2>2 DEF Becomes
<1>3. ASSUME NEW s, StepTo(j, s) PROVE m \in jobs \/ m.now = j.now
  <2> DEFINE k == [j EXCEPT !.step = s]
  <2>1. k.now = j.now
    BY <1>1 DEF JobType
  <2>2. Becomes(j, k)
    BY <1>3 DEF StepTo
  <2> HIDE DEF k
  <2> QED
    BY <2>1, <2>2 DEF Becomes
<1>4. CASE ReadInvalid(j)
  <2> DEFINE k == [j EXCEPT !.invalid = tree[j.leaf].invalid_visit,
                            !.step = IF HasFather(j.leaf) THEN "edge" ELSE "end"]
  <2>1. k.now = j.now
    BY <1>1 DEF JobType
  <2>2. Becomes(j, k)
    BY <1>4 DEF ReadInvalid
  <2> HIDE DEF k
  <2> QED
    BY <2>1, <2>2 DEF Becomes
<1>5. CASE Aside(j)
  BY <1>5, AsideJob DEF Becomes
<1> QED
  BY <1>2, <1>3, <1>4, <1>5 DEF CallbackStep, Retry, Expand, SetReady, JobEdge, JobTotal, Retire

\* Where a thread is after a step.
LEMMA ThreadAt ==
    ASSUME IndInv, NEW t \in Threads, ThreadStep(t)
    PROVE  \/ at'[t] = at[t] \/ at'[t] = Root
           \/ at[t] # Root /\ at'[t] = Father(at[t])
           \/ Select(t)
<1>1. at \in [Threads -> DOMAIN tree]
  BY DEF IndInv, ThreadsType
<1>2. CASE ThreadTotal(t)
  BY <1>1, <1>2 DEF ThreadTotal, Again, GoesOn
<1> QED
  BY <1>1, <1>2 DEF ThreadStep, Again, Break, Round, AwaitRoot, SelectEnds, SelectNothing,
     LeafRepeats, LeafDecided, LeafOpen, Test, Send, Late, ThreadEdge, Over

\* But for the selection, a step reaches no node that was not reached.
LEMMA ThreadReaches ==
    ASSUME IndInv, NEW t \in Threads, ThreadStep(t), NEW k \in DOMAIN tree, k # Root,
           ReachedThen(k), ~Reached(k)
    PROVE  Select(t) /\ IsPrefix(k, at'[t])
<1>1. k \in Paths /\ at[t] \in DOMAIN tree /\ at[t] \in Paths /\ TreeInv
  BY DEF IndInv, ThreadsType, TreeInv, NodesType
<1>2. ~tree'[k].rq_sent
  <2>1. CASE Send(t)
    <3>1. k # at[t]
      BY <1>1, PrefixRoot DEF Reached
    <3> QED
      BY <2>1, <3>1, SentWrites DEF Reached, Send
  <2> QED
    BY <2>1, ThreadWrites DEF Reached
<1>3. tree'[k].n = tree[k].n
  <2>1. CASE ThreadEdge(t)
    <3>1. k # at[t]
      BY <1>1, PrefixRoot DEF Reached
    <3> QED
      BY <2>1, <3>1, EdgeWrites DEF ThreadEdge
  <2> QED
    BY <2>1, ThreadWrites
<1>4. \A j \in jobs' : ~IsPrefix(k, j.now)
  BY ThreadAsks DEF Reached
<1>5. \A u \in Threads \ {t} : ~IsPrefix(k, at'[u])
  BY ThreadSends DEF Reached
<1>6. IsPrefix(k, at'[t])
  BY <1>2, <1>3, <1>4, <1>5 DEF ReachedThen, Reached
<1>7. ~IsPrefix(k, Root)
  BY <1>1, PrefixRoot
<1>8. at[t] # Root => ~IsPrefix(k, Father(at[t]))
  BY <1>1, FatherPrefix DEF Reached
<1> QED
  BY <1>6, <1>7, <1>8, ThreadAt DEF Reached

\* A child with a score that nobody has come to has its elder siblings visited
\* or left out for their repetition: of children without a visit the pruning
\* takes all or none.
LEMMA ScoredInOrder ==
    ASSUME IndInv, Repetitions, NEW t \in Threads, NEW x \in DOMAIN tree, tree[x].gen > 0,
           NEW i \in Scored(t, x), tree[Kid(x, i)].n = 0
    PROVE  AfterElders(x, i)
<1>1. i \in Moves /\ ~Skipped(t, x, i)
  BY DEF Scored
<1>2. ASSUME NEW l \in 1..(i - 1), tree[Kid(x, l)].n = 0
      PROVE  Repeats(Kid(x, l))
  <2>1. Skipped(t, x, l)
    BY <1>2 DEF Scored
  <2>2. tree[Kid(x, l)].is_repetition
    BY <1>1, <1>2, <2>1 DEF Skipped
  <2>3. l \in Moves
    BY <1>1, SearchAssumption DEF Moves
  <2>4. Kid(x, l) \in DOMAIN tree
    BY <2>3, KidFacts DEF IndInv
  <2> QED
    BY <2>2, <2>4 DEF Repetitions
<1> QED
  BY <1>2 DEF AfterElders

LEMMA ThreadInOrder ==
    ASSUME IndInv, FlightInv, NEW t \in Threads, ThreadStep(t)
    PROVE  InOrder'
<1>1. DOMAIN tree' = DOMAIN tree /\ \A x \in DOMAIN tree : tree'[x].gen = tree[x].gen
  BY ThreadKeeps DEF Kept
<1>2. UNCHANGED played
  BY DEF ThreadStep, gameVars, Break, Round, AwaitRoot, Select, SelectEnds, SelectNothing,
     LeafRepeats, LeafDecided, LeafOpen, Test, Send, Late, ThreadEdge, ThreadTotal, Over
<1>3. ASSUME NEW x \in DOMAIN tree, tree[x].n # 0
      PROVE  tree'[x].n # 0
  <2>1. tree[x].n \in Nat
    BY NodeThere DEF NodeType
  <2>2. CASE ThreadEdge(t)
    <3>1. tree'[x].n = IF x = at[t] THEN tree[x].n + 1 ELSE tree[x].n
      BY <2>2, EdgeWrites DEF ThreadEdge
    <3> QED
      BY <1>3, <2>1, <3>1
  <2> QED
    BY <1>3, <2>2, ThreadWrites
<1>4. ASSUME NEW x \in DOMAIN tree, NEW i \in Moves, tree[x].gen > 0,
             ReachedThen(Kid(x, i)), ~Reached(Kid(x, i))
      PROVE  AfterElders(x, i)
  <2>1. /\ Kid(x, i) \in DOMAIN tree /\ Kid(x, i) \in Paths /\ Kid(x, i) # Root
        /\ TreeInv /\ at[t] \in DOMAIN tree /\ at \in [Threads -> DOMAIN tree]
    BY <1>4, KidFacts DEF IndInv, ThreadsType
  <2>2. Select(t) /\ IsPrefix(Kid(x, i), at'[t])
    BY <1>4, <2>1, ThreadReaches
  <2>3. PICK b \in Scored(t, at[t]) : at' = [at EXCEPT ![t] = Kid(at[t], b)]
    BY <2>2 DEF Select
  <2>4. b \in Moves /\ tree[at[t]].gen > 0
    BY <2>1, <2>2, <2>3 DEF Scored, Select, TreeInv, ReadyHasKids
  <2>5. /\ Kid(at[t], b) \in Paths /\ Kid(at[t], b) # Root /\ Father(Kid(at[t], b)) = at[t]
    BY <2>1, <2>4, KidFacts
  <2>6. IsPrefix(Kid(x, i), Kid(at[t], b)) /\ ~IsPrefix(Kid(x, i), at[t])
    BY <1>4, <2>1, <2>2, <2>3 DEF Reached
  <2>7. Kid(x, i) = Kid(at[t], b)
    BY <2>1, <2>5, <2>6, PrefixStep
  <2>8. x = at[t] /\ i = b
    BY <1>4, <2>1, <2>4, <2>7, KidFacts
  <2>9. tree[Kid(x, i)].n = 0
    BY <1>4, <2>1, NodeThere DEF Reached, NodeType
  <2> QED
    BY <1>4, <2>3, <2>8, <2>9, ScoredInOrder DEF FlightInv
<1> QED
  BY <1>1, <1>2, <1>3, <1>4, OrderKept DEF FlightInv

LEMMA ThreadRepetitions ==
    ASSUME IndInv, FlightInv, NEW t \in Threads, ThreadStep(t)
    PROVE  Repetitions'
<1>1. DOMAIN tree' = DOMAIN tree /\ TreeInv /\ at[t] \in DOMAIN tree
      /\ pc \in [Threads -> Steps] /\ at \in [Threads -> DOMAIN tree]
  BY ThreadKeeps DEF Kept, IndInv, ThreadsType
<1>2. UNCHANGED played
  BY DEF ThreadStep, gameVars, Break, Round, AwaitRoot, Select, SelectEnds, SelectNothing,
     LeafRepeats, LeafDecided, LeafOpen, Test, Send, Late, ThreadEdge, ThreadTotal, Over
<1>3. \A x : Repeats(x)' = Repeats(x)
  BY <1>2, RepeatsSame
<1>4. ASSUME NEW x \in DOMAIN tree, tree'[x].is_repetition
      PROVE  Repeats(x)
  <2>1. tree[x] \in NodeType
    BY NodeThere
  <2>2. CASE LeafRepeats(t) /\ x = at[t]
    BY <2>2 DEF LeafRepeats
  <2>3. CASE ~(LeafRepeats(t) /\ x = at[t])
    <3>1. tree[x].is_repetition
      <4>1. CASE Select(t)
        BY <1>4, <2>1, <4>1 DEF NodeType, Select
      <4>2. CASE LeafRepeats(t)
        BY <1>4, <2>1, <2>3, <4>2 DEF NodeType, LeafRepeats
      <4>3. CASE LeafDecided(t) \/ LeafOpen(t)
        BY <1>4, <2>1, <4>3 DEF NodeType, LeafDecided, LeafOpen
      <4>4. CASE Send(t) \/ Late(t)
        BY <1>4, <2>1, <4>4 DEF NodeType, Send, Late
      <4>5. CASE ThreadEdge(t)
        BY <1>4, <2>1, <4>5 DEF NodeType, ThreadEdge, UpdateEdge
      <4>6. CASE ThreadTotal(t)
        BY <1>4, <2>1, <4>6 DEF NodeType, ThreadTotal, UpdateTotal
      <4> QED
        BY <1>4, <4>1, <4>2, <4>3, <4>4, <4>5, <4>6
        DEF ThreadStep, Break, Round, AwaitRoot, SelectEnds, SelectNothing, Test, Over
    <3> QED
      BY <3>1 DEF FlightInv, Repetitions
  <2> QED
    BY <2>2, <2>3
<1>5. ASSUME NEW x \in DOMAIN tree, tree'[x].rq_sent
      PROVE  ~Repeats(x)
  <2>1. CASE Send(t) /\ x = at[t]
    BY <2>1 DEF Send, FlightInv, Repetitions
  <2>2. CASE ~(Send(t) /\ x = at[t])
    <3>1. tree[x].rq_sent
      <4>1. CASE Send(t)
        BY <1>5, <2>2, <4>1, SentWrites DEF Send
      <4> QED
        BY <1>5, <4>1, ThreadWrites
    <3> QED
      BY <3>1 DEF FlightInv, Repetitions
  <2> QED
    BY <2>1, <2>2
<1>6. ASSUME NEW u \in Threads, pc'[u] \in {"test", "send"}
      PROVE  ~Repeats(at'[u])
  <2>1. CASE u # t
    BY <1>6, <2>1, ThreadSends DEF FlightInv, Repetitions
  <2>2. CASE u = t
    <3>1. at'[t] = at[t] /\ (LeafOpen(t) \/ Test(t))
      BY <1>1, <1>6, <2>2 DEF ThreadStep, Go, Again, Break, Round, AwaitRoot, Select,
         SelectEnds, SelectNothing, LeafRepeats, LeafDecided, LeafOpen, Test, Send, Late,
         ThreadEdge, ThreadTotal, Over
    <3> QED
      BY <2>2, <3>1 DEF LeafOpen, Test, FlightInv, Repetitions
  <2> QED
    BY <2>1, <2>2
<1>7. \A u \in Threads : Repeats(at[u])' = Repeats(at'[u])
  BY <1>2 DEF Repeats, Line
<1> QED
  BY <1>1, <1>3, <1>4, <1>5, <1>6, <1>7 DEF Repetitions

LEMMA CallbackRest ==
    ASSUME NEW j \in jobs, CallbackStep(j) \/ Aside(j) \/ Retry(j)
    PROVE  /\ UNCHANGED <<pc, at, counted, played>>
           /\ ~Expand(j) => DOMAIN tree' = DOMAIN tree
<1>1. UNCHANGED <<pc, at, counted, played>>
  BY DEF gameVars, CallbackStep, Aside, Retry, Expand, SetReady, ReadInvalid, JobEdge,
     JobTotal, Retire
<1>2. ~Expand(j) => DOMAIN tree' = DOMAIN tree
  BY DEF CallbackStep, Aside, Retry, SetReady, ReadInvalid, JobEdge, UpdateEdge, JobTotal,
     UpdateTotal, Retire
<1> QED
  BY <1>1, <1>2

\* A callback reaches no node either.
LEMMA CallbackReaches ==
    ASSUME IndInv, NEW j \in jobs, CallbackStep(j) \/ Aside(j) \/ Retry(j),
           NEW k \in DOMAIN tree, k # Root, ReachedThen(k)
    PROVE  Reached(k)
<1> SUFFICES ASSUME ~Reached(k) PROVE FALSE
  OBVIOUS
<1>1. k \in Paths /\ j.now \in DOMAIN tree /\ j.now \in Paths /\ TreeInv
  BY DEF IndInv, JobsType, TreeInv, NodesType
<1>2. ~tree'[k].rq_sent
  BY CallbackWrites DEF Reached
<1>3. tree'[k].n = tree[k].n
  <2>1. CASE JobEdge(j)
    <3>1. k # j.now
      BY <1>1, PrefixRoot DEF Reached
    <3> QED
      BY <2>1, <3>1, EdgeWrites DEF JobEdge
  <2> QED
    BY <2>1, CallbackWrites
<1>4. \A u \in Threads : ~IsPrefix(k, at'[u])
  BY CallbackRest DEF Reached
<1>5. j.now # Root => ~IsPrefix(k, Father(j.now))
  BY <1>1, FatherPrefix DEF Reached
<1>6. \A m \in jobs' : ~IsPrefix(k, m.now)
  BY <1>5, CallbackNow DEF Reached
<1> QED
  BY <1>2, <1>3, <1>4, <1>6 DEF ReachedThen, Reached

\* New children have been reached by nobody.
LEMMA ExpandInOrder ==
    ASSUME IndInv, FlightInv, NEW j \in jobs, Expand(j)
    PROVE  InOrder'
<1>1. DOMAIN tree' = DOMAIN tree \cup NewKids(j.leaf)
      /\ \A k \in NewKids(j.leaf) : tree'[k] = NewNode /\ k \notin DOMAIN tree
  BY ExpandWrites
<1>2. TreeInv /\ j.leaf \in DOMAIN tree /\ UNCHANGED <<at, played>>
  BY DEF IndInv, JobsType, Expand, gameVars
<1>s. ASSUME NEW y \in DOMAIN tree
      PROVE  /\ tree'[y].n = tree[y].n /\ tree'[y].rq_sent = tree[y].rq_sent
             /\ tree'[y].gen = IF y = j.leaf THEN tree[y].gen + 1 ELSE tree[y].gen
  BY ExpandWrites DEF Same
<1>3. \A m \in jobs' : m.now \in DOMAIN tree
  <2>1. \A m \in jobs' : m \in jobs \/ m.now = j.now \/ (j.now # Root /\ m.now = Father(j.now))
    BY CallbackNow DEF CallbackStep
  <2>2. j.now # Root => Father(j.now) \in DOMAIN tree
    BY <1>2, FatherThere DEF IndInv, JobsType
  <2> QED
    BY <2>1, <2>2 DEF IndInv, JobsType
<1> SUFFICES ASSUME NEW x \in DOMAIN tree', tree'[x].gen > 0, NEW i \in Moves,
                    Reached(Kid(x, i))'
             PROVE  AfterElders(x, i)'
  BY DEF InOrder
<1>4. x \in DOMAIN tree
  BY <1>1 DEF NewNode
<1>5. Kid(x, i)' = Append(x, <<i, tree'[x].gen>>)
  BY DEF Kid
<1>6. CASE x = j.leaf
  <2>1. tree'[x].gen = tree[x].gen + 1
    BY <1>s, <1>4, <1>6
  <2> DEFINE k == Append(x, <<i, tree[x].gen + 1>>)
  <2>2. k \in NewKids(j.leaf) /\ Kid(x, i)' = k
    BY <1>5, <1>6, <2>1 DEF NewKids, KidsOf
  <2>3. k \in Paths /\ k # Root
    <3>1. x \in Paths /\ tree[x].gen + 1 \in Nat \ {0}
      BY <1>2, <1>4, NodeFields DEF TreeInv, NodesType
    <3> QED
      BY <3>1, KidPath
  <2> HIDE DEF k
  <2>4. tree'[k].rq_sent = FALSE /\ tree'[k].n = 0 /\ k \notin DOMAIN tree
    BY <1>1, <2>2 DEF NewNode
  <2>5. \A t \in Threads : ~IsPrefix(k, at[t])
    BY <1>2, <2>3, <2>4, SamePrefix DEF FlightInv, IndInv, ThreadsType
  <2>6. \A m \in jobs' : ~IsPrefix(k, m.now)
    BY <1>3, <2>3, <2>4, SamePrefix DEF FlightInv
  <2>7. ~Reached(Kid(x, i))'
    BY <1>2, <2>2, <2>4, <2>5, <2>6 DEF Reached
  <2> QED
    BY <2>7
<1>7. CASE x # j.leaf
  <2>1. tree'[x].gen = tree[x].gen
    BY <1>s, <1>4, <1>7
  <2>2. \A l \in Moves : Kid(x, l)' = Kid(x, l) /\ Kid(x, l) \in DOMAIN tree
    BY <1>2, <1>4, <2>1, KidFacts DEF Kid
  <2>3. Kid(x, i) # Root /\ Kid(x, i) \in DOMAIN tree
    BY <1>2, <1>4, <2>1, KidFacts
  <2>4. ReachedThen(Kid(x, i))
    BY <2>2 DEF Reached, ReachedThen
  <2>5. Reached(Kid(x, i))
    BY <2>3, <2>4, CallbackReaches DEF CallbackStep
  <2>6. AfterElders(x, i)
    BY <1>4, <2>1, <2>5 DEF FlightInv, InOrder
  <2>7. ASSUME NEW l \in 1..(i - 1)
        PROVE  (tree[Kid(x, l)].n # 0)' \/ Repeats(Kid(x, l))'
    <3>1. l \in Moves
      BY SearchAssumption DEF Moves
    <3>2. Kid(x, l)' = Kid(x, l) /\ tree'[Kid(x, l)].n = tree[Kid(x, l)].n
      BY <1>s, <2>2, <3>1
    <3>3. Repeats(Kid(x, l))' = Repeats(Kid(x, l))
      BY <1>2, <3>2 DEF Repeats, Line
    <3>4. tree[Kid(x, l)].n # 0 \/ Repeats(Kid(x, l))
      BY <2>6 DEF AfterElders
    <3> QED
      BY <3>2, <3>3, <3>4
  <2> QED
    BY <2>7 DEF AfterElders
<1> QED
  BY <1>6, <1>7

LEMMA CallbackInOrder ==
    ASSUME IndInv, FlightInv, NEW j \in jobs, CallbackStep(j) \/ Aside(j) \/ Retry(j), ~Expand(j)
    PROVE  InOrder'
<1>1. DOMAIN tree' = DOMAIN tree /\ UNCHANGED played /\ TreeInv /\ j \in JobType
  BY CallbackRest DEF IndInv, JobsType, JobType
<1>2. ASSUME NEW x \in DOMAIN tree
      PROVE  tree'[x].gen = tree[x].gen /\ (tree[x].n # 0 => tree'[x].n # 0)
  <2>1. tree[x] \in NodeType
    BY NodeThere
  <2>2. tree'[x].gen = tree[x].gen
    BY <2>1 DEF NodeType, CallbackStep, Aside, Retry, SetReady, ReadInvalid, JobEdge,
       UpdateEdge, JobTotal, UpdateTotal, Retire
  <2>3. CASE JobEdge(j)
    <3>1. tree'[x].n = IF x = j.now THEN tree[x].n + 1 ELSE tree[x].n
      BY <2>3, EdgeWrites DEF JobEdge
    <3>2. tree[x].n \in Nat
      BY <2>1 DEF NodeType
    <3> QED
      BY <2>2, <3>1, <3>2
  <2>4. CASE ~JobEdge(j)
    BY <2>2, <2>4, CallbackWrites
  <2> QED
    BY <2>3, <2>4
<1>3. ASSUME NEW x \in DOMAIN tree, NEW i \in Moves, tree[x].gen > 0, ReachedThen(Kid(x, i))
      PROVE  Reached(Kid(x, i))
  BY <1>1, <1>3, KidFacts, CallbackReaches
<1> QED
  BY <1>1, <1>2, <1>3, OrderKept DEF FlightInv

LEMMA CallbackRepetitions ==
    ASSUME IndInv, FlightInv, NEW j \in jobs, CallbackStep(j) \/ Aside(j) \/ Retry(j)
    PROVE  Repetitions'
<1>1. UNCHANGED <<pc, at, counted, played>>
  BY CallbackRest
<1>2. \A x : Repeats(x)' = Repeats(x)
  BY <1>1, RepeatsSame
<1>3. \A t \in Threads : Repeats(at[t])' = Repeats(at[t])
  BY <1>1 DEF Repeats, Line
<1>4. ASSUME NEW x \in DOMAIN tree
      PROVE  tree'[x].is_repetition = tree[x].is_repetition /\ tree'[x].rq_sent = tree[x].rq_sent
  <2>1. tree[x] \in NodeType
    BY NodeThere
  <2>2. CASE Expand(j)
    BY <2>2, ExpandWrites DEF Same
  <2>3. CASE ~Expand(j)
    <3>1. tree'[x].is_repetition = tree[x].is_repetition
      BY <2>1, <2>3 DEF NodeType, CallbackStep, Aside, Retry, SetReady, ReadInvalid, JobEdge,
         UpdateEdge, JobTotal, UpdateTotal, Retire
    <3> QED
      BY <3>1, CallbackWrites
  <2> QED
    BY <2>2, <2>3
<1>5. ASSUME NEW x \in DOMAIN tree', x \notin DOMAIN tree
      PROVE  tree'[x] = NewNode
  BY <1>5, CallbackRest, ExpandWrites
<1>6. ASSUME NEW x \in DOMAIN tree'
      PROVE  (tree'[x].is_repetition => Repeats(x)) /\ (tree'[x].rq_sent => ~Repeats(x))
  <2>1. CASE x \in DOMAIN tree
    BY <1>4, <2>1 DEF FlightInv, Repetitions
  <2>2. CASE x \notin DOMAIN tree
    BY <1>5, <2>2 DEF NewNode
  <2> QED
    BY <2>1, <2>2
<1>7. \A t \in Threads : pc[t] \in {"test", "send"} => ~Repeats(at[t])
  BY DEF FlightInv, Repetitions
<1> QED
  BY <1>1, <1>2, <1>3, <1>6, <1>7 DEF Repetitions

\* A new child is below a node that was there.
LEMMA StepClosed ==
    ASSUME IndInv, PrefixClosed, [Next]_vars
    PROVE  PrefixClosed'
<1>1. CASE DOMAIN tree' = DOMAIN tree
  BY <1>1 DEF PrefixClosed
<1>2. CASE \E t \in Threads : ThreadStep(t)
  BY <1>1, <1>2, ThreadKeeps DEF Kept
<1>3. ASSUME NEW j \in jobs, Expand(j)
      PROVE  PrefixClosed'
  <2>1. DOMAIN tree' = DOMAIN tree \cup NewKids(j.leaf)
    BY <1>3, ExpandWrites
  <2>2. TreeInv /\ j.leaf \in DOMAIN tree
    BY DEF IndInv, JobsType
  <2>3. j.leaf \in Paths /\ tree[j.leaf].gen + 1 \in Nat \ {0}
    BY <2>2, NodeFields DEF TreeInv, NodesType
  <2>4. ASSUME NEW x \in NewKids(j.leaf), NEW k \in Paths, IsPrefix(k, x)
        PROVE  k \in DOMAIN tree'
    <3>0. PICK i \in Moves : x = Append(j.leaf, <<i, tree[j.leaf].gen + 1>>)
      BY DEF NewKids, KidsOf
    <3>1. x \in Paths /\ x # Root /\ Father(x) = j.leaf
      BY <2>3, <3>0, KidPath
    <3>2. k = x \/ IsPrefix(k, j.leaf)
      BY <2>4, <3>1, PrefixStep
    <3> QED
      BY <2>1, <2>2, <3>2, SamePrefix
  <2>5. \A x \in DOMAIN tree : \A k \in Paths : IsPrefix(k, x) => k \in DOMAIN tree'
    BY <2>1, SamePrefix
  <2> QED
    BY <2>1, <2>4, <2>5 DEF PrefixClosed
<1>4. CASE \E j \in jobs : CallbackStep(j) \/ Aside(j) \/ Retry(j)
  BY <1>1, <1>3, <1>4, CallbackRest
<1> QED
  BY <1>1, <1>2, <1>4 DEF Next, Ended, vars

LEMMA StepFlight == IndInv /\ FlightInv /\ [Next]_vars => FlightInv'
<1> SUFFICES ASSUME IndInv, FlightInv, [Next]_vars PROVE FlightInv'
  OBVIOUS
<1>1. PrefixClosed'
  BY StepClosed DEF FlightInv
<1>2. CASE UNCHANGED vars
  <2>1. Repetitions'
    <3>1. \A x : Repeats(x)' = Repeats(x)
      BY <1>2, RepeatsSame DEF vars, gameVars
    <3>2. \A t \in Threads : Repeats(at[t])' = Repeats(at[t])
      BY <1>2 DEF Repeats, Line, vars, gameVars
    <3> QED
      BY <1>2, <3>1, <3>2 DEF FlightInv, Repetitions, vars
  <2>2. \A x \in DOMAIN tree : \A i \in Moves : ReachedThen(Kid(x, i)) => Reached(Kid(x, i))
    BY <1>2 DEF Reached, ReachedThen, vars
  <2>3. InOrder'
    BY <1>2, <2>2, OrderKept DEF FlightInv, vars, gameVars
  <2> QED
    BY <1>1, <2>1, <2>3 DEF FlightInv
<1>3. CASE \E t \in Threads : ThreadStep(t)
  BY <1>1, <1>3, ThreadInOrder, ThreadRepetitions DEF FlightInv
<1>4. CASE \E j \in jobs : CallbackStep(j) \/ Aside(j) \/ Retry(j)
  <2>1. Repetitions'
    BY <1>4, CallbackRepetitions
  <2>2. InOrder'
    BY <1>4, CallbackInOrder, ExpandInOrder
  <2> QED
    BY <1>1, <2>1, <2>2 DEF FlightInv
<1> QED
  BY <1>2, <1>3, <1>4 DEF Next, Ended

LEMMA InitFlight == Init => FlightInv
<1> SUFFICES ASSUME Init PROVE FlightInv
  OBVIOUS
<1>1. DOMAIN tree = {Root} /\ tree[Root] = NewNode /\ \A t \in Threads : pc[t] = "top"
  BY DEF Init, NewTree
<1>2. PrefixClosed
  BY <1>1, PrefixRoot DEF PrefixClosed
<1>3. Repetitions
  BY <1>1 DEF Repetitions, NewNode
<1>4. InOrder
  BY <1>1 DEF InOrder, NewNode
<1> QED
  BY <1>2, <1>3, <1>4 DEF FlightInv

LEMMA FlightMeans ==
    ASSUME IndInv, FlightInv
    PROVE  OneKidInFlight
<1> SUFFICES ASSUME NEW x \in DOMAIN tree, tree[x].gen > 0
             PROVE  Cardinality({i \in Moves : tree[Kid(x, i)].rq_sent /\ tree[Kid(x, i)].n = 0}) <= 1
  BY DEF OneKidInFlight
<1> DEFINE F == {i \in Moves : tree[Kid(x, i)].rq_sent /\ tree[Kid(x, i)].n = 0}
<1>1. ASSUME NEW l \in F, NEW i \in F, l < i
      PROVE  FALSE
  <2>1. l \in Moves /\ i \in Moves /\ l \in 1..(i - 1)
    BY <1>1, SearchAssumption DEF Moves
  <2>2. AfterElders(x, i)
    BY <2>1 DEF FlightInv, InOrder, Reached
  <2>3. Repeats(Kid(x, l))
    BY <2>1, <2>2 DEF AfterElders
  <2>4. ~Repeats(Kid(x, l))
    BY <2>1, KidFacts DEF IndInv, FlightInv, Repetitions
  <2> QED
    BY <2>3, <2>4
<1>2. \A l, i \in F : l = i
  <2>1. \A l \in F : l \in Int
    BY SearchAssumption DEF Moves
  <2> HIDE DEF F
  <2> QED
    BY <1>1, <2>1
<1> HIDE DEF F
<1>3. F = {} => Cardinality(F) = 0
  BY FS_EmptySet
<1>4. ASSUME F # {} PROVE Cardinality(F) = 1
  <2>1. PICK l \in F : TRUE
    BY <1>4
  <2>2. F = {l}
    BY <1>2, <2>1
  <2> QED
    BY <2>2, FS_Singleton
<1>5. Cardinality(F) <= 1
  BY <1>3, <1>4
<1> QED
  BY <1>5 DEF F

\* However many threads select and however the answers overlap, no two children
\* of a node wait for their first visit: the scan of mcts_select_path ends at
\* the first child without a visit, and the pruning of the root takes all of
\* the children without one or none.
THEOREM KidsTakeTurns == Spec => []OneKidInFlight
<1> DEFINE Inv == IndInv /\ FlightInv
<1>1. Init => Inv
  BY InitInv, InitFlight
<1>2. Inv /\ [Next]_vars => Inv'
  BY StepInv, StepFlight
<1>3. Inv => OneKidInFlight
  BY FlightMeans
<1> QED
  BY <1>1, <1>2, <1>3, PTL DEF Spec

------------------------------------------------------------------------------
(* One search thread                                                        *)

OneThread == Cardinality(Threads) = 1

LEMMA OnlyThread ==
    ASSUME OneThread, NEW t \in Threads, NEW u \in Threads
    PROVE  t = u
<1>1. IsFiniteSet(Threads) /\ IsFiniteSet(Threads \ {t})
      /\ Cardinality(Threads \ {t}) = Cardinality(Threads) - 1
  BY SearchAssumption, FS_RemoveElement
<1>2. Cardinality(Threads \ {t}) = 0
  BY <1>1 DEF OneThread
<1>3. Threads \ {t} = {}
  BY <1>1, <1>2, FS_EmptySet
<1> QED
  BY <1>3

\* Nobody sets rq_sent between the thread's test of it and its request, so that
\* a leaf is asked for once; until then no visit of it is invalid, and until
\* the answer it has no children.
SoloNodes ==
    \A x \in DOMAIN tree : /\ tree[x].gen <= 1
                           /\ tree[x].gen > 0 => tree[x].rq_sent
                           /\ ~tree[x].rq_sent => tree[x].invalid_visit = 0
SoloJobs ==
    \A j \in jobs : /\ j.step \in {"asked", "aside"} => tree[j.leaf].gen = 0
                    /\ j.step \in {"asked", "aside", "flag", "read"} => j.now = j.leaf
SoloThread ==
    \A t \in Threads : /\ pc[t] \in {"top", "wait", "poll", "over"} => at[t] = Root
                       /\ pc[t] = "send" => ~tree[at[t]].rq_sent
                       /\ pc[t] = "late" => tree[at[t]].rq_sent
SoloInv == SoloNodes /\ SoloJobs /\ SoloThread

LEMMA OneJob ==
    ASSUME OneThread, IndInv, RequestInv, NEW j \in jobs, NEW k \in jobs, j.leaf = k.leaf
    PROVE  j = k
<1>1. j.by \in Threads /\ k.by \in Threads
  BY DEF IndInv, JobsType
<1>2. j.by = k.by
  BY <1>1, OnlyThread
<1> QED
  BY <1>2 DEF RequestInv, Distinct

LEMMA ThreadSolo ==
    ASSUME OneThread, IndInv, RequestInv, SoloInv, NEW t \in Threads, ThreadStep(t)
    PROVE  SoloInv'
<1>1. /\ DOMAIN tree' = DOMAIN tree /\ \A x \in DOMAIN tree : tree'[x].gen = tree[x].gen
      /\ TreeInv /\ at[t] \in DOMAIN tree
      /\ pc \in [Threads -> Steps] /\ at \in [Threads -> DOMAIN tree]
  BY ThreadKeeps DEF Kept, IndInv, ThreadsType
<1>2. SoloNodes'
  <2>1. ASSUME NEW x \in DOMAIN tree, ~tree'[x].rq_sent
        PROVE  tree'[x].invalid_visit = 0
    <3>1. ~tree[x].rq_sent /\ tree[x].invalid_visit = 0
      BY <2>1, ThreadWrites DEF SoloInv, SoloNodes
    <3>2. CASE Late(t)
      <4>1. x # at[t]
        BY <3>1, <3>2 DEF Late, SoloInv, SoloThread
      <4> QED
        BY <3>1, <3>2, <4>1, InvalidWrites DEF Late
    <3> QED
      BY <3>1, <3>2, ThreadWrites
  <2> QED
    BY <1>1, <2>1, ThreadWrites DEF SoloInv, SoloNodes
<1>3. SoloJobs'
  <2>1. CASE UNCHANGED jobs
    BY <1>1, <2>1 DEF SoloInv, SoloJobs, IndInv, JobsType
  <2>2. ASSUME Send(t), NEW k \in JobType, jobs' = jobs \cup {k}, k.leaf = at[t], k.now = at[t]
        PROVE  SoloJobs'
    <3>1. ~tree[at[t]].rq_sent
      BY <2>2 DEF Send, SoloInv, SoloThread
    <3>2. tree[at[t]].gen = 0
      <4>1. tree[at[t]].gen \in Nat
        BY <1>1, NodeFields
      <4> QED
        BY <1>1, <3>1, <4>1 DEF SoloInv, SoloNodes
    <3> QED
      BY <1>1, <2>2, <3>2 DEF SoloInv, SoloJobs, IndInv, JobsType
  <2> QED
    BY <2>1, <2>2, ThreadAsks
<1>4. SoloThread'
  <2>1. pc'[t] \in {"top", "wait", "poll", "over"} => at'[t] = Root
    BY <1>1 DEF SoloInv, SoloThread, ThreadStep, Go, Again, Break, Round, AwaitRoot, Select,
       SelectEnds, SelectNothing, LeafRepeats, LeafDecided, LeafOpen, Test, Send, Late,
       ThreadEdge, ThreadTotal, Over
  <2>2. pc'[t] \in {"send", "late"} => Test(t)
    BY <1>1 DEF ThreadStep, Go, Again, Break, Round, AwaitRoot, Select,
       SelectEnds, SelectNothing, LeafRepeats, LeafDecided, LeafOpen, Test, Send, Late,
       ThreadEdge, ThreadTotal, Over
  <2>3. CASE Test(t)
    BY <1>1, <2>1, <2>3, OnlyThread DEF SoloThread, Test, Go, SentBefore
  <2>4. CASE ~Test(t)
    BY <2>1, <2>2, <2>4, OnlyThread DEF SoloThread
  <2> QED
    BY <2>3, <2>4
<1> QED
  BY <1>2, <1>3, <1>4 DEF SoloInv

LEMMA ExpandSolo ==
    ASSUME OneThread, IndInv, RequestInv, SoloInv, NEW j \in jobs, Expand(j)
    PROVE  SoloInv'
<1>1. j \in JobType /\ j.leaf \in DOMAIN tree /\ j.step = "asked" /\ UNCHANGED <<pc, at>>
  BY DEF IndInv, JobsType, JobType, Expand
<1>2. DOMAIN tree' = DOMAIN tree \cup NewKids(j.leaf)
      /\ \A k \in NewKids(j.leaf) : tree'[k] = NewNode /\ k \notin DOMAIN tree
  BY ExpandWrites
<1>3. ASSUME NEW x \in DOMAIN tree
      PROVE  /\ tree'[x].gen = IF x = j.leaf THEN tree[x].gen + 1 ELSE tree[x].gen
             /\ tree'[x].rq_sent = tree[x].rq_sent
             /\ tree'[x].invalid_visit = tree[x].invalid_visit
  BY ExpandWrites DEF Same
<1>4. tree[j.leaf].gen = 0 /\ tree[j.leaf].rq_sent
  BY <1>1 DEF SoloInv, SoloJobs, RequestInv, LeavesSent
<1>5. SoloNodes'
  BY <1>2, <1>3, <1>4 DEF SoloInv, SoloNodes, NewNode
<1> DEFINE k == [j EXCEPT !.step = "flag"]
<1>6. jobs' = (jobs \ {j}) \cup {k} /\ k.step = "flag" /\ k.leaf = j.leaf /\ k.now = j.now
  BY <1>1 DEF Expand, StepTo, Becomes, JobType
<1> HIDE DEF k
<1>7. SoloJobs'
  <2>1. ASSUME NEW m \in jobs \ {j}
        PROVE  m.leaf \in DOMAIN tree /\ m.leaf # j.leaf
    BY OneJob DEF IndInv, JobsType
  <2> QED
    BY <1>1, <1>3, <1>6, <2>1 DEF SoloInv, SoloJobs
<1>8. SoloThread'
  BY <1>1, <1>3 DEF SoloInv, SoloThread, IndInv, ThreadsType
<1> QED
  BY <1>5, <1>7, <1>8 DEF SoloInv

LEMMA CallbackSolo ==
    ASSUME IndInv, RequestInv, SoloInv, NEW j \in jobs, CallbackStep(j) \/ Aside(j) \/ Retry(j),
           ~Expand(j)
    PROVE  SoloInv'
<1>1. j \in JobType /\ DOMAIN tree' = DOMAIN tree /\ UNCHANGED <<pc, at>>
  BY CallbackRest DEF IndInv, JobsType, JobType
<1>2. ASSUME NEW x \in DOMAIN tree
      PROVE  /\ tree'[x].gen = tree[x].gen /\ tree'[x].rq_sent = tree[x].rq_sent
             /\ tree'[x].invalid_visit = tree[x].invalid_visit
  <2>1. tree[x] \in NodeType
    BY NodeThere
  <2>2. tree'[x].gen = tree[x].gen
    BY <2>1 DEF NodeType, CallbackStep, Aside, Retry, SetReady, ReadInvalid, JobEdge,
       UpdateEdge, JobTotal, UpdateTotal, Retire
  <2> QED
    BY <2>2, CallbackWrites
<1>3. SoloNodes'
  BY <1>1, <1>2 DEF SoloInv, SoloNodes
<1>4. SoloThread'
  BY <1>1, <1>2 DEF SoloInv, SoloThread, IndInv, ThreadsType
<1>5. CASE jobs' = jobs \ {j}
  BY <1>2, <1>3, <1>4, <1>5 DEF SoloInv, SoloJobs, IndInv, JobsType
<1>6. ASSUME NEW k, Becomes(j, k), k.leaf = j.leaf,
             k.step \in {"asked", "aside"} => j.step \in {"asked", "aside"},
             k.step \in {"asked", "aside", "flag", "read"} =>
                 j.step \in {"asked", "aside", "flag", "read"} /\ k.now = j.now
      PROVE  SoloInv'
  BY <1>2, <1>3, <1>4, <1>6 DEF Becomes, SoloInv, SoloJobs, IndInv, JobsType
<1>7. ASSUME NEW s \in JobSteps, StepTo(j, s),
             s \in {"asked", "aside"} => j.step \in {"asked", "aside"},
             s \in {"asked", "aside", "flag", "read"} => j.step \in {"asked", "aside", "flag", "read"}
      PROVE  SoloInv'
  <2> DEFINE k == [j EXCEPT !.step = s]
  <2>1. Becomes(j, k)
    BY <1>7 DEF StepTo
  <2>2. k.step = s /\ k.leaf = j.leaf /\ k.now = j.now
    BY <1>1 DEF JobType
  <2> HIDE DEF k
  <2> QED
    BY <1>6, <1>7, <2>1, <2>2
<1>8. CASE ReadInvalid(j)
  <2> DEFINE k == [j EXCEPT !.invalid = tree[j.leaf].invalid_visit,
                            !.step = IF HasFather(j.leaf) THEN "edge" ELSE "end"]
  <2>1. Becomes(j, k)
    BY <1>8 DEF ReadInvalid
  <2>2. k.step \in {"edge", "end"} /\ k.leaf = j.leaf
    BY <1>1 DEF JobType
  <2> HIDE DEF k
  <2> QED
    BY <1>6, <2>1, <2>2
<1>9. CASE JobTotal(j) /\ GoesOn(j.now)
  <2> DEFINE k == [j EXCEPT !.now = Father(j.now), !.step = "edge"]
  <2>1. Becomes(j, k)
    BY <1>9 DEF JobTotal
  <2>2. k.step = "edge" /\ k.leaf = j.leaf
    BY <1>1 DEF JobType
  <2> HIDE DEF k
  <2> QED
    BY <1>6, <2>1, <2>2
<1>10. CASE Aside(j)
  <2>1. PICK k \in JobType : /\ Becomes(j, k) /\ k.leaf = j.leaf /\ k.now = j.now
                             /\ k.step = "aside" /\ j.step = "asked"
    BY <1>10, AsideJob
  <2> QED
    BY <1>6, <2>1
<1> QED
  BY <1>5, <1>7, <1>8, <1>9, <1>10
  DEF CallbackStep, Retry, SetReady, JobEdge, JobTotal, Retire, JobSteps

LEMMA StepSolo == OneThread /\ IndInv /\ RequestInv /\ SoloInv /\ [Next]_vars => SoloInv'
<1> SUFFICES ASSUME OneThread, IndInv, RequestInv, SoloInv, [Next]_vars PROVE SoloInv'
  OBVIOUS
<1>1. CASE UNCHANGED vars
  BY <1>1 DEF SoloInv, SoloNodes, SoloJobs, SoloThread, vars
<1> QED
  BY <1>1, ThreadSolo, ExpandSolo, CallbackSolo DEF Next, Ended

LEMMA InitSolo == Init => SoloInv
<1> SUFFICES ASSUME Init PROVE SoloInv
  OBVIOUS
<1>1. DOMAIN tree = {Root} /\ tree[Root] = NewNode /\ jobs = {}
      /\ \A t \in Threads : pc[t] = "top" /\ at[t] = Root
  BY DEF Init, NewTree
<1> QED
  BY <1>1 DEF SoloInv, SoloNodes, SoloJobs, SoloThread, NewNode

LEMMA SoloMeans ==
    ASSUME OneThread, IndInv, RequestInv, SoloInv
    PROVE  SentOnce
<1> SUFFICES ASSUME NEW x \in DOMAIN tree
             PROVE  Cardinality({j \in jobs : j.leaf = x}) <= 1
  BY DEF SentOnce, SoloInv, SoloNodes
<1> DEFINE F == {j \in jobs : j.leaf = x}
<1>1. \A j, k \in F : j = k
  BY OneJob
<1> HIDE DEF F
<1>2. F = {} => Cardinality(F) = 0
  BY FS_EmptySet
<1>3. ASSUME F # {} PROVE Cardinality(F) = 1
  <2>1. PICK j \in F : TRUE
    BY <1>3
  <2>2. F = {j}
    BY <1>1, <2>1
  <2> QED
    BY <2>2, FS_Singleton
<1>4. Cardinality(F) <= 1
  BY <1>2, <1>3
<1> QED
  BY <1>4 DEF F

\* With one search thread a leaf is asked for at most once and expanded at most
\* once: nothing comes between the thread's test of rq_sent and its setting it
\* (server_evaluate), and an answer cannot replace children that others walk on.
THEOREM OneThreadSendsOnce == Cardinality(Threads) = 1 => (Spec => []SentOnce)
<1> SUFFICES ASSUME OneThread PROVE Spec => []SentOnce
  BY DEF OneThread
<1> DEFINE Inv == IndInv /\ RequestInv /\ SoloInv
<1>1. Init => Inv
  BY InitInv, InitRequests, InitSolo
<1>2. Inv /\ [Next]_vars => Inv'
  BY StepInv, StepRequests, StepSolo
<1>3. Inv => SentOnce
  BY SoloMeans
<1> QED
  BY <1>1, <1>2, <1>3, PTL DEF Spec

------------------------------------------------------------------------------
(* The virtual loss                                                         *)

InDebt(j, k) ==
    \/ j.step \notin {"total", "end"} /\ OnWay(k, j.now)
    \/ j.step = "total" /\ j.now # Root /\ OnWay(k, Father(j.now))
Owed(j, k) == IF InDebt(j, k) THEN DebtOf(j) ELSE 0
OwedAt(k) == [j \in jobs |-> Owed(j, k)]
Walks(t, k) ==
    \/ pc[t] \in {"select", "leaf", "test", "send", "late", "edge"} /\ OnWay(k, at[t])
    \/ pc[t] = "total" /\ at[t] # Root /\ OnWay(k, Father(at[t]))

\* LossCovered with the sum of a function over all the jobs.
UnderWay(k) == Cardinality(Walkers(k)) + SumOf(OwedAt(k), jobs)
CoverAt(k) == tree[k].vl >= Loss * UnderWay(k)
Cover == \A k \in DOMAIN tree \ {Root} : CoverAt(k)

LEMMA DebtSum ==
    ASSUME NEW S, IsFiniteSet(S), NEW w, \A j \in S : w[j] = DebtOf(j)
    PROVE  MapThenSumSet(DebtOf, S) = SumOf(w, S)
<1> DEFINE Body(h) == [s \in SUBSET S |->
                          IF s = {} THEN 0 ELSE DebtOf(Chosen(s)) + h[s \ {Chosen(s)}]]
           g == CHOOSE h : h = Body(h)
<1>1. PICK f : IsFold(f, w, S) /\ SumOf(w, S) = f[S]
  BY SumIsFold
<1>2. \A s \in SUBSET S : s # {} => w[Chosen(s)] = DebtOf(Chosen(s))
  BY ChosenIn
<1>3. f = Body(f)
  BY <1>1, <1>2 DEF IsFold
<1>4. g = Body(g)
  BY <1>3
<1>5. MapThenSumSet(DebtOf, S) = g[S]
  BY DEF MapThenSumSet, MapThenFoldSet, Chosen
<1> HIDE DEF g
<1>6. IsFold(g, w, S)
  BY <1>2, <1>4 DEF IsFold
<1>7. g[S] = f[S]
  BY <1>1, <1>6, FoldSame
<1> QED
  BY <1>1, <1>5, <1>7

LEMMA OwedNat ==
    ASSUME IndInv, NEW j \in jobs, NEW k
    PROVE  Owed(j, k) \in Nat /\ DebtOf(j) \in Nat
<1>1. j.invalid \in Nat /\ tree[j.leaf].invalid_visit \in Nat
  BY NodeFields DEF IndInv, JobsType
<1>2. DebtOf(j) \in Nat
  BY <1>1 DEF DebtOf
<1> QED
  BY <1>2 DEF Owed

LEMMA UnderWayNat ==
    ASSUME IndInv, Finite, NEW k
    PROVE  /\ IsFiniteSet(Walkers(k)) /\ Cardinality(Walkers(k)) \in Nat
           /\ SumOf(OwedAt(k), jobs) \in Nat /\ UnderWay(k) \in Nat
<1>1. Walkers(k) \in SUBSET Threads
  BY DEF Walkers
<1>2. IsFiniteSet(Walkers(k)) /\ Cardinality(Walkers(k)) \in Nat
  BY <1>1, FS_Subset, FS_CardinalityType, SearchAssumption
<1>3. \A j \in jobs : OwedAt(k)[j] \in Nat
  BY OwedNat DEF OwedAt
<1>4. SumOf(OwedAt(k), jobs) \in Nat
  BY <1>3, SumNat DEF Finite
<1> QED
  BY <1>2, <1>4 DEF UnderWay

LEMMA CoverMeans ==
    ASSUME IndInv, Finite, Cover
    PROVE  LossCovered
<1> SUFFICES ASSUME NEW k \in DOMAIN tree \ {Root}
             PROVE  tree[k].vl >= Loss * (Cardinality(Walkers(k)) + MapThenSumSet(DebtOf, Debtors(k)))
  BY DEF LossCovered
<1> DEFINE S == Debtors(k)
           T == jobs \ S
           w == OwedAt(k)
<1>1. S \cup T = jobs /\ S \in SUBSET jobs /\ T \in SUBSET jobs
  BY DEF Debtors
<1>2. IsFiniteSet(S) /\ IsFiniteSet(T)
  BY <1>1, FS_Subset DEF Finite
<1>3. \A j \in S : InDebt(j, k) /\ j \in jobs
  BY DEF Debtors, InDebt
<1>4. \A j \in T : ~InDebt(j, k) /\ j \in jobs
  BY DEF Debtors, InDebt
<1>5. \A j \in S : w[j] = DebtOf(j) /\ w[j] \in Int
  BY <1>3, OwedNat DEF OwedAt, Owed
<1>6. \A j \in T : w[j] = 0
  BY <1>4 DEF OwedAt, Owed
<1> HIDE DEF S, T, w
<1>7. SumOf(w, jobs) = SumOf(w, S)
  BY <1>1, <1>2, <1>5, <1>6, SumSupport
<1>8. MapThenSumSet(DebtOf, S) = SumOf(w, S)
  BY <1>2, <1>5, DebtSum
<1>9. UnderWay(k) = Cardinality(Walkers(k)) + MapThenSumSet(DebtOf, Debtors(k))
  BY <1>7, <1>8 DEF UnderWay, S, w
<1> QED
  BY <1>9 DEF Cover, CoverAt

\* The loss of the edge changes by at least as much as what is under way.
LEMMA LossScales ==
    ASSUME NEW a \in Nat, NEW m \in Int, NEW n \in Int, NEW d \in Int, NEW v \in Int,
           v >= a * m, n <= m + d
    PROVE  v + a * d >= a * n
<1>1. PICK e \in Nat : m + d = n + e
  <2>1. (m + d) - n \in Nat /\ m + d = n + ((m + d) - n)
    OBVIOUS
  <2> QED
    BY <2>1
<1>2. a * (m + d) = a * m + a * d /\ a * (n + e) = a * n + a * e
  OBVIOUS
<1>3. a * e >= 0 /\ a * e \in Int /\ a * m \in Int /\ a * d \in Int /\ a * n \in Int
  OBVIOUS
<1>4. a * m + a * d = a * n + a * e
  BY <1>1, <1>2
<1> QED
  BY <1>3, <1>4

LEMMA CoverStep ==
    ASSUME IndInv, NEW k \in DOMAIN tree, CoverAt(k), UnderWay(k) \in Nat, UnderWay(k)' \in Nat,
           NEW d \in Int, tree'[k].vl = tree[k].vl + Loss * d, UnderWay(k)' <= UnderWay(k) + d
    PROVE  CoverAt(k)'
<1>1. tree[k].vl \in Int /\ Loss \in Nat
  BY NodeFields, SearchAssumption DEF IndInv
<1> DEFINE m == UnderWay(k)
           n == UnderWay(k)'
           v == tree[k].vl
<1>2. m \in Int /\ n \in Int /\ v \in Int /\ v >= Loss * m /\ n <= m + d
  BY <1>1 DEF CoverAt
<1> HIDE DEF m, n, v
<1>3. v + Loss * d >= Loss * n
  BY <1>1, <1>2, LossScales
<1>4. tree'[k].vl >= Loss * UnderWay(k)'
  BY <1>3 DEF n, v
<1> QED
  BY <1>4 DEF CoverAt

LEMMA ThreadWalks ==
    ASSUME IndInv, NEW t \in Threads, ThreadStep(t), NEW k
    PROVE  /\ Cardinality(Walkers(k))' \in Nat
           /\ Cardinality(Walkers(k))' + One(Walks(t, k)) = Cardinality(Walkers(k)) + One(Walks(t, k)')
<1>1. Walkers(k)' \ {t} = Walkers(k) \ {t}
  BY ThreadSends DEF Walkers, OnWay
<1>2. (t \in Walkers(k) <=> Walks(t, k)) /\ (t \in Walkers(k)' <=> Walks(t, k)')
  BY DEF Walkers, Walks
<1>4. One(t \in Walkers(k)) = One(Walks(t, k)) /\ One(t \in Walkers(k)') = One(Walks(t, k)')
  BY <1>2 DEF One
<1>3. IsFiniteSet(Walkers(k))
  <2>1. Walkers(k) \in SUBSET Threads
    BY DEF Walkers
  <2> QED
    BY <2>1, FS_Subset, SearchAssumption
<1> QED
  BY <1>1, <1>3, <1>4, CountMove

\* A thread that neither asks nor comes too late changes no debt.
LEMMA SameDebt ==
    ASSUME IndInv, Finite, NEW t \in Threads, ThreadStep(t), ~Send(t), ~Late(t), NEW k
    PROVE  SumOf(OwedAt(k), jobs)' = SumOf(OwedAt(k), jobs)
<1>1. jobs' = jobs
  BY ThreadAsks
<1>2. ASSUME NEW j \in jobs PROVE Owed(j, k)' = Owed(j, k)
  <2>1. tree'[j.leaf].invalid_visit = tree[j.leaf].invalid_visit
    BY ThreadWrites DEF IndInv, JobsType
  <2> QED
    BY <2>1 DEF Owed, InDebt, DebtOf
<1>3. OwedAt(k)' = OwedAt(k)
  BY <1>1, <1>2 DEF OwedAt
<1> QED
  BY <1>1, <1>3

\* The walk and the debt on the way of a thread.
LEMMA WayUp ==
    ASSUME IndInv, NEW x \in DOMAIN tree, NEW k \in DOMAIN tree, k # Root
    PROVE  /\ ~OnWay(k, Root)
           /\ x # Root => (OnWay(k, x) <=> k = x \/ OnWay(k, Father(x)))
           /\ x # Root => ~OnWay(x, Father(x))
<1>1. k \in Paths /\ x \in Paths
  BY DEF IndInv, TreeInv, NodesType
<1> QED
  BY <1>1, PrefixRoot, PrefixStep DEF OnWay

LEMMA ThreadLoss ==
    ASSUME IndInv, NEW t \in Threads, ThreadStep(t), ~Select(t), ~ThreadEdge(t),
           NEW k \in DOMAIN tree
    PROVE  tree'[k].vl = tree[k].vl
<1>1. tree[k] \in NodeType
  BY NodeThere
<1>2. CASE LeafRepeats(t) \/ LeafDecided(t) \/ LeafOpen(t)
  BY <1>1, <1>2 DEF NodeType, LeafRepeats, LeafDecided, LeafOpen
<1>3. CASE Send(t) \/ Late(t)
  BY <1>1, <1>3 DEF NodeType, Send, Late
<1>4. CASE ThreadTotal(t)
  BY <1>4, TotalWrites DEF ThreadTotal
<1> QED
  BY <1>2, <1>3, <1>4 DEF ThreadStep, Break, Round, AwaitRoot, SelectEnds, SelectNothing, Test, Over

\* Where a thread that is on the way of no new edge was before.
LEMMA QuietWalk ==
    ASSUME IndInv, SoloInv, NEW t \in Threads, ThreadStep(t), ~Select(t), ~ThreadEdge(t),
           NEW k \in DOMAIN tree, k # Root, Walks(t, k)'
    PROVE  Walks(t, k)
<1>1. /\ pc \in [Threads -> Steps] /\ at \in [Threads -> DOMAIN tree] /\ at[t] \in DOMAIN tree
  BY DEF IndInv, ThreadsType
<1>2. ~OnWay(k, Root)
  BY <1>1, WayUp
<1>3. CASE ThreadTotal(t)
  <2>1. GoesOn(at[t])
    BY <1>1, <1>2, <1>3 DEF ThreadTotal, Again, Go, Walks, OnWay
  <2>2. at'[t] = Father(at[t]) /\ pc'[t] = "edge" /\ at[t] # Root /\ pc[t] = "total"
    BY <1>1, <1>3, <2>1 DEF ThreadTotal, Go, GoesOn
  <2> QED
    BY <2>2 DEF Walks, OnWay
<1>4. CASE AwaitRoot(t)
  BY <1>1, <1>2, <1>4 DEF AwaitRoot, Go, Walks, OnWay, SoloInv, SoloThread
<1>5. CASE LeafDecided(t)
  BY <1>1, <1>2, <1>5 DEF LeafDecided, Go, Again, Walks, OnWay
<1> QED
  BY <1>1, <1>2, <1>3, <1>4, <1>5 DEF ThreadStep, Go, Again, Walks, OnWay, Break, Round,
     SelectEnds, SelectNothing, LeafRepeats, LeafOpen, Test, Send, Late, Over

LEMMA SelectCover ==
    ASSUME IndInv, Finite, NEW t \in Threads, Select(t), NEW k \in DOMAIN tree, k # Root, CoverAt(k)
    PROVE  CoverAt(k)'
<1>1. ThreadStep(t) /\ ~Send(t) /\ ~Late(t)
  BY DEF ThreadStep, Select, Send, Late
<1>2. /\ pc \in [Threads -> Steps] /\ at \in [Threads -> DOMAIN tree] /\ at[t] \in DOMAIN tree
      /\ TreeInv /\ pc[t] = "select" /\ UNCHANGED pc
  BY DEF IndInv, ThreadsType, Select
<1>3. PICK i \in Moves : /\ tree' = [tree EXCEPT ![Kid(at[t], i)].vl = @ + Loss]
                         /\ at' = [at EXCEPT ![t] = Kid(at[t], i)]
  BY DEF Select, Scored
<1> DEFINE b == Kid(at[t], i)
<1>4. tree[at[t]].gen > 0
  BY <1>2 DEF Select, TreeInv, ReadyHasKids
<1>5. b \in DOMAIN tree /\ b # Root /\ Father(b) = at[t]
  BY <1>2, <1>4, KidFacts
<1>6. at'[t] = b /\ tree'[k].vl = IF k = b THEN tree[k].vl + Loss ELSE tree[k].vl
  <2>1. tree[k] \in NodeType
    BY NodeThere
  <2> QED
    BY <1>2, <1>3, <2>1 DEF NodeType
<1> HIDE DEF b
<1>7. /\ OnWay(k, b) <=> k = b \/ OnWay(k, at[t])
      /\ k = b => ~OnWay(k, at[t])
  BY <1>5, WayUp
<1>8. Walks(t, k) <=> OnWay(k, at[t])
  BY <1>2 DEF Walks
<1>9. Walks(t, k)' <=> OnWay(k, b)
  BY <1>2, <1>6 DEF Walks, OnWay
<1> DEFINE d == IF k = b THEN 1 ELSE 0
<1>10. One(Walks(t, k)') = One(Walks(t, k)) + d /\ One(Walks(t, k)) \in Nat /\ d \in Int
  BY <1>7, <1>8, <1>9 DEF One
<1>11. tree'[k].vl = tree[k].vl + Loss * d
  <2>1. tree[k].vl \in Int /\ Loss \in Nat
    BY <1>2, NodeFields, SearchAssumption
  <2> QED
    BY <1>6, <2>1
<1> HIDE DEF d
<1>12. SumOf(OwedAt(k), jobs)' = SumOf(OwedAt(k), jobs)
  BY <1>1, SameDebt
<1>13. /\ Cardinality(Walkers(k))' \in Nat
       /\ Cardinality(Walkers(k))' + One(Walks(t, k)) = Cardinality(Walkers(k)) + One(Walks(t, k)')
  BY <1>1, ThreadWalks
<1>14. Cardinality(Walkers(k)) \in Nat /\ SumOf(OwedAt(k), jobs) \in Nat
  BY UnderWayNat
<1>15. UnderWay(k)' = Cardinality(Walkers(k))' + SumOf(OwedAt(k), jobs)
  BY <1>12 DEF UnderWay
<1>16. UnderWay(k) \in Nat /\ UnderWay(k)' \in Nat /\ UnderWay(k)' <= UnderWay(k) + d
  BY <1>10, <1>13, <1>14, <1>15 DEF UnderWay
<1> QED
  BY <1>10, <1>11, <1>16, CoverStep

LEMMA EdgeCover ==
    ASSUME IndInv, Finite, NEW t \in Threads, ThreadEdge(t), NEW k \in DOMAIN tree, k # Root, CoverAt(k)
    PROVE  CoverAt(k)'
<1>1. ThreadStep(t) /\ ~Send(t) /\ ~Late(t)
  BY DEF ThreadStep, ThreadEdge, Send, Late
<1>2. /\ pc \in [Threads -> Steps] /\ at[t] \in DOMAIN tree
      /\ TreeInv /\ pc[t] = "edge" /\ pc'[t] = "total" /\ UNCHANGED at
  BY DEF IndInv, ThreadsType, ThreadEdge, Go
<1>3. tree'[k].vl = IF k = at[t] THEN tree[k].vl - TakenBack(0) ELSE tree[k].vl
  BY EdgeWrites DEF ThreadEdge
<1>4. /\ ~OnWay(k, Root)
      /\ at[t] # Root => (OnWay(k, at[t]) <=> k = at[t] \/ OnWay(k, Father(at[t])))
      /\ k = at[t] => ~OnWay(k, Father(at[t]))
  BY <1>2, WayUp
<1>5. Walks(t, k) <=> OnWay(k, at[t])
  BY <1>2 DEF Walks
<1>6. Walks(t, k)' <=> at[t] # Root /\ OnWay(k, Father(at[t]))
  BY <1>2 DEF Walks, OnWay, Father
<1> DEFINE d == IF k = at[t] THEN -1 ELSE 0
<1>7. One(Walks(t, k)') <= One(Walks(t, k)) + d /\ One(Walks(t, k)) \in Nat /\ d \in Int
      /\ One(Walks(t, k)') \in Nat
  <2>1. k = at[t] => Walks(t, k) /\ ~Walks(t, k)'
    BY <1>4, <1>5, <1>6
  <2>2. Walks(t, k)' => Walks(t, k)
    BY <1>4, <1>5, <1>6
  <2> QED
    BY <2>1, <2>2 DEF One
<1>8. tree'[k].vl = tree[k].vl + Loss * d
  <2>1. tree[k].vl \in Int /\ Loss \in Nat
    BY <1>2, NodeFields, SearchAssumption
  <2>2. TakenBack(0) = Loss
    BY <2>1 DEF TakenBack
  <2> QED
    BY <1>3, <2>1, <2>2
<1> HIDE DEF d
<1>9. SumOf(OwedAt(k), jobs)' = SumOf(OwedAt(k), jobs)
  BY <1>1, SameDebt
<1>10. /\ Cardinality(Walkers(k))' \in Nat
       /\ Cardinality(Walkers(k))' + One(Walks(t, k)) = Cardinality(Walkers(k)) + One(Walks(t, k)')
  BY <1>1, ThreadWalks
<1>11. Cardinality(Walkers(k)) \in Nat /\ SumOf(OwedAt(k), jobs) \in Nat
  BY UnderWayNat
<1>12. UnderWay(k)' = Cardinality(Walkers(k))' + SumOf(OwedAt(k), jobs)
  BY <1>9 DEF UnderWay
<1>13. UnderWay(k) \in Nat /\ UnderWay(k)' \in Nat /\ UnderWay(k)' <= UnderWay(k) + d
  BY <1>7, <1>10, <1>11, <1>12 DEF UnderWay
<1> QED
  BY <1>7, <1>8, <1>13, CoverStep

LEMMA QuietCover ==
    ASSUME IndInv, Finite, SoloInv, NEW t \in Threads, ThreadStep(t),
           ~Select(t), ~ThreadEdge(t), ~Send(t), ~Late(t),
           NEW k \in DOMAIN tree, k # Root, CoverAt(k)
    PROVE  CoverAt(k)'
<1>1. Walks(t, k)' => Walks(t, k)
  BY QuietWalk
<1>2. One(Walks(t, k)') <= One(Walks(t, k)) /\ One(Walks(t, k)) \in Nat /\ One(Walks(t, k)') \in Nat
  BY <1>1 DEF One
<1>3. SumOf(OwedAt(k), jobs)' = SumOf(OwedAt(k), jobs)
  BY SameDebt
<1>4. /\ Cardinality(Walkers(k))' \in Nat
      /\ Cardinality(Walkers(k))' + One(Walks(t, k)) = Cardinality(Walkers(k)) + One(Walks(t, k)')
  BY ThreadWalks
<1>5. Cardinality(Walkers(k)) \in Nat /\ SumOf(OwedAt(k), jobs) \in Nat
  BY UnderWayNat
<1>6. UnderWay(k)' = Cardinality(Walkers(k))' + SumOf(OwedAt(k), jobs)
  BY <1>3 DEF UnderWay
<1>7. UnderWay(k) \in Nat /\ UnderWay(k)' \in Nat /\ UnderWay(k)' <= UnderWay(k) + 0
  BY <1>2, <1>4, <1>5, <1>6 DEF UnderWay
<1>8. tree'[k].vl = tree[k].vl + Loss * 0
  <2>1. tree[k].vl \in Int /\ Loss \in Nat
    BY NodeFields, SearchAssumption DEF IndInv
  <2>2. tree'[k].vl = tree[k].vl
    BY ThreadLoss
  <2> QED
    BY <2>1, <2>2
<1> QED
  BY <1>7, <1>8, CoverStep

\* The thread's visit becomes a job's.
LEMMA SendCover ==
    ASSUME IndInv, RequestInv, SoloInv, NEW t \in Threads, Send(t),
           NEW k \in DOMAIN tree, k # Root, CoverAt(k)
    PROVE  CoverAt(k)'
<1>1. ThreadStep(t) /\ ~Select(t) /\ ~ThreadEdge(t) /\ pc[t] = "send" /\ Finite
  BY DEF ThreadStep, Send, Select, ThreadEdge, RequestInv
<1>2. /\ pc \in [Threads -> Steps] /\ at \in [Threads -> DOMAIN tree] /\ at[t] \in DOMAIN tree
  BY DEF IndInv, ThreadsType
<1>4. ~tree[at[t]].rq_sent /\ tree[at[t]].invalid_visit = 0
  BY <1>1, <1>2 DEF SoloInv, SoloThread, SoloNodes
<1>3. PICK m \in JobType : /\ jobs' = jobs \cup {m} /\ m.leaf = at[t] /\ m.now = at[t]
                           /\ m.step = "asked"
  <2> DEFINE r == [leaf |-> at[t], by |-> t, step |-> "asked", now |-> at[t],
                     invalid |-> 0, failed |-> 0]
  <2>1. r \in jobs' /\ r.leaf = at[t]
    BY DEF Send
  <2> HIDE DEF r
  <2>2. jobs' # jobs
    BY <1>4, <2>1 DEF RequestInv, LeavesSent
  <2> QED
    BY <1>1, <2>2, ThreadAsks
<1>5. m \notin jobs
  BY <1>3, <1>4 DEF RequestInv, LeavesSent
<1>6. \A x \in DOMAIN tree : tree'[x].invalid_visit = tree[x].invalid_visit
  BY SentWrites DEF Send
<1>7. Owed(m, k)' = One(OnWay(k, at[t])) /\ Owed(m, k)' \in Nat
  <2>1. DebtOf(m)' = 1
    BY <1>2, <1>3, <1>4, <1>6 DEF DebtOf
  <2>2. InDebt(m, k)' <=> OnWay(k, at[t])
    BY <1>3 DEF InDebt, OnWay
  <2> QED
    BY <2>1, <2>2 DEF Owed, One
<1> DEFINE w == OwedAt(k)
           v == [j \in jobs \cup {m} |-> Owed(j, k)']
<1>8. OwedAt(k)' = v
  BY <1>3 DEF OwedAt
<1>9. \A j \in jobs : v[j] = w[j] /\ v[j] \in Int
  <2> SUFFICES ASSUME NEW j \in jobs PROVE v[j] = w[j] /\ v[j] \in Int
    OBVIOUS
  <2>1. tree'[j.leaf].invalid_visit = tree[j.leaf].invalid_visit
    BY <1>6 DEF IndInv, JobsType
  <2>2. Owed(j, k)' = Owed(j, k)
    BY <2>1 DEF Owed, InDebt, DebtOf, OnWay, Father
  <2> QED
    BY <2>2, OwedNat DEF OwedAt
<1>10. v[m] = Owed(m, k)'
  OBVIOUS
<1> HIDE DEF v, w
<1>11. SumOf(v, jobs) = SumOf(w, jobs)
  BY <1>1, <1>9, SumSame DEF Finite
<1>12. SumOf(v, jobs \cup {m}) = SumOf(v, jobs) + v[m]
  BY <1>1, <1>5, <1>7, <1>9, <1>10, SumWith DEF Finite
<1>13. SumOf(OwedAt(k), jobs)' = SumOf(OwedAt(k), jobs) + One(OnWay(k, at[t]))
  BY <1>3, <1>7, <1>8, <1>10, <1>11, <1>12 DEF w
<1>14. One(Walks(t, k)) = One(OnWay(k, at[t])) /\ One(Walks(t, k)') = 0
  <2>1. Walks(t, k) <=> OnWay(k, at[t])
    BY <1>1 DEF Walks
  <2>2. pc'[t] = "top"
    BY <1>2 DEF Send, Again, Go
  <2>3. ~Walks(t, k)'
    BY <2>2 DEF Walks
  <2> QED
    BY <2>1, <2>3 DEF One
<1>15. /\ Cardinality(Walkers(k))' \in Nat
       /\ Cardinality(Walkers(k))' + One(Walks(t, k)) = Cardinality(Walkers(k)) + One(Walks(t, k)')
  BY <1>1, ThreadWalks
<1>16. Cardinality(Walkers(k)) \in Nat /\ SumOf(OwedAt(k), jobs) \in Nat /\ One(OnWay(k, at[t])) \in Nat
  BY <1>1, UnderWayNat DEF One
<1>17. UnderWay(k)' = Cardinality(Walkers(k))' + SumOf(OwedAt(k), jobs)'
  BY DEF UnderWay
<1>18. UnderWay(k) \in Nat /\ UnderWay(k)' \in Nat /\ UnderWay(k)' <= UnderWay(k) + 0
  BY <1>13, <1>14, <1>15, <1>16, <1>17 DEF UnderWay
<1>19. tree'[k].vl = tree[k].vl + Loss * 0
  <2>1. tree[k].vl \in Int /\ Loss \in Nat
    BY NodeFields, SearchAssumption DEF IndInv
  <2>2. tree'[k].vl = tree[k].vl
    BY <1>1, ThreadLoss
  <2> QED
    BY <2>1, <2>2
<1> QED
  BY <1>18, <1>19, CoverStep

\* The thread's visit becomes one of the invalid ones of the leaf's job, if that
\* has not read them yet; if it has, the loss stays.
LEMMA LateCover ==
    ASSUME OneThread, IndInv, RequestInv, SoloInv, NEW t \in Threads, Late(t),
           NEW k \in DOMAIN tree, k # Root, CoverAt(k)
    PROVE  CoverAt(k)'
<1>1. ThreadStep(t) /\ ~Select(t) /\ ~ThreadEdge(t) /\ pc[t] = "late" /\ Finite /\ jobs' = jobs
  BY DEF ThreadStep, Late, Select, ThreadEdge, RequestInv
<1>2. /\ pc \in [Threads -> Steps] /\ at \in [Threads -> DOMAIN tree] /\ at[t] \in DOMAIN tree
  BY DEF IndInv, ThreadsType
<1>3. \A x \in DOMAIN tree :
          tree'[x].invalid_visit = IF x = at[t] THEN tree[x].invalid_visit + 1 ELSE tree[x].invalid_visit
  BY InvalidWrites DEF Late
<1> DEFINE w == OwedAt(k)
           v == [j \in jobs |-> Owed(j, k)']
           h == One(OnWay(k, at[t]))
<1>4. OwedAt(k)' = v
  BY <1>1 DEF OwedAt
<1>5. \A j \in jobs : w[j] \in Nat
  BY OwedNat DEF OwedAt
<1>6. ASSUME NEW j \in jobs, j.leaf # at[t]
      PROVE  v[j] = w[j]
  <2>1. tree'[j.leaf].invalid_visit = tree[j.leaf].invalid_visit
    BY <1>3, <1>6 DEF IndInv, JobsType
  <2>2. Owed(j, k)' = Owed(j, k)
    BY <2>1 DEF Owed, InDebt, DebtOf, OnWay, Father
  <2> QED
    BY <2>2 DEF OwedAt
<1>7. h \in Nat
  BY DEF One
<1>8. ASSUME NEW j \in jobs, j.leaf = at[t]
      PROVE  v[j] \in Nat /\ v[j] <= w[j] + h
  <2>1. tree'[j.leaf].invalid_visit = tree[j.leaf].invalid_visit + 1
    BY <1>2, <1>3, <1>8
  <2>2. j.invalid \in Nat /\ tree[j.leaf].invalid_visit \in Nat /\ j.step \in JobSteps
    BY NodeFields DEF IndInv, JobsType
  <2>3. InDebt(j, k)' <=> InDebt(j, k)
    BY DEF InDebt, OnWay, Father
  <2>4. CASE j.step \in {"asked", "aside", "flag", "read"}
    <3>1. InDebt(j, k) <=> OnWay(k, at[t])
      BY <1>8, <2>4 DEF InDebt, SoloInv, SoloJobs
    <3>2. DebtOf(j)' = DebtOf(j) + 1 /\ DebtOf(j) \in Nat
      <4>1. DebtOf(j)' = 1 + tree'[j.leaf].invalid_visit /\ DebtOf(j) = 1 + tree[j.leaf].invalid_visit
        BY <2>4 DEF DebtOf
      <4> QED
        BY <2>1, <2>2, <4>1
    <3>3. OnWay(k, at[t]) => v[j] = DebtOf(j) + 1 /\ w[j] = DebtOf(j) /\ h = 1
      BY <2>3, <3>1, <3>2 DEF Owed, OwedAt, One
    <3>4. ~OnWay(k, at[t]) => v[j] = 0 /\ w[j] = 0
      BY <2>3, <3>1 DEF Owed, OwedAt
    <3> HIDE DEF v, w, h
    <3> QED
      BY <1>7, <3>2, <3>3, <3>4
  <2>5. CASE j.step \in {"edge", "total"}
    <3>1. DebtOf(j)' = DebtOf(j)
      BY <2>5 DEF DebtOf
    <3>2. Owed(j, k)' = Owed(j, k)
      BY <2>3, <3>1 DEF Owed
    <3>3. v[j] = w[j]
      BY <3>2 DEF OwedAt
    <3> HIDE DEF v, w, h
    <3> QED
      BY <1>5, <1>7, <3>3
  <2>6. CASE j.step = "end"
    <3>1. v[j] = 0 /\ w[j] = 0
      BY <2>3, <2>6 DEF InDebt, Owed, OwedAt
    <3> HIDE DEF v, w, h
    <3> QED
      BY <1>7, <3>1
  <2> QED
    BY <2>2, <2>4, <2>5, <2>6 DEF JobSteps
<1> HIDE DEF v, w, h
<1>9. SumOf(v, jobs) <= SumOf(w, jobs) + h /\ SumOf(v, jobs) \in Nat
  <2>1. SumOf(w, jobs) \in Nat
    BY <1>1, <1>5, SumNat DEF Finite
  <2>2. CASE \A j \in jobs : j.leaf # at[t]
    <3>1. SumOf(v, jobs) = SumOf(w, jobs)
      BY <1>1, <1>6, <2>2, SumSame DEF Finite
    <3> QED
      BY <1>7, <2>1, <3>1
  <2>3. CASE \E j \in jobs : j.leaf = at[t]
    <3>1. PICK j \in jobs : j.leaf = at[t]
      BY <2>3
    <3>2. \A i \in jobs \ {j} : v[i] = w[i]
      BY <1>6, <3>1, OneJob
    <3>3. v[j] \in Nat /\ v[j] <= w[j] + h /\ w[j] \in Nat
      BY <1>5, <1>8, <3>1
    <3>4. SumOf(v, jobs) = SumOf(w, jobs) - w[j] + v[j]
      BY <1>1, <1>5, <3>2, <3>3, SumChange DEF Finite
    <3>5. SumOf(v, jobs) \in Nat
      <4>1. \A i \in jobs : v[i] \in Nat
        BY <1>5, <3>2, <3>3
      <4> QED
        BY <1>1, <4>1, SumNat DEF Finite
    <3> QED
      BY <1>7, <2>1, <3>3, <3>4, <3>5
  <2> QED
    BY <2>2, <2>3
<1>10. SumOf(OwedAt(k), jobs)' = SumOf(v, jobs)
  BY <1>1, <1>4
<1>11. One(Walks(t, k)) = h /\ One(Walks(t, k)') = 0
  <2>1. Walks(t, k) <=> OnWay(k, at[t])
    BY <1>1 DEF Walks
  <2>2. pc'[t] = "top"
    BY <1>2 DEF Late, Again, Go
  <2>3. ~Walks(t, k)'
    BY <2>2 DEF Walks
  <2> QED
    BY <2>1, <2>3 DEF One, h
<1>12. /\ Cardinality(Walkers(k))' \in Nat
       /\ Cardinality(Walkers(k))' + One(Walks(t, k)) = Cardinality(Walkers(k)) + One(Walks(t, k)')
  BY <1>1, ThreadWalks
<1>13. Cardinality(Walkers(k)) \in Nat /\ SumOf(w, jobs) \in Nat
  BY <1>1, UnderWayNat DEF w
<1>14. UnderWay(k)' = Cardinality(Walkers(k))' + SumOf(v, jobs)
  BY <1>10 DEF UnderWay
<1>15. UnderWay(k) = Cardinality(Walkers(k)) + SumOf(w, jobs)
  BY DEF UnderWay, w
<1>16. UnderWay(k) \in Nat /\ UnderWay(k)' \in Nat /\ UnderWay(k)' <= UnderWay(k) + 0
  BY <1>7, <1>9, <1>11, <1>12, <1>13, <1>14, <1>15
<1>17. tree'[k].vl = tree[k].vl + Loss * 0
  <2>1. tree[k].vl \in Int /\ Loss \in Nat
    BY NodeFields, SearchAssumption DEF IndInv
  <2>2. tree'[k].vl = tree[k].vl
    BY <1>1, ThreadLoss
  <2> QED
    BY <2>1, <2>2
<1> QED
  BY <1>16, <1>17, CoverStep

\* What the other jobs owe is not changed by a callback.
LEMMA OthersOwe ==
    ASSUME IndInv, NEW j \in jobs, CallbackStep(j) \/ Aside(j) \/ Retry(j),
           NEW i \in jobs, NEW k
    PROVE  Owed(i, k)' = Owed(i, k) /\ Owed(i, k) \in Nat
<1>1. tree'[i.leaf].invalid_visit = tree[i.leaf].invalid_visit
  BY CallbackWrites DEF IndInv, JobsType
<1>2. Owed(i, k)' = Owed(i, k)
  BY <1>1 DEF Owed, InDebt, DebtOf, OnWay, Father
<1> QED
  BY <1>2, OwedNat

\* A callback owes for its own job only.
LEMMA RestOwes ==
    ASSUME IndInv, RequestInv, NEW j \in jobs, CallbackStep(j) \/ Aside(j) \/ Retry(j), NEW k,
           NEW v, \A i \in jobs \ {j} : v[i] = Owed(i, k)'
    PROVE  /\ IsFiniteSet(jobs \ {j}) /\ SumOf(v, jobs \ {j}) \in Nat
           /\ \A i \in jobs \ {j} : v[i] \in Nat
           /\ SumOf(OwedAt(k), jobs) = Owed(j, k) + SumOf(v, jobs \ {j})
<1> DEFINE w == OwedAt(k)
           R == jobs \ {j}
<1>1. IsFiniteSet(jobs) /\ IsFiniteSet(R)
  BY FS_Subset DEF RequestInv, Finite
<1>2. \A i \in jobs : w[i] = Owed(i, k) /\ w[i] \in Nat
  BY OwedNat DEF OwedAt
<1>3. \A i \in R : v[i] = w[i]
  BY <1>2, OthersOwe
<1> HIDE DEF w
<1>4. SumOf(w, jobs) = w[j] + SumOf(w, R)
  BY <1>1, <1>2, SumWithout
<1>5. SumOf(w, R) = SumOf(v, R)
  BY <1>1, <1>3, SumSame
<1>6. \A i \in R : v[i] \in Nat
  BY <1>2, <1>3
<1>7. SumOf(v, R) \in Nat
  BY <1>1, <1>6, SumNat
<1> QED
  BY <1>1, <1>2, <1>4, <1>5, <1>6, <1>7 DEF w

LEMMA SameWalkers ==
    ASSUME UNCHANGED <<pc, at>>, NEW k
    PROVE  Walkers(k)' = Walkers(k)
BY DEF Walkers, OnWay

\* The job owes m instead of j, and the edge's loss changes by d.
LEMMA JobCover ==
    ASSUME IndInv, RequestInv, NEW j \in jobs, CallbackStep(j) \/ Aside(j) \/ Retry(j),
           NEW m, Becomes(j, m), m.leaf = j.leaf, m.by = j.by,
           NEW k \in DOMAIN tree, CoverAt(k), Owed(m, k)' \in Nat,
           NEW d \in Int, tree'[k].vl = tree[k].vl + Loss * d, Owed(m, k)' <= Owed(j, k) + d
    PROVE  CoverAt(k)'
<1> DEFINE v == [i \in (jobs \ {j}) \cup {m} |-> Owed(i, k)']
           R == jobs \ {j}
<1>1. jobs' = R \cup {m} /\ m \notin R
  BY DEF Becomes, RequestInv, Distinct
<1>2. OwedAt(k)' = v /\ v[m] = Owed(m, k)' /\ \A i \in jobs \ {j} : v[i] = Owed(i, k)'
  BY <1>1 DEF OwedAt
<1> HIDE DEF v
<1>3. /\ IsFiniteSet(R) /\ SumOf(v, R) \in Nat /\ \A i \in R : v[i] \in Nat
      /\ SumOf(OwedAt(k), jobs) = Owed(j, k) + SumOf(v, R)
  BY <1>2, RestOwes
<1> HIDE DEF R
<1>4. SumOf(v, R \cup {m}) = SumOf(v, R) + Owed(m, k)'
  BY <1>1, <1>2, <1>3, SumWith
<1>5. SumOf(OwedAt(k), jobs)' = SumOf(v, R) + Owed(m, k)'
  BY <1>1, <1>2, <1>4
<1>6. Walkers(k)' = Walkers(k) /\ Cardinality(Walkers(k)) \in Nat /\ Owed(j, k) \in Nat
  BY CallbackRest, SameWalkers, UnderWayNat, OwedNat DEF RequestInv
<1>7. UnderWay(k)' = Cardinality(Walkers(k)) + (SumOf(v, R) + Owed(m, k)')
  BY <1>5, <1>6 DEF UnderWay
<1>8. UnderWay(k) = Cardinality(Walkers(k)) + (Owed(j, k) + SumOf(v, R))
  BY <1>3 DEF UnderWay
<1>9. UnderWay(k) \in Nat /\ UnderWay(k)' \in Nat /\ UnderWay(k)' <= UnderWay(k) + d
  BY <1>3, <1>6, <1>7, <1>8
<1> QED
  BY <1>9, CoverStep

\* The loss of an edge is as it was.
LEMMA SameLoss ==
    ASSUME IndInv, NEW k \in DOMAIN tree, tree'[k].vl = tree[k].vl
    PROVE  tree'[k].vl = tree[k].vl + Loss * 0
<1>1. tree[k].vl \in Int /\ Loss \in Nat
  BY NodeFields, SearchAssumption DEF IndInv
<1> QED
  BY <1>1

LEMMA QuietJobCover ==
    ASSUME IndInv, RequestInv, NEW j \in jobs, CallbackStep(j) \/ Aside(j) \/ Retry(j), ~JobEdge(j),
           NEW k \in DOMAIN tree, k # Root, CoverAt(k)
    PROVE  CoverAt(k)'
<1>1. j \in JobType /\ j.leaf \in DOMAIN tree /\ j.now \in DOMAIN tree
  BY DEF IndInv, JobsType, JobType
<1>2. /\ tree'[k].vl = tree[k].vl + Loss * 0
      /\ tree'[j.leaf].invalid_visit = tree[j.leaf].invalid_visit
  BY <1>1, CallbackWrites, SameLoss
<1>3. Owed(j, k) \in Nat /\ DebtOf(j) \in Nat
  BY OwedNat
<1>4. ASSUME NEW m, Becomes(j, m), m.leaf = j.leaf, m.by = j.by,
             InDebt(m, k) => InDebt(j, k) /\ DebtOf(m)' = DebtOf(j)
      PROVE  CoverAt(k)'
  <2>1. InDebt(m, k)' <=> InDebt(m, k)
    BY DEF InDebt, OnWay, Father
  <2>2. Owed(m, k)' \in Nat /\ Owed(m, k)' <= Owed(j, k) + 0
    BY <1>3, <1>4, <2>1 DEF Owed
  <2> QED
    BY <1>2, <1>4, <2>2, JobCover
<1>5. ASSUME NEW s \in {"asked", "flag", "read"}, StepTo(j, s),
             j.step \in {"asked", "aside", "flag"}
      PROVE  CoverAt(k)'
  <2> DEFINE m == [j EXCEPT !.step = s]
  <2>1. Becomes(j, m)
    BY <1>5 DEF StepTo
  <2>2. m.leaf = j.leaf /\ m.by = j.by /\ m.step = s /\ m.now = j.now
    BY <1>1 DEF JobType
  <2> HIDE DEF m
  <2>3. InDebt(m, k) => InDebt(j, k)
    BY <1>5, <2>2 DEF InDebt
  <2>4. DebtOf(m)' = DebtOf(j)
    BY <1>2, <1>5, <2>2 DEF DebtOf
  <2> QED
    BY <1>4, <2>1, <2>2, <2>3, <2>4
<1>6. CASE ReadInvalid(j)
  <2> DEFINE read == [j EXCEPT !.invalid = tree[j.leaf].invalid_visit,
                               !.step = IF HasFather(j.leaf) THEN "edge" ELSE "end"]
  <2>1. Becomes(j, read) /\ j.step = "read"
    BY <1>6 DEF ReadInvalid
  <2>2. read.leaf = j.leaf /\ read.by = j.by /\ read.step \in {"edge", "end"} /\ read.now = j.now
        /\ read.invalid = tree[j.leaf].invalid_visit
    BY <1>1 DEF JobType
  <2> HIDE DEF read
  <2>3. PICK m : m = read
    OBVIOUS
  <2>4. InDebt(m, k) => InDebt(j, k) /\ m.step = "edge"
    BY <2>1, <2>2, <2>3 DEF InDebt
  <2>5. m.step = "edge" => DebtOf(m)' = 1 + tree[j.leaf].invalid_visit
    BY <2>2, <2>3 DEF DebtOf
  <2>6. DebtOf(j) = 1 + tree[j.leaf].invalid_visit
    BY <2>1 DEF DebtOf
  <2> QED
    BY <1>4, <2>1, <2>2, <2>3, <2>4, <2>5, <2>6
<1>7. CASE JobTotal(j) /\ GoesOn(j.now)
  <2> DEFINE m == [j EXCEPT !.now = Father(j.now), !.step = "edge"]
  <2>1. Becomes(j, m) /\ j.step = "total" /\ j.now # Root
    BY <1>7 DEF JobTotal, GoesOn
  <2>2. m.leaf = j.leaf /\ m.by = j.by /\ m.step = "edge" /\ m.now = Father(j.now)
        /\ m.invalid = j.invalid
    BY <1>1 DEF JobType
  <2> HIDE DEF m
  <2>3. InDebt(m, k) => InDebt(j, k)
    BY <2>1, <2>2 DEF InDebt
  <2>4. DebtOf(m)' = DebtOf(j)
    BY <2>1, <2>2 DEF DebtOf
  <2> QED
    BY <1>4, <2>1, <2>2, <2>3, <2>4
<1>8. CASE JobTotal(j) /\ ~GoesOn(j.now)
  <2> DEFINE m == [j EXCEPT !.step = "end"]
  <2>1. Becomes(j, m)
    BY <1>8 DEF JobTotal, StepTo
  <2>2. m.leaf = j.leaf /\ m.by = j.by /\ m.step = "end"
    BY <1>1 DEF JobType
  <2> HIDE DEF m
  <2>3. ~InDebt(m, k)
    BY <2>2 DEF InDebt
  <2> QED
    BY <1>4, <2>1, <2>2, <2>3
<1>9. CASE Retire(j)
  <2> DEFINE v == [i \in jobs \ {j} |-> Owed(i, k)']
  <2>1. jobs' = jobs \ {j}
    BY <1>9 DEF Retire
  <2>2. OwedAt(k)' = v /\ \A i \in jobs \ {j} : v[i] = Owed(i, k)'
    BY <2>1 DEF OwedAt
  <2> HIDE DEF v
  <2>3. /\ SumOf(v, jobs \ {j}) \in Nat
        /\ SumOf(OwedAt(k), jobs) = Owed(j, k) + SumOf(v, jobs \ {j})
    BY <2>2, RestOwes
  <2>4. SumOf(OwedAt(k), jobs)' = SumOf(v, jobs \ {j})
    BY <2>1, <2>2
  <2>5. Walkers(k)' = Walkers(k) /\ Cardinality(Walkers(k)) \in Nat
    BY CallbackRest, SameWalkers, UnderWayNat DEF RequestInv
  <2>6. UnderWay(k)' = Cardinality(Walkers(k)) + SumOf(v, jobs \ {j})
    BY <2>4, <2>5 DEF UnderWay
  <2>7. UnderWay(k) = Cardinality(Walkers(k)) + (Owed(j, k) + SumOf(v, jobs \ {j}))
    BY <2>3 DEF UnderWay
  <2>8. UnderWay(k) \in Nat /\ UnderWay(k)' \in Nat /\ UnderWay(k)' <= UnderWay(k) + 0
    BY <1>3, <2>3, <2>5, <2>6, <2>7
  <2> QED
    BY <1>2, <2>8, CoverStep
<1>10. CASE Aside(j)
  <2>1. PICK m \in JobType : /\ Becomes(j, m) /\ m.leaf = j.leaf /\ m.by = j.by
                             /\ m.now = j.now /\ m.step = "aside" /\ j.step = "asked"
    BY <1>10, AsideJob
  <2>2. InDebt(m, k) => InDebt(j, k)
    BY <2>1 DEF InDebt
  <2>3. DebtOf(m)' = DebtOf(j)
    BY <1>2, <2>1 DEF DebtOf
  <2> QED
    BY <1>4, <2>1, <2>2, <2>3
<1> QED
  BY <1>5, <1>6, <1>7, <1>8, <1>9, <1>10 DEF CallbackStep, Retry, Expand, SetReady, JobTotal

LEMMA JobEdgeCover ==
    ASSUME IndInv, RequestInv, NEW j \in jobs, JobEdge(j),
           NEW k \in DOMAIN tree, k # Root, CoverAt(k)
    PROVE  CoverAt(k)'
<1>1. j \in JobType /\ j.leaf \in DOMAIN tree /\ j.now \in DOMAIN tree /\ j.invalid \in Nat
      /\ j.step = "edge" /\ CallbackStep(j)
  BY DEF IndInv, JobsType, JobType, JobEdge, CallbackStep
<1> DEFINE m == [j EXCEPT !.step = "total"]
           debt == 1 + j.invalid
           d == IF k = j.now THEN -(1 + j.invalid) ELSE 0
<1>2. Becomes(j, m)
  BY DEF JobEdge, StepTo
<1>3. m.leaf = j.leaf /\ m.by = j.by /\ m.step = "total" /\ m.now = j.now /\ m.invalid = j.invalid
  BY <1>1 DEF JobType
<1> HIDE DEF m
<1>4. tree'[k].vl = tree[k].vl + Loss * d
  <2>1. tree[k].vl \in Int /\ Loss \in Nat
    BY NodeFields, SearchAssumption DEF IndInv
  <2>2. tree'[k].vl = IF k = j.now THEN tree[k].vl - TakenBack(j.invalid) ELSE tree[k].vl
    BY EdgeWrites DEF JobEdge
  <2>3. CASE k = j.now
    <3>1. tree[k].vl - (j.invalid + 1) * Loss = tree[k].vl + Loss * (-(1 + j.invalid))
      BY <1>1, <2>1
    <3> QED
      BY <2>2, <2>3, <3>1 DEF TakenBack
  <2>4. CASE k # j.now
    BY <2>1, <2>2, <2>4
  <2> QED
    BY <2>3, <2>4
<1>5. /\ ~OnWay(k, Root)
      /\ j.now # Root => (OnWay(k, j.now) <=> k = j.now \/ OnWay(k, Father(j.now)))
      /\ k = j.now => ~OnWay(k, Father(j.now))
  BY <1>1, WayUp
<1>6. InDebt(j, k) <=> OnWay(k, j.now)
  BY <1>1 DEF InDebt
<1>7. InDebt(m, k)' <=> j.now # Root /\ OnWay(k, Father(j.now))
  BY <1>3 DEF InDebt, OnWay, Father
<1>8. DebtOf(j) = debt /\ DebtOf(m)' = debt
  BY <1>1, <1>3 DEF DebtOf
<1>9. (k = j.now => InDebt(j, k) /\ ~InDebt(m, k)') /\ (InDebt(m, k)' => InDebt(j, k))
  BY <1>5, <1>6, <1>7
<1>10. Owed(j, k) = (IF InDebt(j, k) THEN debt ELSE 0) /\ Owed(m, k)' = IF InDebt(m, k)' THEN debt ELSE 0
  BY <1>8 DEF Owed
<1>11. Owed(m, k)' \in Nat /\ d \in Int /\ Owed(m, k)' <= Owed(j, k) + d
  BY <1>1, <1>9, <1>10
<1> HIDE DEF d, debt
<1> QED
  BY <1>1, <1>2, <1>3, <1>4, <1>11, JobCover

\* Nobody is below a new node.
LEMMA NewCover ==
    ASSUME IndInv, Finite, PrefixClosed, NEW j \in jobs, Expand(j), NEW k \in NewKids(j.leaf)
    PROVE  CoverAt(k)'
<1>1. tree'[k] = NewNode /\ k \notin DOMAIN tree
  BY ExpandWrites
<1>2. UNCHANGED <<pc, at>> /\ TreeInv /\ j.leaf \in DOMAIN tree
  BY DEF Expand, IndInv, JobsType
<1>3. k \in Paths
  <2>1. j.leaf \in Paths /\ tree[j.leaf].gen + 1 \in Nat \ {0}
    BY <1>2, NodeFields DEF TreeInv, NodesType
  <2>2. PICK i \in Moves : k = Append(j.leaf, <<i, tree[j.leaf].gen + 1>>)
    BY DEF NewKids, KidsOf
  <2> QED
    BY <2>1, <2>2, KidPath
<1>4. \A x \in DOMAIN tree : ~OnWay(k, x)
  BY <1>1, <1>3, SamePrefix DEF OnWay
<1>5. \A x \in DOMAIN tree : x # Root => ~OnWay(k, Father(x))
  BY <1>2, <1>4, FatherThere
<1>6. Walkers(k)' = {}
  <2>1. Walkers(k) = {}
    BY <1>4, <1>5 DEF Walkers, IndInv, ThreadsType
  <2> QED
    BY <1>2, <2>1, SameWalkers
<1>7. \A m \in jobs' : ~InDebt(m, k)'
  <2>1. \A m \in jobs' : m.now \in DOMAIN tree
    <3>1. \A m \in jobs' : m \in jobs \/ m.now = j.now \/ (j.now # Root /\ m.now = Father(j.now))
      BY CallbackNow DEF CallbackStep
    <3>2. j.now # Root => Father(j.now) \in DOMAIN tree
      BY <1>2, FatherThere DEF IndInv, JobsType
    <3> QED
      BY <3>1, <3>2 DEF IndInv, JobsType
  <2> QED
    BY <1>4, <1>5, <2>1 DEF InDebt, OnWay, Father
<1>8. IsFiniteSet(jobs')
  <2>1. IsFiniteSet(jobs \ {j})
    BY FS_Subset DEF Finite
  <2>2. PICK m : jobs' = (jobs \ {j}) \cup {m}
    BY DEF Expand, StepTo, Becomes
  <2> QED
    BY <2>1, <2>2, FS_AddElement
<1> DEFINE v == [m \in jobs' |-> Owed(m, k)']
<1>9. OwedAt(k)' = v
  BY DEF OwedAt
<1>10. \A m \in jobs' : v[m] = 0
  BY <1>7 DEF Owed
<1> HIDE DEF v
<1>11. SumOf(v, jobs') = 0
  <2>1. SumOf(v, {} \cup jobs') = SumOf(v, {})
    BY <1>8, <1>10, FS_EmptySet, SumSupport
  <2>2. {} \cup jobs' = jobs'
    OBVIOUS
  <2> QED
    BY <2>1, <2>2, SumEmpty
<1>12. UnderWay(k)' = Cardinality(Walkers(k)') + SumOf(v, jobs')
  BY <1>9 DEF UnderWay
<1>13. UnderWay(k)' = 0
  <2>1. Cardinality(Walkers(k)') = 0
    BY <1>6, FS_EmptySet
  <2> QED
    BY <1>11, <1>12, <2>1
<1>14. tree'[k].vl = 0 /\ Loss * 0 = 0
  BY <1>1, SearchAssumption DEF NewNode
<1>15. tree'[k].vl >= Loss * UnderWay(k)'
  BY <1>13, <1>14
<1> QED
  BY <1>15 DEF CoverAt

LEMMA StepCover ==
    OneThread /\ IndInv /\ RequestInv /\ SoloInv /\ PrefixClosed /\ Cover /\ [Next]_vars => Cover'
<1> SUFFICES ASSUME OneThread, IndInv, RequestInv, SoloInv, PrefixClosed, Cover, [Next]_vars,
                    NEW k \in DOMAIN tree', k # Root
             PROVE  CoverAt(k)'
  BY DEF Cover
<1>f. Finite
  BY DEF RequestInv
<1>1. CASE UNCHANGED vars
  <2>1. UnderWay(k)' = UnderWay(k) /\ tree' = tree
    BY <1>1 DEF vars, UnderWay, Walkers, OnWay, OwedAt, Owed, InDebt, DebtOf, Father
  <2> QED
    BY <2>1 DEF Cover, CoverAt
<1>2. ASSUME NEW t \in Threads, ThreadStep(t) PROVE CoverAt(k)'
  <2>1. k \in DOMAIN tree /\ CoverAt(k)
    BY <1>2, ThreadKeeps DEF Kept, Cover
  <2> QED
    BY <1>f, <1>2, <2>1, SelectCover, EdgeCover, SendCover, LateCover, QuietCover
<1>3. ASSUME NEW j \in jobs, CallbackStep(j) \/ Aside(j) \/ Retry(j) PROVE CoverAt(k)'
  <2>1. CASE k \in DOMAIN tree
    BY <1>3, <2>1, QuietJobCover, JobEdgeCover DEF Cover
  <2>2. CASE k \notin DOMAIN tree
    <3>1. Expand(j) /\ k \in NewKids(j.leaf)
      BY <1>3, <2>2, CallbackRest, ExpandWrites
    <3> QED
      BY <1>f, <3>1, NewCover
  <2> QED
    BY <2>1, <2>2
<1> QED
  BY <1>1, <1>2, <1>3 DEF Next, Ended

\* With one search thread the virtual loss of an edge covers all that will be
\* taken back from it: the loss of every visit that is on its way down or up
\* below it, and of the invalid visits that a callback has read or will still
\* read, wherever the reading of invalid_visit falls (mcts_select_path,
\* mcts_back_update, on_leaf_result in server_evaluate).
THEOREM OneThreadCoversLoss == Cardinality(Threads) = 1 => (Spec => []LossCovered)
<1> SUFFICES ASSUME OneThread PROVE Spec => []LossCovered
  BY DEF OneThread
<1> DEFINE Inv == IndInv /\ RequestInv /\ SoloInv /\ PrefixClosed /\ Cover
<1>1. Init => Inv
  <2>1. Init => Cover
    BY DEF Init, NewTree, Cover
  <2> QED
    BY <2>1, InitInv, InitRequests, InitSolo, InitFlight DEF FlightInv
<1>2. Inv /\ [Next]_vars => Inv'
  BY StepInv, StepRequests, StepSolo, StepClosed, StepCover
<1>3. Inv => LossCovered
  BY CoverMeans DEF RequestInv
<1> QED
  BY <1>1, <1>2, <1>3, PTL DEF Spec

------------------------------------------------------------------------------
(* The selection has a child to go to                                       *)

LEMMA NoLossBelowZero ==
    ASSUME IndInv, Finite, Cover, NEW k \in DOMAIN tree, k # Root
    PROVE  tree[k].vl \in Int /\ tree[k].vl >= 0
<1>1. tree[k].vl \in Int /\ Loss \in Nat /\ UnderWay(k) \in Nat
  BY NodeFields, UnderWayNat, SearchAssumption DEF IndInv
<1>2. tree[k].vl >= Loss * UnderWay(k)
  BY DEF Cover, CoverAt
<1> DEFINE u == UnderWay(k)
<1>3. u \in Nat /\ tree[k].vl >= Loss * u
  BY <1>1, <1>2
<1> HIDE DEF u
<1>4. Loss * u >= 0 /\ Loss * u \in Int
  BY <1>1, <1>3
<1> QED
  BY <1>1, <1>3, <1>4

LEMMA PathSteps ==
    ASSUME NEW x \in Paths, NEW i \in 1..Len(x)
    PROVE  x[i][1] \in Moves
<1> DEFINE S == Moves \X (Nat \ {0})
<1>1. x \in Seq(S)
  BY DEF Paths
<1> HIDE DEF S
<1>2. x[i] \in S
  BY <1>1, ElementOfSeq
<1> QED
  BY <1>2 DEF S

\* A line that ends with a pass repeats no position that its beginning does not.
LEMMA PassIsNew ==
    ASSUME IndInv, NEW x \in DOMAIN tree, tree[x].gen > 0, ~Repeats(x)
    PROVE  ~Repeats(Kid(x, PassMove))
<1> DEFINE k == Kid(x, PassMove)
           l == Line(x)
           m == Line(k)
<1>1. /\ x \in Paths /\ tree[x].gen \in Nat \ {0} /\ PassMove \in Moves
      /\ played \in Seq(Moves)
  BY NodeFields, SearchAssumption DEF IndInv, TreeInv, NodesType, GameType
<1>2. /\ k = Append(x, <<PassMove, tree[x].gen>>)
      /\ x \in Seq(Moves \X (Nat \ {0})) /\ Len(x) \in Nat
  BY <1>1 DEF Kid, Paths
<1>3. /\ Len(k) = Len(x) + 1
      /\ \A i \in 1..Len(x) : k[i] = x[i]
      /\ k[Len(x) + 1] = <<PassMove, tree[x].gen>> /\ k \in Paths
  <2>1. <<PassMove, tree[x].gen>> \in Moves \X (Nat \ {0})
    BY <1>1
  <2> QED
    BY <1>2, <2>1 DEF Paths
<1> HIDE DEF k
<1> DEFINE a == [i \in DOMAIN x |-> x[i][1]]
           b == [i \in DOMAIN k |-> k[i][1]]
<1>4. a \in Seq(Moves) /\ Len(a) = Len(x) /\ \A i \in 1..Len(x) : a[i] = x[i][1]
  <2>1. DOMAIN x = 1..Len(x) /\ \A i \in 1..Len(x) : x[i][1] \in Moves
    BY <1>2, ElementOfSeq
  <2>2. a \in [1..Len(x) -> Moves]
    BY <2>1
  <2>3. \A i \in 1..Len(x) : a[i] = x[i][1]
    BY <2>1
  <2> HIDE DEF a
  <2>4. DOMAIN a = 1..Len(x) /\ Len(x) \in Nat
    BY <1>2, <2>2
  <2>5. a \in Seq(Moves)
    BY <2>2, <2>4
  <2>6. Len(a) = Len(x)
    BY <2>4
  <2> QED
    BY <2>3, <2>5, <2>6
<1>5. b \in Seq(Moves) /\ Len(b) = Len(k) /\ \A i \in 1..Len(k) : b[i] = k[i][1]
  <2>1. DOMAIN k = 1..Len(k) /\ Len(k) \in Nat
    BY <1>3 DEF Paths
  <2>2. \A i \in 1..Len(k) : k[i][1] \in Moves
    <3>1. k \in Paths
      BY <1>3
    <3> SUFFICES ASSUME NEW i \in 1..Len(k) PROVE k[i][1] \in Moves
      OBVIOUS
    <3> QED
      BY <3>1, PathSteps
  <2>3. b \in [1..Len(k) -> Moves]
    BY <2>1, <2>2
  <2>4. \A i \in 1..Len(k) : b[i] = k[i][1]
    BY <2>1
  <2> HIDE DEF b
  <2>5. DOMAIN b = 1..Len(k)
    BY <2>3
  <2>6. b \in Seq(Moves)
    BY <2>1, <2>3, <2>5
  <2>7. Len(b) = Len(k)
    BY <2>1, <2>5
  <2> QED
    BY <2>4, <2>6, <2>7
<1> HIDE DEF a, b
<1>6. l = played \o a /\ m = played \o b
  BY DEF Line, a, b
<1>7. Len(l) \in Nat /\ Len(m) = Len(l) + 1 /\ m[Len(m)] = PassMove
      /\ l \in Seq(Moves) /\ m \in Seq(Moves) /\ \A i \in 1..Len(l) : m[i] = l[i]
  <2>1. /\ Len(played) \in Nat /\ Len(b) = Len(a) + 1 /\ Len(a) \in Nat
        /\ b[Len(a) + 1] = PassMove /\ \A i \in 1..Len(a) : b[i] = a[i]
    <3>1. Len(played) \in Nat /\ Len(a) \in Nat /\ Len(b) = Len(a) + 1
      BY <1>1, <1>2, <1>3, <1>4, <1>5
    <3>2. Len(a) + 1 \in 1..Len(k) /\ k[Len(a) + 1][1] = PassMove
      BY <1>3, <1>4, <1>5, <3>1
    <3>3. b[Len(a) + 1] = PassMove
      BY <1>5, <3>2
    <3>4. \A i \in 1..Len(a) : b[i] = a[i]
      BY <1>3, <1>4, <1>5, <3>1
    <3> QED
      BY <3>1, <3>3, <3>4
  <2>2. /\ l \in Seq(Moves) /\ Len(l) = Len(played) + Len(a)
        /\ \A i \in 1..Len(l) : l[i] = IF i <= Len(played) THEN played[i] ELSE a[i - Len(played)]
    <3> HIDE DEF l, m
    <3>1. /\ played \o a \in Seq(Moves) /\ Len(played \o a) = Len(played) + Len(a)
          /\ \A i \in 1..(Len(played) + Len(a)) :
                (played \o a)[i] = IF i <= Len(played) THEN played[i] ELSE a[i - Len(played)]
      BY <1>1, <1>4, ConcatProperties
    <3> QED
      BY <1>6, <3>1
  <2>3. /\ m \in Seq(Moves) /\ Len(m) = Len(played) + Len(b)
        /\ \A i \in 1..Len(m) : m[i] = IF i <= Len(played) THEN played[i] ELSE b[i - Len(played)]
    <3> HIDE DEF l, m
    <3>1. /\ played \o b \in Seq(Moves) /\ Len(played \o b) = Len(played) + Len(b)
          /\ \A i \in 1..(Len(played) + Len(b)) :
                (played \o b)[i] = IF i <= Len(played) THEN played[i] ELSE b[i - Len(played)]
      BY <1>1, <1>5, ConcatProperties
    <3> QED
      BY <1>6, <3>1
  <2> HIDE DEF l, m
  <2>4. m[Len(m)] = PassMove
    BY <2>1, <2>3
  <2>5. ASSUME NEW i \in 1..Len(l) PROVE m[i] = l[i]
    <3>1. i \in Nat /\ i \in 1..Len(m) /\ i <= Len(played) + Len(a)
      BY <2>1, <2>2, <2>3
    <3>2. CASE i <= Len(played)
      BY <2>2, <2>3, <3>1, <3>2
    <3>3. CASE ~(i <= Len(played))
      <4>1. i - Len(played) \in 1..Len(a)
        BY <2>1, <3>1, <3>3
      <4>2. b[i - Len(played)] = a[i - Len(played)]
        BY <2>1, <4>1
      <4> QED
        BY <2>2, <2>3, <3>1, <3>3, <4>2
    <3> QED
      BY <3>2, <3>3
  <2> QED
    BY <2>1, <2>2, <2>3, <2>4, <2>5
<1> SUFFICES ASSUME NEW line \in Repeating, IsPrefix(line, m)
             PROVE  IsPrefix(line, l)
  BY DEF Repeats, k
<1> HIDE DEF l, m
<1>8. line \in Seq(Moves) /\ Len(line) \in Nat
  BY SearchAssumption
<1>9. Len(line) <= Len(m) /\ \A i \in 1..Len(line) : line[i] = m[i]
  BY <1>7, <1>8, PrefixIs
<1>10. Len(line) # Len(m)
  <2> SUFFICES ASSUME Len(line) = Len(m) PROVE FALSE
    OBVIOUS
  <2>1. line[Len(line)] = PassMove /\ line # <<>>
    BY <1>7, <1>8, <1>9
  <2> QED
    BY <2>1, PassNeverRepeats
<1>11. Len(line) <= Len(l) /\ \A i \in 1..Len(line) : line[i] = l[i]
  BY <1>7, <1>8, <1>9, <1>10
<1> QED
  BY <1>7, <1>8, <1>11, PrefixIs

\* The first child that is not left out has a score.
LEMMA SomeScore ==
    ASSUME IndInv, Repetitions, SoloInv, NEW t \in Threads, NEW x \in DOMAIN tree, x # Root,
           tree[x].eval_ready
    PROVE  Scored(t, x) # {}
<1>1. tree[x].gen > 0
  BY DEF IndInv, TreeInv, ReadyHasKids
<1>2. ~Repeats(x)
  BY <1>1 DEF SoloInv, SoloNodes, Repetitions
<1>3. PassMove \in Moves /\ Kid(x, PassMove) \in DOMAIN tree
  BY <1>1, SearchAssumption, KidFacts DEF IndInv
<1>4. ~Skipped(t, x, PassMove)
  BY <1>1, <1>2, <1>3, PassIsNew DEF Skipped, Repetitions
<1> DEFINE A == {i \in Moves : ~Skipped(t, x, i)}
<1>5. A \subseteq Nat /\ A # {}
  BY <1>3, <1>4, SearchAssumption DEF Moves
<1>6. PICK i \in A : \A l \in A : ~(l < i)
  <2>1. IsWellFoundedOn(OpToRel(<, Nat), Nat)
    BY NatLessThanWellFounded
  <2> HIDE DEF A
  <2>2. \E i \in A : \A l \in A : ~(<<l, i>> \in OpToRel(<, Nat))
    BY <1>5, <2>1, WFMin
  <2> QED
    BY <1>5, <2>2 DEF OpToRel
<1>7. \A l \in 1..(i - 1) : l \in Moves /\ l < i
  BY SearchAssumption DEF Moves
<1>8. i \in Scored(t, x)
  BY <1>6, <1>7 DEF Scored
<1> QED
  BY <1>8

LEMMA StepSafe ==
    ASSUME OneThread, IndInv, RequestInv, SoloInv, FlightInv, Cover, SelectionSafe, [Next]_vars
    PROVE  SelectionSafe'
<1>1. CASE UNCHANGED vars
  BY <1>1 DEF vars, SelectionSafe, Crashed
<1>2. ASSUME NEW t \in Threads, ThreadStep(t) PROVE SelectionSafe'
  <2>1. pc \in [Threads -> Steps] /\ at[t] \in DOMAIN tree
    BY DEF IndInv, ThreadsType
  <2>2. ~SelectNothing(t)
    <3> SUFFICES ASSUME SelectNothing(t) PROVE FALSE
      OBVIOUS
    <3> DEFINE x == at[t]
    <3>1. x \in DOMAIN tree /\ x # Root /\ tree[x].eval_ready
          /\ \A i \in Scored(t, x) : ~Scores(x, i)
      BY <2>1 DEF SelectNothing
    <3> HIDE DEF x
    <3>2. PICK i \in Scored(t, x) : TRUE
      BY <3>1, SomeScore DEF FlightInv
    <3>3. i \in Moves /\ tree[x].gen > 0
      BY <3>1, <3>2 DEF Scored, IndInv, TreeInv, ReadyHasKids
    <3>4. Kid(x, i) \in DOMAIN tree /\ Kid(x, i) # Root
      BY <3>1, <3>3, KidFacts DEF IndInv
    <3> DEFINE n == tree[Kid(x, i)].n
               v == tree[Kid(x, i)].vl
    <3>5. v \in Int /\ v >= 0 /\ n \in Nat
      BY <3>4, NoLossBelowZero, NodeThere DEF RequestInv, NodeType
    <3>6. ~Scores(x, i)
      BY <3>1, <3>2
    <3>7. ~(n = 0 \/ n + v # 0)
      BY <3>6 DEF Scores
    <3> HIDE DEF n, v
    <3> QED
      BY <3>5, <3>7
  <2>3. pc'[t] # "crash"
    BY <1>2, <2>1, <2>2 DEF SelectionSafe, Crashed, ThreadStep, Go, Again, Break, Round, AwaitRoot,
       Select, SelectEnds, LeafRepeats, LeafDecided, LeafOpen, Test, Send, Late, ThreadEdge,
       ThreadTotal, Over
  <2> QED
    BY <1>2, <2>3, OnlyThread DEF SelectionSafe, Crashed
<1>3. ASSUME NEW j \in jobs, CallbackStep(j) \/ Aside(j) \/ Retry(j) PROVE SelectionSafe'
  BY <1>3, CallbackRest DEF SelectionSafe, Crashed
<1> QED
  BY <1>1, <1>2, <1>3 DEF Next, Ended

\* With one search thread mcts_select_path never comes out without a best child
\* below the root: no edge has lost more virtual loss than it was given, so that
\* every child that is looked at has a score, and the pass is never left out as
\* a repetition.  With two threads it can (MCSearch_two_no_child).
THEOREM OneThreadSelects == Cardinality(Threads) = 1 => (Spec => []SelectionSafe)
<1> SUFFICES ASSUME OneThread PROVE Spec => []SelectionSafe
  BY DEF OneThread
<1> DEFINE Inv == IndInv /\ RequestInv /\ SoloInv /\ FlightInv /\ Cover /\ SelectionSafe
<1>1. Init => Inv
  <2>1. Init => Cover /\ SelectionSafe
    BY DEF Init, NewTree, Cover, SelectionSafe, Crashed
  <2> QED
    BY <2>1, InitInv, InitRequests, InitSolo, InitFlight
<1>2. Inv /\ [Next]_vars => Inv'
  BY StepInv, StepRequests, StepSolo, StepFlight, StepCover, StepSafe DEF FlightInv
<1>3. Inv => SelectionSafe
  OBVIOUS
<1> QED
  BY <1>1, <1>2, <1>3, PTL DEF Spec

==============================================================================
