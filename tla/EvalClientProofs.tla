-------------------------- MODULE EvalClientProofs --------------------------
(***************************************************************************)
(* Proofs about EvalClient for any callers, senders, sizes and failures.   *)
(*                                                                         *)
(* The inductive invariant is Types /\ Shape /\ TokenAccounting /\         *)
(* PermitAccounting: Pop stays within the queue because of the tokens, a   *)
(* sender finds a free call because of the permits, and Shape says which   *)
(* data goes with which step.  SlotAccounting and what follows from it     *)
(* are proved on top.  A second invariant, PlaceInv, says where each       *)
(* request is: on it rest the answers of a rollout that is over, the       *)
(* refinement of EvalService and the bound of Stop's loop.                 *)
(***************************************************************************)
EXTENDS EvalClient, FiniteSetTheorems, SequenceTheorems, TLAPS

SenderSteps == {"top", "permit", "peek", "take", "pop", "release",
                "send", "answer", "count", "drain", "done"}
CallSteps == {"free", "flying", "lost", "answer", "count", "fail", "resend", "release"}

\* TypeOK without the upper bounds, which need the accounting.
Types ==
    /\ queue \in Seq(Requests) /\ full \in Nat /\ empty \in Nat
    /\ asleep \subseteq Putters
    /\ pending \in Int /\ seen \in [least : Int, most : Int]
    /\ terminate \in BOOLEAN /\ aborted \in BOOLEAN
    /\ stop \in {"off", "size", "look", "join", "stopped"}
    /\ cpc \in [Callers -> {"run", "poll", "over"}]
    /\ issued \in [Clients -> Nat]
    /\ put \in [Putters -> {"no", "slot", "push", "signal"}]
    /\ spc \in [Senders -> SenderSteps]
    /\ fetch \in [Senders -> 0..BatchSize] /\ batch \in [Senders -> Seq(Requests)]
    /\ proxy \in [Senders -> 0..(ProxyNumber - 1)]
    /\ permits \in [Senders -> Nat]
    /\ cst \in [CallIds -> CallSteps]
    /\ load \in [CallIds -> Seq(Requests)] /\ todo \in [CallIds -> Seq(Requests)]
    /\ failures \in Nat /\ answers \in [Requests -> Nat]

\* A sender holds a batch from its pop to its send or its last answer.
SenderShape ==
    \A s \in Senders :
        /\ (spc[s] \in {"pop", "release"}) <=> (fetch[s] # 0)
        /\ spc[s] \in {"release", "send", "answer", "count"} => batch[s] # <<>>
        /\ IsAsyn \/ spc[s] \notin {"permit", "peek"}

\* A call has requests left while its callbacks are at work on them, and no call
\* is left of a sender that is done.
CallShape ==
    \A k \in CallIds :
        /\ cst[k] \in {"answer", "count", "fail", "resend"} => todo[k] # <<>>
        /\ cst[k] \in {"flying", "fail", "resend"} /\ todo[k] # <<>> => load[k] # <<>>
        /\ (put[k] # "no") <=> (cst[k] = "resend")
        /\ spc[k[1]] = "done" => cst[k] = "free"

\* A client that puts has a request to put, and a rollout that is over does not
\* put; nor does Stop before it begins or once it joins.
ClientShape ==
    /\ \A x \in Clients : /\ issued[x] <= Limit(x)
                          /\ put[x] # "no" => issued[x] > 0
    /\ \A c \in Callers : cpc[c] # "run" => put[c] = "no"
    /\ stop # "off" => \A c \in Callers : cpc[c] = "over"
    /\ stop # "size" => put[Stopper] = "no"
    /\ stop = "stopped" => \A s \in Senders : spc[s] = "done"
    /\ \A p \in asleep : put[p] = "slot"

Shape == SenderShape /\ CallShape /\ ClientShape

IndInv == Types /\ Shape /\ TokenAccounting /\ PermitAccounting

------------------------------------------------------------------------------
(* Sets of putters and of fetched items                                     *)

\* Fetched, for any positions and amounts.
FetchedBy(sp, f, step) ==
    {x \in Senders \X (1..BatchSize) : sp[x[1]] = step /\ x[2] <= f[x[1]]}

LEMMA SetsAreFinite ==
  /\ IsFiniteSet(Senders) /\ IsFiniteSet(CallIds) /\ IsFiniteSet(Clients)
  /\ IsFiniteSet(Putters) /\ IsFiniteSet(Senders \X (1..BatchSize))
<1>1. IsFiniteSet(1..OnceSend) /\ IsFiniteSet(1..BatchSize)
  BY ClientAssumption, FS_Interval
<1>2. IsFiniteSet(Senders) /\ IsFiniteSet(CallIds) /\ IsFiniteSet(Senders \X (1..BatchSize))
  BY <1>1, ClientAssumption, FS_Product DEF CallIds
<1>3. IsFiniteSet({Stopper})
  BY FS_Singleton
<1>4. IsFiniteSet(Clients)
  BY <1>3, ClientAssumption, FS_Union DEF Clients
<1>5. QED
  BY <1>2, <1>4, FS_Union DEF Putters

\* The pairs of one sender are as many as it has fetched.
LEMMA PairsCount ==
  ASSUME NEW s, NEW n \in Nat
  PROVE  IsFiniteSet({s} \X (1..n)) /\ Cardinality({s} \X (1..n)) = n
<1>1. IsFiniteSet({s}) /\ Cardinality({s}) = 1
  BY FS_Singleton
<1>2. IsFiniteSet(1..n) /\ Cardinality(1..n) = n
  BY FS_Interval
<1>3. Cardinality({s}) * Cardinality(1..n) = n
  BY <1>1, <1>2
<1>4. QED
  BY <1>1, <1>2, <1>3, FS_Product

LEMMA FetchedFinite ==
  ASSUME NEW sp, NEW f, NEW step
  PROVE  /\ IsFiniteSet(FetchedBy(sp, f, step))
         /\ Cardinality(FetchedBy(sp, f, step)) \in Nat
BY SetsAreFinite, FS_Subset, FS_CardinalityType DEF FetchedBy

\* A sender that comes to a step brings what it has fetched.
LEMMA FetchedJoin ==
  ASSUME NEW sp \in [Senders -> SenderSteps], NEW f \in [Senders -> 0..BatchSize],
         NEW sp2 \in [Senders -> SenderSteps], NEW f2 \in [Senders -> 0..BatchSize],
         NEW s \in Senders, NEW step,
         \A t \in Senders \ {s} : sp2[t] = sp[t] /\ f2[t] = f[t],
         sp[s] # step, sp2[s] = step
  PROVE  Cardinality(FetchedBy(sp2, f2, step))
            = Cardinality(FetchedBy(sp, f, step)) + f2[s]
<1> DEFINE A == FetchedBy(sp, f, step)
           B == {s} \X (1..f2[s])
<1>1. FetchedBy(sp2, f2, step) = A \cup B
  BY ClientAssumption DEF FetchedBy
<1>2. A \cap B = {}
  BY DEF FetchedBy
<1>a. f2[s] \in Nat
  BY ClientAssumption
<1>b. IsFiniteSet(B) /\ Cardinality(B) = f2[s]
  BY <1>a, PairsCount
<1>c. IsFiniteSet(A) /\ Cardinality(A) \in Nat
  BY FetchedFinite
<1>3. /\ IsFiniteSet(A) /\ Cardinality(A) \in Nat
      /\ IsFiniteSet(B) /\ Cardinality(B) = f2[s] /\ f2[s] \in Nat
  BY <1>a, <1>b, <1>c
<1>4. Cardinality(A \cup B) = Cardinality(A) + Cardinality(B) - Cardinality(A \cap B)
  BY <1>3, FS_Union
<1>5. Cardinality(A \cap B) = 0
  BY <1>2, FS_EmptySet
<1>6. QED
  BY <1>1, <1>3, <1>4, <1>5

\* A sender that is at another step before and after changes nothing.
LEMMA FetchedSame ==
  ASSUME NEW sp, NEW f, NEW sp2, NEW f2, NEW s, NEW step,
         \A t \in Senders \ {s} : sp2[t] = sp[t] /\ f2[t] = f[t],
         sp[s] # step, sp2[s] # step
  PROVE  FetchedBy(sp2, f2, step) = FetchedBy(sp, f, step)
BY DEF FetchedBy

\* A set of putters that one putter enters or leaves.
LEMMA PuttersMove ==
  ASSUME NEW A \in SUBSET Putters
  PROVE  /\ IsFiniteSet(A) /\ Cardinality(A) \in Nat
         /\ \A p \in Putters \ A : Cardinality(A \cup {p}) = Cardinality(A) + 1
         /\ \A p \in A : Cardinality(A \ {p}) = Cardinality(A) - 1
<1>1. IsFiniteSet(A)
  BY SetsAreFinite, FS_Subset
<1>2. QED
  BY <1>1, FS_CardinalityType, FS_AddElement, FS_RemoveElement

\* A sender with a permit in hand has a call to use it for.
LEMMA FreeCall ==
  ASSUME Types, PermitAccounting, NEW s \in Senders, HasPermit(s)
  PROVE  \E i \in 1..OnceSend : cst[<<s, i>>] = "free"
<1>1. SUFFICES ASSUME \A i \in 1..OnceSend : cst[<<s, i>>] # "free" PROVE FALSE
  OBVIOUS
<1>2. CallsOf(s) = {s} \X (1..OnceSend)
  BY <1>1 DEF CallsOf
<1>3. Cardinality(CallsOf(s)) = OnceSend
  BY <1>2, PairsCount, ClientAssumption
<1>4. permits[s] \in Nat /\ OnceSend \in Nat
  BY ClientAssumption DEF Types
<1>5. QED
  BY <1>3, <1>4 DEF PermitAccounting

\* When every permit is back, every call is.
LEMMA AllCallsFree ==
  ASSUME Types, PermitAccounting, NEW s \in Senders, AllBack(s)
  PROVE  \A k \in CallIds : k[1] = s => cst[k] = "free"
<1>1. IsFiniteSet(CallsOf(s)) /\ Cardinality(CallsOf(s)) \in Nat
  BY PairsCount, FS_Subset, FS_CardinalityType, ClientAssumption DEF CallsOf
<1>a. PICK h \in {0, 1} :
         permits[s] + Cardinality(CallsOf(s)) + h = OnceSend
  BY DEF PermitAccounting
<1>b. permits[s] \in Nat /\ OnceSend \in Nat /\ permits[s] >= OnceSend
  BY ClientAssumption DEF Types, AllBack
<1>2. Cardinality(CallsOf(s)) = 0
  BY <1>1, <1>a, <1>b
<1>3. CallsOf(s) = {}
  BY <1>1, <1>2, FS_EmptySet
<1>4. QED
  BY <1>3 DEF CallsOf, CallIds

\* Calls belong to senders.
LEMMA Owner ==
  \A k \in CallIds : k[1] \in Senders /\ k \notin Clients /\ k \in Putters
BY ClientAssumption DEF CallIds, Putters

\* Head and tail of a batch.
LEMMA Batches ==
  ASSUME NEW q \in Seq(Requests), q # <<>>
  PROVE  /\ Head(q) \in Requests /\ Tail(q) \in Seq(Requests) /\ Len(q) \in Nat
         /\ Len(q) > 1 => Tail(q) # <<>>
         /\ Len(q) > 0
         /\ Len(q) = 1 => Tail(q) = <<>>
<1>1. Len(q) \in Nat /\ Len(q) > 0
  OBVIOUS
<1>2. Head(q) \in Requests /\ Tail(q) \in Seq(Requests) /\ Len(Tail(q)) = Len(q) - 1
  BY <1>1
<1>3. Len(Tail(q)) = 0 <=> Tail(q) = <<>>
  BY <1>2, EmptySeq
<1>4. QED
  BY <1>1, <1>2, <1>3

\* A sender between its two locks finds in the queue all the items it has the
\* tokens of.
LEMMA PopFits ==
  ASSUME IndInv, NEW s \in Senders, spc[s] = "pop"
  PROVE  fetch[s] \in Nat /\ fetch[s] > 0 /\ fetch[s] <= Len(queue)
<1>1. fetch[s] \in 0..BatchSize /\ BatchSize \in Nat /\ fetch[s] # 0
  BY ClientAssumption DEF IndInv, Types, Shape, SenderShape
<1>2. {s} \X (1..fetch[s]) \subseteq Unpopped
  BY <1>1 DEF Unpopped, Fetched
<1>a. Unpopped = FetchedBy(spc, fetch, "pop")
  BY DEF Unpopped, Fetched, FetchedBy
<1>3. IsFiniteSet(Unpopped) /\ Cardinality(Unpopped) \in Nat
  BY <1>a, FetchedFinite
<1>b. fetch[s] \in Nat
  BY <1>1
<1>c. Cardinality({s} \X (1..fetch[s])) = fetch[s]
  BY <1>b, PairsCount
<1>4. fetch[s] <= Cardinality(Unpopped)
  BY <1>2, <1>3, <1>c, FS_Subset
<1>5. Cardinality(SignalOwers) \in Nat
  BY PuttersMove DEF SignalOwers
<1>6. stop # "stopped"
  BY DEF IndInv, Shape, ClientShape
<1>7. QED
  BY <1>1, <1>3, <1>4, <1>5, <1>6 DEF IndInv, TokenAccounting, Types

\* The requests of the clients are requests.
LEMMA ClientItem ==
  ASSUME Types, Shape, NEW p \in Putters, put[p] # "no"
  PROVE  Item(p) \in Requests
<1>1. CASE p \in CallIds
  BY <1>1 DEF Types, Shape, CallShape, Item
<1>2. CASE p \notin CallIds
  <2>1. p \in Clients /\ issued[p] \in Nat /\ issued[p] > 0 /\ issued[p] <= Limit(p)
    BY <1>2 DEF Types, Shape, ClientShape, Putters
  <2>2. Limit(p) \in Nat
    BY SetsAreFinite, FS_CardinalityType, ClientAssumption DEF Limit
  <2>3. <<p, issued[p]>> \in RequestsOf(p)
    BY <2>1, <2>2 DEF RequestsOf
  <2>4. QED
    BY <1>2, <2>1, <2>3 DEF Item, Requests
<1>3. QED
  BY <1>1, <1>2

------------------------------------------------------------------------------
(* Types is preserved                                                       *)

LEMMA BeginCallTypes ==
  ASSUME Types, NEW s \in Senders, NEW q \in Seq(Requests), BeginCall(s, q)
  PROVE  /\ cst' \in [CallIds -> CallSteps]
         /\ load' \in [CallIds -> Seq(Requests)] /\ todo' \in [CallIds -> Seq(Requests)]
         /\ proxy' \in [Senders -> 0..(ProxyNumber - 1)]
         /\ spc' \in [Senders -> SenderSteps]
<1>a. proxy \in [Senders -> 0..(ProxyNumber - 1)] /\ ProxyNumber \in Nat \ {0}
  BY ClientAssumption DEF Types
<1>1. proxy' \in [Senders -> 0..(ProxyNumber - 1)]
  BY <1>a DEF BeginCall
<1>2. QED
  BY <1>1 DEF BeginCall, Types, CallSteps, SenderSteps

LEMMA SeenTypes ==
  ASSUME Types, NEW a \in Int, NEW b \in Int, Seen(a, b)
  PROVE  seen' \in [least : Int, most : Int]
BY DEF Types, Seen

LEMMA PuttingTypes ==
  ASSUME IndInv, NEW p \in Putters, Putting(p)
  PROVE  Types'
<1> USE DEF IndInv, queueVars, callerVars, senderVars, callVars, endVars, tallyVars
<1>1. CASE TakeSlot(p)
  BY <1>1 DEF TakeSlot, Types
<1>2. CASE SleepOnFull(p)
  BY <1>2 DEF SleepOnFull, Types
<1>3. CASE Push(p)
  <2>1. Item(p) \in Requests
    BY <1>3, ClientItem DEF Push
  <2>2. queue' \in Seq(Requests)
    BY <1>3, <2>1 DEF Push, Types
  <2>3. seen' \in [least : Int, most : Int]
    BY <1>3, SeenTypes DEF Push
  <2>4. QED
    BY <1>3, <2>2, <2>3 DEF Push, PendingUp, Types
<1>4. CASE Signal(p)
  <2>1. p \in CallIds => Tail(todo[p]) \in Seq(Requests)
    BY <1>4, Batches DEF Signal, Shape, CallShape, Types
  <2>2. todo' \in [CallIds -> Seq(Requests)]
    BY <1>4, <2>1 DEF Signal, Types
  <2>3. put' = [put EXCEPT ![p] = "no"] \/ put' = [put EXCEPT ![p] = "slot"]
    BY <1>4 DEF Signal
  <2>4. put' \in [Putters -> {"no", "slot", "push", "signal"}]
    BY <2>3 DEF Types
  <2>5. cst' = cst \/ cst' = [cst EXCEPT ![p] = "release"]
    BY <1>4 DEF Signal
  <2>6. cst' \in [CallIds -> CallSteps]
    BY <2>5 DEF Types, CallSteps
  <2>7. QED
    BY <1>4, <2>2, <2>4, <2>6 DEF Signal, Types
<1>5. QED
  BY <1>1, <1>2, <1>3, <1>4 DEF Putting

LEMMA CallingTypes ==
  ASSUME IndInv, NEW c \in Callers, Calling(c)
  PROVE  Types'
<1> USE DEF IndInv, queueVars, callerVars, senderVars, callVars, endVars, tallyVars
<1>1. CASE CallerEval(c)
  BY <1>1 DEF CallerEval, EvalCall, Types, Putters, Clients
<1>2. CASE CallerBreak(c)
  BY <1>2 DEF CallerBreak, Types
<1>3. CASE CallerOver(c)
  BY <1>3 DEF CallerOver, Types
<1>4. QED
  BY <1>1, <1>2, <1>3 DEF Calling

LEMMA SendingTypes ==
  ASSUME IndInv, NEW s \in Senders, Sending(s)
  PROVE  Types'
<1> USE DEF IndInv, SenderSteps, queueVars, callerVars, senderVars, callVars, endVars, tallyVars
<1>1. CASE LoopTest(s)
  BY <1>1 DEF LoopTest, Types
<1>2. CASE TakePermit(s)
  <2>1. permits' \in [Senders -> Nat]
    BY <1>2 DEF TakePermit, Types
  <2>2. QED
    BY <1>2, <2>1 DEF TakePermit, Types
<1>3. CASE SendDummy(s)
  <2>1. <<>> \in Seq(Requests) /\ BeginCall(s, <<>>)
    BY <1>3 DEF SendDummy
  <2>2. QED
    BY <1>3, <2>1, BeginCallTypes DEF SendDummy, Types
<1>4. CASE SeeRequests(s)
  BY <1>4 DEF SeeRequests, Types
<1>5. CASE TakeTokens(s)
  <2>1. Wanted \in 1..BatchSize /\ Wanted <= empty
    BY <1>5, ClientAssumption DEF TakeTokens, Wanted, Least, Types
  <2>2. empty' \in Nat /\ fetch' \in [Senders -> 0..BatchSize]
    BY <1>5, <2>1, ClientAssumption DEF TakeTokens, Types
  <2>3. QED
    BY <1>5, <2>2 DEF TakeTokens, Types
<1>6. CASE Pop(s)
  <2>1. fetch[s] \in Nat /\ fetch[s] <= Len(queue) /\ Len(queue) \in Nat
    BY <1>6, PopFits DEF Pop, Types
  <2>2. /\ SubSeq(queue, 1, fetch[s]) \in Seq(Requests)
        /\ SubSeq(queue, fetch[s] + 1, Len(queue)) \in Seq(Requests)
    BY <2>1, SubSeqProperties DEF Types
  <2>3. seen' \in [least : Int, most : Int]
    <3>1. Seen(fetch[s], 0)
      BY <1>6 DEF Pop, Popped
    <3>2. QED
      BY <2>1, <3>1, SeenTypes
  <2>4. QED
    BY <1>6, <2>2, <2>3 DEF Pop, Popped, Types
<1>7. CASE ReleaseSlots(s)
  <2>1. full' \in Nat /\ fetch' \in [Senders -> 0..BatchSize]
    BY <1>7, ClientAssumption DEF ReleaseSlots, Given, Types
  <2>2. asleep' \subseteq Putters
    BY <1>7 DEF ReleaseSlots, WakeOne, Types
  <2>3. QED
    BY <1>7, <2>1, <2>2 DEF ReleaseSlots, Types
<1>8. CASE SendAsyn(s)
  <2>1. batch[s] \in Seq(Requests) /\ BeginCall(s, batch[s])
    BY <1>8 DEF SendAsyn, Types
  <2>2. batch' \in [Senders -> Seq(Requests)]
    BY <1>8 DEF SendAsyn, Types
  <2>3. QED
    BY <1>8, <2>1, <2>2, BeginCallTypes DEF SendAsyn, Types
<1>9. CASE SendSync(s)
  BY <1>9 DEF SendSync, Types
<1>10. CASE SyncThrows(s)
  <2>1. failures' \in Nat
    BY <1>10 DEF SyncThrows, Types
  <2>2. QED
    BY <1>10, <2>1 DEF SyncThrows, Types
<1>11. CASE SyncAnswer(s)
  <2>1. Head(batch[s]) \in Requests
    BY <1>11, Batches DEF SyncAnswer, Types, Shape, SenderShape
  <2>2. answers' \in [Requests -> Nat]
    BY <1>11, <2>1 DEF SyncAnswer, Types
  <2>3. QED
    BY <1>11, <2>2 DEF SyncAnswer, Types
<1>12. CASE SyncCount(s)
  <2>1. batch' \in [Senders -> Seq(Requests)]
    BY <1>12, Batches DEF SyncCount, Types, Shape, SenderShape
  <2>2. proxy' = proxy \/ proxy' = [proxy EXCEPT ![s] = (@ + 1) % ProxyNumber]
    BY <1>12 DEF SyncCount
  <2>a. proxy \in [Senders -> 0..(ProxyNumber - 1)] /\ ProxyNumber \in Nat \ {0}
    BY ClientAssumption DEF Types
  <2>3. proxy' \in [Senders -> 0..(ProxyNumber - 1)]
    BY <2>2, <2>a
  <2>4. spc' = [spc EXCEPT ![s] = "top"] \/ spc' = [spc EXCEPT ![s] = "answer"]
    BY <1>12 DEF SyncCount
  <2>5. spc' \in [Senders -> SenderSteps]
    BY <2>4 DEF Types
  <2>6. pending' \in Int
    BY <1>12 DEF SyncCount, PendingDown, Types
  <2>7. QED
    BY <1>12, <2>1, <2>3, <2>5, <2>6 DEF SyncCount, Types
<1>13. CASE Drained(s)
  BY <1>13 DEF Drained, Types
<1>14. QED
  BY <1>1, <1>2, <1>3, <1>4, <1>5, <1>6, <1>7, <1>8, <1>9, <1>10, <1>11,
     <1>12, <1>13 DEF Sending

LEMMA CallingBackTypes ==
  ASSUME IndInv, NEW k \in CallIds, CallingBack(k)
  PROVE  Types'
<1> USE DEF IndInv, CallSteps, queueVars, callerVars, senderVars, callVars, endVars, tallyVars
<1>1. CASE Deliver(k)
  BY <1>1 DEF Deliver, Types
<1>2. CASE Answer(k)
  <2>1. Head(todo[k]) \in Requests
    BY <1>2, Batches DEF Answer, Types, Shape, CallShape
  <2>2. answers' \in [Requests -> Nat]
    BY <1>2, <2>1 DEF Answer, Types
  <2>3. QED
    BY <1>2, <2>2 DEF Answer, Types
<1>3. CASE Count(k)
  <2>1. todo' \in [CallIds -> Seq(Requests)]
    BY <1>3, Batches DEF Count, Types, Shape, CallShape
  <2>2. QED
    BY <1>3, <2>1 DEF Count, PendingDown, Types
<1>4. CASE Fail(k)
  BY <1>4, ClientAssumption DEF Fail, Types
<1>5. CASE FailCount(k)
  <2>1. Tail(todo[k]) \in Seq(Requests) /\ load[k] \in Seq(Requests)
    BY <1>5, Batches DEF FailCount, Types, Shape, CallShape
  <2>2. todo' = [todo EXCEPT ![k] = Tail(todo[k])] \/ todo' = [todo EXCEPT ![k] = load[k]]
    BY <1>5 DEF FailCount
  <2>3. todo' \in [CallIds -> Seq(Requests)]
    BY <2>1, <2>2 DEF Types
  <2>4. cst' = cst \/ cst' = [cst EXCEPT ![k] = "resend"]
    BY <1>5 DEF FailCount
  <2>5. cst' \in [CallIds -> CallSteps]
    BY <2>4 DEF Types
  <2>6. put' = put \/ put' = [put EXCEPT ![k] = "slot"]
    BY <1>5 DEF FailCount
  <2>7. put' \in [Putters -> {"no", "slot", "push", "signal"}]
    BY <2>6 DEF Types
  <2>8. pending' \in Int
    BY <1>5 DEF FailCount, PendingDown, Types
  <2>9. QED
    BY <1>5, <2>3, <2>5, <2>7, <2>8 DEF FailCount, Types
<1>6. CASE ReleasePermit(k)
  <2>1. permits' \in [Senders -> Nat]
    BY <1>6, Owner DEF ReleasePermit, PermitBack, Types
  <2>2. load' \in [CallIds -> Seq(Requests)]
    BY <1>6 DEF ReleasePermit, Types
  <2>3. cst' \in [CallIds -> CallSteps]
    BY <1>6 DEF ReleasePermit, Types
  <2>4. QED
    BY <1>6, <2>1, <2>2, <2>3 DEF ReleasePermit, Types
<1>7. QED
  BY <1>1, <1>2, <1>3, <1>4, <1>5, <1>6 DEF CallingBack

LEMMA StoppingTypes ==
  ASSUME IndInv, Stopping
  PROVE  Types'
<1> USE DEF IndInv, queueVars, callerVars, senderVars, callVars, endVars, tallyVars
<1>1. CASE StopBegin
  BY <1>1 DEF StopBegin, Types
<1>2. CASE StopEval
  BY <1>2 DEF StopEval, Unread, EvalCall, Types, Putters, Clients
<1>3. CASE StopWakeDone
  BY <1>3 DEF StopWakeDone, Unread, Types
<1>4. CASE StopJoin
  BY <1>4 DEF StopJoin, Types
<1>5. CASE StopLook
  <2>1. Len(queue) \in Int
    BY DEF Types
  <2>2. QED
    BY <1>5, <2>1 DEF StopLook, Types
<1>6. QED
  BY <1>1, <1>2, <1>3, <1>4, <1>5 DEF Stopping

LEMMA TypesStep ==
  ASSUME IndInv, [Next]_vars
  PROVE  Types'
<1>1. CASE UNCHANGED vars
  BY <1>1 DEF vars, queueVars, callerVars, senderVars, callVars, endVars, tallyVars, IndInv, Types
<1>2. QED
  BY <1>1, PuttingTypes, CallingTypes, SendingTypes, CallingBackTypes, StoppingTypes
     DEF Next, Ended

------------------------------------------------------------------------------
(* Shape is preserved                                                       *)

LEMMA LimitIsNat == \A x \in Clients : Limit(x) \in Nat
BY SetsAreFinite, FS_CardinalityType, ClientAssumption DEF Limit

\* The call a sender begins was free and is its own.
LEMMA BeginCallAt ==
  ASSUME Types, PermitAccounting, NEW s \in Senders, HasPermit(s),
         NEW q, BeginCall(s, q)
  PROVE  \E k \in CallIds, to \in {"lost", "flying"} :
            /\ k[1] = s /\ cst[k] = "free"
            /\ cst' = [cst EXCEPT ![k] = to]
            /\ load' = [load EXCEPT ![k] = q]
            /\ todo' = [todo EXCEPT ![k] = q]
            /\ spc' = [spc EXCEPT ![s] = "top"]
<1> DEFINE i == CHOOSE i \in 1..OnceSend : cst[<<s, i>>] = "free"
           k == <<s, i>>
<1>1. i \in 1..OnceSend /\ cst[k] = "free"
  BY FreeCall
<1> HIDE DEF i
<1>2. k \in CallIds /\ k[1] = s
  BY <1>1 DEF CallIds
<1> USE DEF i
<1>3. /\ cst' = [cst EXCEPT ![k] = IF proxy[s] \in BadProxies THEN "lost" ELSE "flying"]
      /\ load' = [load EXCEPT ![k] = q] /\ todo' = [todo EXCEPT ![k] = q]
      /\ spc' = [spc EXCEPT ![s] = "top"]
  BY DEF BeginCall
<1> HIDE DEF i, k
<1>4. CASE proxy[s] \in BadProxies
  BY <1>1, <1>2, <1>3, <1>4
<1>5. CASE proxy[s] \notin BadProxies
  BY <1>1, <1>2, <1>3, <1>5
<1>6. QED
  BY <1>4, <1>5

LEMMA PuttingShape ==
  ASSUME IndInv, NEW p \in Putters, Putting(p)
  PROVE  Shape'
<1> USE DEF IndInv, Types, Shape, SenderSteps, CallSteps, queueVars, callerVars, senderVars, callVars, endVars, tallyVars
<1>1. CASE TakeSlot(p)
  <2>1. SenderShape'
    BY <1>1, Owner DEF TakeSlot, SenderShape
  <2>2. CallShape'
    BY <1>1, Owner DEF TakeSlot, CallShape
  <2>3. ClientShape'
    BY <1>1, Owner DEF TakeSlot, ClientShape
  <2>4. QED
    BY <2>1, <2>2, <2>3 DEF Shape
<1>2. CASE SleepOnFull(p)
  <2>1. SenderShape'
    BY <1>2, Owner DEF SleepOnFull, SenderShape
  <2>2. CallShape'
    BY <1>2, Owner DEF SleepOnFull, CallShape
  <2>3. ClientShape'
    BY <1>2, Owner DEF SleepOnFull, ClientShape
  <2>4. QED
    BY <2>1, <2>2, <2>3 DEF Shape
<1>3. CASE Push(p)
  <2>1. SenderShape'
    BY <1>3, Owner DEF Push, PendingUp, SenderShape
  <2>2. CallShape'
    BY <1>3, Owner DEF Push, PendingUp, CallShape
  <2>3. ClientShape'
    BY <1>3, Owner DEF Push, PendingUp, ClientShape
  <2>4. QED
    BY <2>1, <2>2, <2>3 DEF Shape
<1>4. CASE Signal(p)
  <2>1. SenderShape'
    BY <1>4, Owner DEF Signal, SenderShape
  <2>2. CallShape'
    BY <1>4, Owner DEF Signal, CallShape
  <2>3. ClientShape'
    <3>1. p \notin asleep
      BY <1>4 DEF Signal, ClientShape
    <3>2. \/ p \in Clients /\ put' = [put EXCEPT ![p] = "no"]
          \/ p \notin Clients /\ (put' = [put EXCEPT ![p] = "no"] \/ put' = [put EXCEPT ![p] = "slot"])
      BY <1>4, Owner DEF Signal
    <3>3. UNCHANGED <<issued, cpc, spc, stop, asleep>>
      BY <1>4 DEF Signal
    <3>4. Callers \subseteq Clients /\ Stopper \in Clients /\ Clients \subseteq Putters
      BY DEF Clients, Putters
    <3>5. QED
      BY <3>1, <3>2, <3>3, <3>4 DEF ClientShape
  <2>4. QED
    BY <2>1, <2>2, <2>3 DEF Shape
<1>5. QED
  BY <1>1, <1>2, <1>3, <1>4 DEF Putting

LEMMA CallingShape ==
  ASSUME IndInv, NEW c \in Callers, Calling(c)
  PROVE  Shape'
<1> USE DEF IndInv, Types, Shape, SenderSteps, CallSteps, queueVars, callerVars, senderVars, callVars, endVars, tallyVars
<1>1. CASE CallerEval(c)
  <2>1. SenderShape'
    BY <1>1, Owner DEF CallerEval, EvalCall, SenderShape
  <2>2. CallShape'
    <3>1. c \notin CallIds
      BY Owner DEF Clients
    <3>2. UNCHANGED <<cst, load, todo, spc>> /\ put' = [put EXCEPT ![c] = "slot"]
      BY <1>1 DEF CallerEval, EvalCall
    <3>3. QED
      BY <3>1, <3>2, Owner DEF CallShape
  <2>3. ClientShape'
    <3>1. c \in Clients /\ c # Stopper /\ Limit(c) \in Nat
      BY LimitIsNat, ClientAssumption DEF Clients
    <3>2. /\ put[c] = "no" /\ issued[c] < Limit(c) /\ cpc[c] = "run"
          /\ put' = [put EXCEPT ![c] = "slot"]
          /\ issued' = [issued EXCEPT ![c] = issued[c] + 1]
          /\ UNCHANGED <<cpc, spc, stop, asleep>>
      BY <1>1 DEF CallerEval, EvalCall
    <3>3. Callers \subseteq Clients /\ Stopper \in Clients /\ Clients \subseteq Putters
      BY DEF Clients, Putters
    <3>4. QED
      BY <3>1, <3>2, <3>3 DEF ClientShape
  <2>4. QED
    BY <2>1, <2>2, <2>3 DEF Shape
<1>2. CASE CallerBreak(c)
  <2>1. SenderShape'
    BY <1>2, Owner DEF CallerBreak, SenderShape
  <2>2. CallShape'
    BY <1>2, Owner DEF CallerBreak, CallShape
  <2>3. ClientShape'
    BY <1>2, Owner DEF CallerBreak, ClientShape
  <2>4. QED
    BY <2>1, <2>2, <2>3 DEF Shape
<1>3. CASE CallerOver(c)
  <2>1. SenderShape'
    BY <1>3, Owner DEF CallerOver, SenderShape
  <2>2. CallShape'
    BY <1>3, Owner DEF CallerOver, CallShape
  <2>3. ClientShape'
    BY <1>3, Owner DEF CallerOver, ClientShape
  <2>4. QED
    BY <2>1, <2>2, <2>3 DEF Shape
<1>4. QED
  BY <1>1, <1>2, <1>3 DEF Calling

LEMMA SendingShape ==
  ASSUME IndInv, NEW s \in Senders, Sending(s)
  PROVE  Shape'
<1> USE DEF IndInv, Types, Shape, SenderSteps, CallSteps, queueVars, callerVars, senderVars, callVars, endVars, tallyVars
<1>1. CASE LoopTest(s)
  <2>1. SenderShape'
    BY <1>1, Owner DEF LoopTest, StopSeen, SenderShape
  <2>2. CallShape'
    BY <1>1, Owner DEF LoopTest, StopSeen, CallShape
  <2>3. ClientShape'
    BY <1>1, Owner DEF LoopTest, StopSeen, ClientShape
  <2>4. QED
    BY <2>1, <2>2, <2>3 DEF Shape
<1>2. CASE TakePermit(s)
  <2>1. SenderShape'
    BY <1>2, Owner DEF TakePermit, SenderShape
  <2>2. CallShape'
    BY <1>2, Owner DEF TakePermit, CallShape
  <2>3. ClientShape'
    BY <1>2, Owner DEF TakePermit, ClientShape
  <2>4. QED
    BY <2>1, <2>2, <2>3 DEF Shape
<1>3. CASE SendDummy(s)
  <2>1. SenderShape'
    BY <1>3, Owner DEF SendDummy, BeginCall, SenderShape
  <2>2. CallShape'
    <3>1. HasPermit(s) /\ BeginCall(s, <<>>) /\ put' = put /\ spc[s] # "done"
      BY <1>3 DEF SendDummy, HasPermit, SenderShape
    <3>2. PICK k \in CallIds, to \in {"lost", "flying"} :
             /\ k[1] = s /\ cst[k] = "free"
             /\ cst' = [cst EXCEPT ![k] = to]
             /\ load' = [load EXCEPT ![k] = <<>>]
             /\ todo' = [todo EXCEPT ![k] = <<>>]
             /\ spc' = [spc EXCEPT ![s] = "top"]
      BY <3>1, BeginCallAt
    <3>3. QED
      BY <3>1, <3>2, Owner DEF CallShape
  <2>3. ClientShape'
    BY <1>3, Owner DEF SendDummy, BeginCall, ClientShape
  <2>4. QED
    BY <2>1, <2>2, <2>3 DEF Shape
<1>4. CASE SeeRequests(s)
  <2>1. SenderShape'
    BY <1>4, Owner DEF SeeRequests, SenderShape
  <2>2. CallShape'
    BY <1>4, Owner DEF SeeRequests, CallShape
  <2>3. ClientShape'
    BY <1>4, Owner DEF SeeRequests, ClientShape
  <2>4. QED
    BY <2>1, <2>2, <2>3 DEF Shape
<1>5. CASE TakeTokens(s)
  <2>1. SenderShape'
    <3>1. Wanted \in 1..BatchSize
      BY <1>5, ClientAssumption DEF TakeTokens, Wanted, Least
    <3>2. /\ fetch' = [fetch EXCEPT ![s] = Wanted] /\ spc' = [spc EXCEPT ![s] = "pop"]
          /\ batch' = batch
      BY <1>5 DEF TakeTokens
    <3>3. QED
      BY <3>1, <3>2, ClientAssumption DEF SenderShape
  <2>2. CallShape'
    BY <1>5, Owner DEF TakeTokens, Wanted, Least, CallShape
  <2>3. ClientShape'
    BY <1>5, Owner DEF TakeTokens, Wanted, Least, ClientShape
  <2>4. QED
    BY <2>1, <2>2, <2>3 DEF Shape
<1>6. CASE Pop(s)
  <2>1. SenderShape'
    <3>1. fetch[s] \in Nat /\ fetch[s] > 0 /\ fetch[s] <= Len(queue) /\ Len(queue) \in Nat
      BY <1>6, PopFits DEF Pop
    <3>2. Len(SubSeq(queue, 1, fetch[s])) = fetch[s]
      BY <3>1, SubSeqProperties
    <3>3. SubSeq(queue, 1, fetch[s]) # <<>>
      BY <3>1, <3>2
    <3>4. QED
      BY <1>6, <3>3 DEF Pop, Popped, SenderShape
  <2>2. CallShape'
    BY <1>6, Owner DEF Pop, Popped, CallShape
  <2>3. ClientShape'
    BY <1>6, Owner DEF Pop, Popped, ClientShape
  <2>4. QED
    BY <2>1, <2>2, <2>3 DEF Shape
<1>7. CASE ReleaseSlots(s)
  <2>1. SenderShape'
    BY <1>7, Owner DEF ReleaseSlots, Given, WakeOne, SenderShape
  <2>2. CallShape'
    BY <1>7, Owner DEF ReleaseSlots, Given, WakeOne, CallShape
  <2>3. ClientShape'
    BY <1>7, Owner DEF ReleaseSlots, Given, WakeOne, ClientShape
  <2>4. QED
    BY <2>1, <2>2, <2>3 DEF Shape
<1>8. CASE SendAsyn(s)
  <2>1. SenderShape'
    BY <1>8, Owner DEF SendAsyn, BeginCall, SenderShape
  <2>2. CallShape'
    <3>1. HasPermit(s) /\ BeginCall(s, batch[s]) /\ put' = put /\ spc[s] # "done"
      BY <1>8 DEF SendAsyn, HasPermit, SenderShape
    <3>2. PICK k \in CallIds, to \in {"lost", "flying"} :
             /\ k[1] = s /\ cst[k] = "free"
             /\ cst' = [cst EXCEPT ![k] = to]
             /\ load' = [load EXCEPT ![k] = batch[s]]
             /\ todo' = [todo EXCEPT ![k] = batch[s]]
             /\ spc' = [spc EXCEPT ![s] = "top"]
      BY <3>1, BeginCallAt
    <3>3. QED
      BY <3>1, <3>2, Owner DEF CallShape
  <2>3. ClientShape'
    BY <1>8, Owner DEF SendAsyn, BeginCall, ClientShape
  <2>4. QED
    BY <2>1, <2>2, <2>3 DEF Shape
<1>9. CASE SendSync(s)
  <2>1. SenderShape'
    BY <1>9, Owner DEF SendSync, SenderShape
  <2>2. CallShape'
    BY <1>9, Owner DEF SendSync, CallShape
  <2>3. ClientShape'
    BY <1>9, Owner DEF SendSync, ClientShape
  <2>4. QED
    BY <2>1, <2>2, <2>3 DEF Shape
<1>10. CASE SyncThrows(s)
  <2>1. SenderShape'
    BY <1>10, Owner DEF SyncThrows, SenderShape
  <2>2. CallShape'
    BY <1>10, Owner DEF SyncThrows, CallShape
  <2>3. ClientShape'
    BY <1>10, Owner DEF SyncThrows, ClientShape
  <2>4. QED
    BY <2>1, <2>2, <2>3 DEF Shape
<1>11. CASE SyncAnswer(s)
  <2>1. SenderShape'
    BY <1>11, Owner DEF SyncAnswer, SenderShape
  <2>2. CallShape'
    BY <1>11, Owner DEF SyncAnswer, CallShape
  <2>3. ClientShape'
    BY <1>11, Owner DEF SyncAnswer, ClientShape
  <2>4. QED
    BY <2>1, <2>2, <2>3 DEF Shape
<1>12. CASE SyncCount(s)
  <2>1. SenderShape'
    <3>1. batch[s] # <<>> /\ Len(batch[s]) > 1 => Tail(batch[s]) # <<>>
      BY Batches
    <3>2. /\ batch' = [batch EXCEPT ![s] = Tail(batch[s])] /\ fetch' = fetch
          /\ \/ Len(batch[s]) > 1 /\ spc' = [spc EXCEPT ![s] = "answer"]
             \/ spc' = [spc EXCEPT ![s] = "top"]
      BY <1>12 DEF SyncCount
    <3>3. spc[s] = "count" /\ batch[s] # <<>>
      BY <1>12 DEF SyncCount, SenderShape
    <3>4. \A r \in Senders \ {s} : spc'[r] = spc[r] /\ batch'[r] = batch[r]
      BY <3>2
    <3>5. \A r \in Senders \ {s} : /\ spc'[r] \in {"pop", "release"} <=> fetch'[r] # 0
                                   /\ spc'[r] \in {"release", "send", "answer", "count"}
                                      => batch'[r] # <<>>
                                   /\ IsAsyn \/ spc'[r] \notin {"permit", "peek"}
      BY <3>2, <3>4 DEF SenderShape
    <3>6. /\ spc'[s] \in {"top", "answer"} /\ fetch'[s] = 0
          /\ spc'[s] = "answer" => batch'[s] # <<>>
      BY <3>1, <3>2, <3>3 DEF SenderShape
    <3>7. QED
      BY <3>5, <3>6 DEF SenderShape
  <2>2. CallShape'
    BY <1>12, Owner DEF SyncCount, PendingDown, CallShape
  <2>3. ClientShape'
    BY <1>12, Owner DEF SyncCount, PendingDown, ClientShape
  <2>4. QED
    BY <2>1, <2>2, <2>3 DEF Shape
<1>13. CASE Drained(s)
  <2>1. SenderShape'
    BY <1>13, Owner DEF Drained, AllBack, SenderShape
  <2>2. CallShape'
    <3>1. \A k \in CallIds : k[1] = s => cst[k] = "free"
      BY <1>13, AllCallsFree DEF Drained
    <3>2. UNCHANGED <<cst, load, todo, put>> /\ spc' = [spc EXCEPT ![s] = "done"]
      BY <1>13 DEF Drained
    <3>3. QED
      BY <3>1, <3>2, Owner DEF CallShape
  <2>3. ClientShape'
    BY <1>13, Owner DEF Drained, AllBack, ClientShape
  <2>4. QED
    BY <2>1, <2>2, <2>3 DEF Shape
<1>14. QED
  BY <1>1, <1>2, <1>3, <1>4, <1>5, <1>6, <1>7, <1>8, <1>9, <1>10, <1>11, <1>12, <1>13 DEF Sending

LEMMA CallingBackShape ==
  ASSUME IndInv, NEW k \in CallIds, CallingBack(k)
  PROVE  Shape'
<1> USE DEF IndInv, Types, Shape, SenderSteps, CallSteps, queueVars, callerVars, senderVars, callVars, endVars, tallyVars
<1>1. CASE Deliver(k)
  <2>1. SenderShape'
    BY <1>1, Owner DEF Deliver, SenderShape
  <2>2. CallShape'
    BY <1>1, Owner DEF Deliver, CallShape
  <2>3. ClientShape'
    BY <1>1, Owner DEF Deliver, ClientShape
  <2>4. QED
    BY <2>1, <2>2, <2>3 DEF Shape
<1>2. CASE Answer(k)
  <2>1. SenderShape'
    BY <1>2, Owner DEF Answer, SenderShape
  <2>2. CallShape'
    BY <1>2, Owner DEF Answer, CallShape
  <2>3. ClientShape'
    BY <1>2, Owner DEF Answer, ClientShape
  <2>4. QED
    BY <2>1, <2>2, <2>3 DEF Shape
<1>3. CASE Count(k)
  <2>1. SenderShape'
    BY <1>3, Owner DEF Count, PendingDown, SenderShape
  <2>2. CallShape'
    <3>1. todo[k] # <<>> /\ Len(todo[k]) > 1 => Tail(todo[k]) # <<>>
      BY Batches
    <3>2. /\ todo' = [todo EXCEPT ![k] = Tail(todo[k])]
          /\ \/ Len(todo[k]) > 1 /\ cst' = [cst EXCEPT ![k] = "answer"]
             \/ cst' = [cst EXCEPT ![k] = "release"]
          /\ UNCHANGED <<load, put, spc>>
      BY <1>3 DEF Count
    <3>3. cst[k] = "count" /\ todo[k] # <<>>
      BY <1>3 DEF Count, CallShape
    <3>4. cst'[k] \in {"answer", "release"} /\ (cst'[k] = "answer" => todo'[k] # <<>>)
      BY <3>1, <3>2
    <3>5. \A l \in CallIds \ {k} : cst'[l] = cst[l] /\ todo'[l] = todo[l]
      BY <3>2
    <3>6. /\ put[k] = "no" /\ spc[k[1]] # "done"
          /\ cst[k] # "free" /\ load' = load /\ put' = put /\ spc' = spc
      BY <3>2, <3>3, Owner DEF CallShape
    <3>7. SUFFICES ASSUME NEW l \in CallIds
                   PROVE  /\ cst'[l] \in {"answer", "count", "fail", "resend"} => todo'[l] # <<>>
                          /\ cst'[l] \in {"flying", "fail", "resend"} /\ todo'[l] # <<>>
                                => load'[l] # <<>>
                          /\ (put'[l] # "no") <=> (cst'[l] = "resend")
                          /\ spc'[l[1]] = "done" => cst'[l] = "free"
      BY DEF CallShape
    <3>8. CASE l = k
      BY <3>4, <3>6, <3>8
    <3>9. CASE l # k
      BY <3>5, <3>6, <3>9 DEF CallShape
    <3>10. QED
      BY <3>8, <3>9
  <2>3. ClientShape'
    BY <1>3, Owner DEF Count, PendingDown, ClientShape
  <2>4. QED
    BY <2>1, <2>2, <2>3 DEF Shape
<1>4. CASE Fail(k)
  <2>1. SenderShape'
    BY <1>4, Owner DEF Fail, SenderShape
  <2>2. CallShape'
    BY <1>4, Owner DEF Fail, CallShape
  <2>3. ClientShape'
    BY <1>4, Owner DEF Fail, ClientShape
  <2>4. QED
    BY <2>1, <2>2, <2>3 DEF Shape
<1>5. CASE FailCount(k)
  <2>1. SenderShape'
    BY <1>5, Owner DEF FailCount, PendingDown, SenderShape
  <2>2. CallShape'
    <3>1. todo[k] # <<>> /\ Len(todo[k]) > 1 => Tail(todo[k]) # <<>>
      BY Batches
    <3>2. cst[k] = "fail" /\ todo[k] # <<>> /\ load[k] # <<>>
      BY <1>5 DEF FailCount, CallShape
    <3>3. UNCHANGED <<load, spc>>
      BY <1>5 DEF FailCount
    <3>4. ASSUME Len(todo[k]) > 1, todo' = [todo EXCEPT ![k] = Tail(todo[k])],
                 UNCHANGED <<cst, put>>
          PROVE  CallShape'
      BY <3>1, <3>2, <3>3, <3>4, Owner DEF CallShape
    <3>5. ASSUME todo' = [todo EXCEPT ![k] = load[k]], cst' = [cst EXCEPT ![k] = "resend"],
                 put' = [put EXCEPT ![k] = "slot"]
          PROVE  CallShape'
      BY <3>2, <3>3, <3>5, Owner DEF CallShape
    <3>6. QED
      BY <1>5, <3>4, <3>5 DEF FailCount
  <2>3. ClientShape'
    <3>1. put' = put \/ put' = [put EXCEPT ![k] = "slot"]
      BY <1>5 DEF FailCount
    <3>2. UNCHANGED <<issued, cpc, spc, stop, asleep>> /\ k \notin Clients
      BY <1>5, Owner DEF FailCount
    <3>3. Callers \subseteq Clients /\ Stopper \in Clients /\ Clients \subseteq Putters
      BY DEF Clients, Putters
    <3>4. QED
      BY <3>1, <3>2, <3>3 DEF ClientShape
  <2>4. QED
    BY <2>1, <2>2, <2>3 DEF Shape
<1>6. CASE ReleasePermit(k)
  <2>1. SenderShape'
    BY <1>6, Owner DEF ReleasePermit, PermitBack, SenderShape
  <2>2. CallShape'
    BY <1>6, Owner DEF ReleasePermit, PermitBack, CallShape
  <2>3. ClientShape'
    BY <1>6, Owner DEF ReleasePermit, PermitBack, ClientShape
  <2>4. QED
    BY <2>1, <2>2, <2>3 DEF Shape
<1>7. QED
  BY <1>1, <1>2, <1>3, <1>4, <1>5, <1>6 DEF CallingBack

LEMMA StoppingShape ==
  ASSUME IndInv, Stopping
  PROVE  Shape'
<1> USE DEF IndInv, Types, Shape, SenderSteps, CallSteps, queueVars, callerVars, senderVars, callVars, endVars, tallyVars
<1>1. CASE StopBegin
  <2>1. SenderShape'
    BY <1>1, Owner DEF StopBegin, SenderShape
  <2>2. CallShape'
    BY <1>1, Owner DEF StopBegin, CallShape
  <2>3. ClientShape'
    BY <1>1, Owner DEF StopBegin, ClientShape
  <2>4. QED
    BY <2>1, <2>2, <2>3 DEF Shape
<1>2. CASE StopEval
  <2>1. SenderShape'
    BY <1>2, Owner DEF StopEval, EvalCall, LooksFilled, SenderShape
  <2>2. CallShape'
    <3>1. Stopper \notin CallIds
      BY Owner DEF Clients
    <3>2. UNCHANGED <<cst, load, todo, spc>> /\ put' = [put EXCEPT ![Stopper] = "slot"]
      BY <1>2 DEF StopEval, EvalCall
    <3>3. QED
      BY <3>1, <3>2, Owner DEF CallShape
  <2>3. ClientShape'
    <3>1. Stopper \in Clients /\ Stopper \notin Callers /\ Limit(Stopper) \in Nat
      BY LimitIsNat, ClientAssumption DEF Clients
    <3>2. /\ put[Stopper] = "no" /\ issued[Stopper] < Limit(Stopper) /\ stop' = "size"
          /\ stop = "look"
          /\ put' = [put EXCEPT ![Stopper] = "slot"]
          /\ issued' = [issued EXCEPT ![Stopper] = issued[Stopper] + 1]
          /\ UNCHANGED <<cpc, spc, asleep>>
      BY <1>2 DEF StopEval, EvalCall
    <3>3. Callers \subseteq Clients /\ Stopper \in Clients /\ Clients \subseteq Putters
      BY DEF Clients, Putters
    <3>4. QED
      BY <3>1, <3>2, <3>3 DEF ClientShape
  <2>4. QED
    BY <2>1, <2>2, <2>3 DEF Shape
<1>3. CASE StopWakeDone
  <2>1. SenderShape'
    BY <1>3, Owner DEF StopWakeDone, LooksFilled, SenderShape
  <2>2. CallShape'
    BY <1>3, Owner DEF StopWakeDone, LooksFilled, CallShape
  <2>3. ClientShape'
    BY <1>3, Owner DEF StopWakeDone, LooksFilled, ClientShape
  <2>4. QED
    BY <2>1, <2>2, <2>3 DEF Shape
<1>4. CASE StopJoin
  <2>1. SenderShape'
    BY <1>4, Owner DEF StopJoin, SenderShape
  <2>2. CallShape'
    BY <1>4, Owner DEF StopJoin, CallShape
  <2>3. ClientShape'
    BY <1>4, Owner DEF StopJoin, ClientShape
  <2>4. QED
    BY <2>1, <2>2, <2>3 DEF Shape
<1>5. CASE StopLook
  <2>1. SenderShape'
    BY <1>5, Owner DEF StopLook, SenderShape
  <2>2. CallShape'
    BY <1>5, Owner DEF StopLook, CallShape
  <2>3. ClientShape'
    BY <1>5, Owner DEF StopLook, ClientShape
  <2>4. QED
    BY <2>1, <2>2, <2>3 DEF Shape
<1>6. QED
  BY <1>1, <1>2, <1>3, <1>4, <1>5 DEF Stopping

LEMMA ShapeStep ==
  ASSUME IndInv, [Next]_vars
  PROVE  Shape'
<1>1. CASE UNCHANGED vars
  BY <1>1 DEF vars, queueVars, callerVars, senderVars, callVars, endVars, tallyVars, IndInv, Shape, SenderShape, CallShape, ClientShape
<1>2. QED
  BY <1>1, PuttingShape, CallingShape, SendingShape, CallingBackShape, StoppingShape
     DEF Next, Ended

------------------------------------------------------------------------------
(* The accounts                                                             *)

LEMMA Fetches ==
  /\ Unreleased = FetchedBy(spc, fetch, "release")
  /\ Unpopped = FetchedBy(spc, fetch, "pop")
BY DEF Unreleased, Unpopped, Fetched, FetchedBy

LEMMA FetchesAfter ==
  /\ Unreleased' = FetchedBy(spc', fetch', "release")
  /\ Unpopped' = FetchedBy(spc', fetch', "pop")
BY DEF Unreleased, Unpopped, Fetched, FetchedBy

\* The four numbers of the accounts are numbers.
LEMMA AccountTypes ==
  ASSUME Types
  PROVE  /\ Cardinality(SignalOwers) \in Nat /\ Cardinality(PushHolders) \in Nat
         /\ Cardinality(Unpopped) \in Nat /\ Cardinality(Unreleased) \in Nat
         /\ Len(queue) \in Nat /\ empty \in Nat /\ full \in Nat
<1>1. Cardinality(Unpopped) \in Nat /\ Cardinality(Unreleased) \in Nat
  BY Fetches, FetchedFinite
<1>2. Cardinality(SignalOwers) \in Nat /\ Cardinality(PushHolders) \in Nat
  BY PuttersMove DEF SignalOwers, PushHolders
<1>3. QED
  BY <1>1, <1>2 DEF Types

LEMMA AccountTypesAfter ==
  ASSUME Types'
  PROVE  /\ Cardinality(SignalOwers') \in Nat /\ Cardinality(PushHolders') \in Nat
         /\ Cardinality(Unpopped') \in Nat /\ Cardinality(Unreleased') \in Nat
         /\ Len(queue') \in Nat /\ empty' \in Nat /\ full' \in Nat
<1>1. Cardinality(Unpopped') \in Nat /\ Cardinality(Unreleased') \in Nat
  BY FetchesAfter, FetchedFinite
<1>2. SignalOwers' \in SUBSET Putters /\ PushHolders' \in SUBSET Putters
  BY DEF SignalOwers, PushHolders
<1>3. Cardinality(SignalOwers') \in Nat /\ Cardinality(PushHolders') \in Nat
  BY <1>2, PuttersMove
<1>4. QED
  BY <1>1, <1>3 DEF Types

\* What a step of Eval does to the accounts: a slot taken is held until the
\* push, a pushed request owes its token until the signal.
LEMMA PuttingAccounts ==
  ASSUME IndInv, NEW p \in Putters, Putting(p)
  PROVE  /\ Unreleased' = Unreleased /\ Unpopped' = Unpopped /\ stop' = stop
         /\ full' + Cardinality(PushHolders') + Len(queue')
               = full + Cardinality(PushHolders) + Len(queue)
         /\ empty' + Cardinality(SignalOwers') - Len(queue')
               = empty + Cardinality(SignalOwers) - Len(queue)
<1> USE DEF IndInv, queueVars, callerVars, senderVars, callVars, endVars, tallyVars
<1>1. UNCHANGED <<spc, fetch, stop>>
  BY DEF Putting, TakeSlot, SleepOnFull, Push, Signal
<1>2. Unreleased' = Unreleased /\ Unpopped' = Unpopped
  BY <1>1, Fetches, FetchesAfter
<1>3. /\ Cardinality(SignalOwers) \in Nat /\ Cardinality(PushHolders) \in Nat
      /\ Len(queue) \in Nat /\ empty \in Nat /\ full \in Nat
  BY AccountTypes
<1>4. put \in [Putters -> {"no", "slot", "push", "signal"}]
  BY DEF Types
<1>5. /\ PushHolders \in SUBSET Putters /\ SignalOwers \in SUBSET Putters
  BY DEF PushHolders, SignalOwers
<1>6. CASE TakeSlot(p)
  <2>1. /\ put' = [put EXCEPT ![p] = "push"] /\ put[p] = "slot" /\ full > 0
        /\ full' = full - 1 /\ UNCHANGED <<queue, empty>>
    BY <1>6 DEF TakeSlot
  <2>2. /\ PushHolders' = PushHolders \cup {p} /\ p \in Putters \ PushHolders
        /\ SignalOwers' = SignalOwers
    BY <1>4, <2>1 DEF PushHolders, SignalOwers
  <2>3. Cardinality(PushHolders') = Cardinality(PushHolders) + 1
    BY <1>5, <2>2, PuttersMove
  <2>4. QED
    BY <1>1, <1>2, <1>3, <2>1, <2>2, <2>3
<1>7. CASE SleepOnFull(p)
  <2>1. UNCHANGED <<put, full, queue, empty>>
    BY <1>7 DEF SleepOnFull
  <2>2. PushHolders' = PushHolders /\ SignalOwers' = SignalOwers
    BY <2>1 DEF PushHolders, SignalOwers
  <2>3. QED
    BY <1>1, <1>2, <2>1, <2>2
<1>8. CASE Push(p)
  <2>1. /\ put' = [put EXCEPT ![p] = "signal"] /\ put[p] = "push"
        /\ queue' = Append(queue, Item(p)) /\ UNCHANGED <<full, empty>>
    BY <1>8 DEF Push
  <2>2. /\ PushHolders' = PushHolders \ {p} /\ p \in PushHolders
        /\ SignalOwers' = SignalOwers \cup {p} /\ p \in Putters \ SignalOwers
    BY <1>4, <2>1 DEF PushHolders, SignalOwers
  <2>3. /\ Cardinality(PushHolders') = Cardinality(PushHolders) - 1
        /\ Cardinality(SignalOwers') = Cardinality(SignalOwers) + 1
    BY <1>5, <2>2, PuttersMove
  <2>4. Len(queue') = Len(queue) + 1
    BY <2>1 DEF Types
  <2>5. full' + Cardinality(PushHolders') + Len(queue')
           = full + Cardinality(PushHolders) + Len(queue)
    <3>1. full' = full
      BY <2>1
    <3>2. QED
      BY <1>3, <2>3, <2>4, <3>1
  <2>6. empty' + Cardinality(SignalOwers') - Len(queue')
           = empty + Cardinality(SignalOwers) - Len(queue)
    BY <1>3, <2>1, <2>3, <2>4
  <2>7. QED
    BY <1>1, <1>2, <2>5, <2>6
<1>9. CASE Signal(p)
  <2>1. /\ put' = [put EXCEPT ![p] = "no"] \/ put' = [put EXCEPT ![p] = "slot"]
        /\ put[p] = "signal" /\ empty' = empty + 1 /\ UNCHANGED <<full, queue>>
    BY <1>9 DEF Signal
  <2>2. /\ PushHolders' = PushHolders
        /\ SignalOwers' = SignalOwers \ {p} /\ p \in SignalOwers
    BY <1>4, <2>1 DEF PushHolders, SignalOwers
  <2>3. Cardinality(SignalOwers') = Cardinality(SignalOwers) - 1
    BY <1>5, <2>2, PuttersMove
  <2>4. QED
    BY <1>1, <1>2, <1>3, <2>1, <2>2, <2>3
<1>10. QED
  BY <1>6, <1>7, <1>8, <1>9 DEF Putting

\* Who enters Eval holds nothing yet.
LEMMA EnterAccounts ==
  ASSUME Types, NEW p \in Putters,
         \/ put' = put
         \/ put[p] = "no" /\ put' = [put EXCEPT ![p] = "slot"]
  PROVE  PushHolders' = PushHolders /\ SignalOwers' = SignalOwers
BY DEF Types, PushHolders, SignalOwers

\* Of the other steps, those that enter Eval come from outside it.
LEMMA QuietPut ==
  ASSUME IndInv,
         \/ \E c \in Callers : Calling(c)
         \/ \E k \in CallIds : CallingBack(k)
         \/ StopBegin \/ StopLook \/ StopEval \/ StopWakeDone
         \/ UNCHANGED vars
  PROVE  \E p \in Putters : \/ put' = put
                            \/ put[p] = "no" /\ put' = [put EXCEPT ![p] = "slot"]
<1> USE DEF IndInv, queueVars, callerVars, senderVars, callVars, endVars, tallyVars
<1>0. Stopper \in Putters /\ Callers \subseteq Putters /\ CallIds \subseteq Putters
  BY DEF Putters, Clients
<1>1. CASE \E c \in Callers : Calling(c)
  BY <1>0, <1>1 DEF Calling, CallerEval, EvalCall, CallerBreak, CallerOver
<1>2. ASSUME NEW k \in CallIds, CallingBack(k)
      PROVE  put' = put \/ (put[k] = "no" /\ put' = [put EXCEPT ![k] = "slot"])
  <2>1. CASE FailCount(k)
    BY <2>1, Owner DEF FailCount, Shape, CallShape, Types
  <2>2. CASE ~FailCount(k)
    BY <1>2, <2>2 DEF CallingBack, Deliver, Answer, Count, Fail, ReleasePermit
  <2>3. QED
    BY <2>1, <2>2
<1>3. CASE StopBegin \/ StopLook \/ StopEval \/ StopWakeDone
  BY <1>0, <1>3 DEF StopBegin, StopLook, StopEval, EvalCall, StopWakeDone
<1>4. CASE UNCHANGED vars
  BY <1>0, <1>4 DEF vars
<1>5. QED
  BY <1>0, <1>1, <1>2, <1>3, <1>4

\* Steps that touch neither the queue nor the fetched items.
LEMMA QuietAccounts ==
  ASSUME IndInv,
         \/ \E c \in Callers : Calling(c)
         \/ \E k \in CallIds : CallingBack(k)
         \/ StopBegin \/ StopLook \/ StopEval \/ StopWakeDone
         \/ UNCHANGED vars
  PROVE  /\ PushHolders' = PushHolders /\ SignalOwers' = SignalOwers
         /\ Unreleased' = Unreleased /\ Unpopped' = Unpopped
         /\ UNCHANGED <<full, empty, queue>> /\ (stop' = "stopped" <=> stop = "stopped")
<1> USE DEF IndInv, queueVars, callerVars, senderVars, callVars, endVars, tallyVars
<1>1. UNCHANGED <<full, empty, queue, spc, fetch>> /\ (stop' = "stopped" <=> stop = "stopped")
  <2>1. CASE \E c \in Callers : Calling(c)
    BY <2>1 DEF Calling, CallerEval, CallerBreak, CallerOver
  <2>2. CASE \E k \in CallIds : CallingBack(k)
    BY <2>2 DEF CallingBack, Deliver, Answer, Count, Fail, FailCount, ReleasePermit
  <2>3. CASE StopBegin \/ StopLook \/ StopEval \/ StopWakeDone
    BY <2>3 DEF StopBegin, StopLook, StopEval, StopWakeDone
  <2>4. CASE UNCHANGED vars
    BY <2>4 DEF vars
  <2>5. QED
    BY <2>1, <2>2, <2>3, <2>4
<1>2. \E p \in Putters : \/ put' = put
                         \/ put[p] = "no" /\ put' = [put EXCEPT ![p] = "slot"]
  BY QuietPut
<1>3. PushHolders' = PushHolders /\ SignalOwers' = SignalOwers
  BY <1>2, EnterAccounts
<1>4. QED
  BY <1>1, <1>3, Fetches, FetchesAfter

\* What a step of a sender does to the accounts: tokens taken are held until the
\* pop, and popped requests leave their slots with the sender until the notify.
LEMMA SendingAccounts ==
  ASSUME IndInv, Types', NEW s \in Senders, Sending(s)
  PROVE  /\ PushHolders' = PushHolders /\ SignalOwers' = SignalOwers /\ stop' = stop
         /\ full' + Cardinality(Unreleased') + Len(queue')
               = full + Cardinality(Unreleased) + Len(queue)
         /\ empty' + Cardinality(Unpopped') - Len(queue')
               = empty + Cardinality(Unpopped) - Len(queue)
<1> USE DEF queueVars, callerVars, senderVars, callVars, endVars, tallyVars
<1>0. IndInv
  OBVIOUS
<1>1. UNCHANGED <<put, stop>>
  BY DEF Sending, LoopTest, TakePermit, SendDummy, SeeRequests, TakeTokens, Pop,
         ReleaseSlots, SendAsyn, SendSync, SyncThrows, SyncAnswer, SyncCount, Drained
<1>2. PushHolders' = PushHolders /\ SignalOwers' = SignalOwers
  BY <1>1 DEF PushHolders, SignalOwers
<1>3. /\ Cardinality(Unpopped) \in Nat /\ Cardinality(Unreleased) \in Nat
      /\ Len(queue) \in Nat /\ empty \in Nat /\ full \in Nat
  BY AccountTypes DEF IndInv
<1>4. /\ spc \in [Senders -> SenderSteps] /\ spc' \in [Senders -> SenderSteps]
      /\ fetch \in [Senders -> 0..BatchSize] /\ fetch' \in [Senders -> 0..BatchSize]
  BY DEF IndInv, Types
<1>5. fetch[s] \in Nat /\ fetch'[s] \in Nat
  BY <1>4, ClientAssumption
<1>6. CASE TakeTokens(s)
  <2>1. /\ spc[s] = "take" /\ spc' = [spc EXCEPT ![s] = "pop"]
        /\ fetch' = [fetch EXCEPT ![s] = Wanted] /\ empty' = empty - Wanted
        /\ UNCHANGED <<full, queue>>
    BY <1>6 DEF TakeTokens
  <2>2. /\ \A t \in Senders \ {s} : spc'[t] = spc[t] /\ fetch'[t] = fetch[t]
        /\ spc'[s] = "pop" /\ fetch'[s] = Wanted
    BY <1>4, <2>1
  <2>3. Cardinality(Unpopped') = Cardinality(Unpopped) + Wanted
    <3>1. spc[s] # "pop" /\ spc'[s] = "pop"
      BY <2>1, <2>2
    <3>2. Cardinality(FetchedBy(spc', fetch', "pop"))
             = Cardinality(FetchedBy(spc, fetch, "pop")) + fetch'[s]
      BY <1>4, <2>2, <3>1, FetchedJoin
    <3>3. QED
      BY <2>2, <3>2, Fetches, FetchesAfter
  <2>4. Unreleased' = Unreleased
    <3>1. spc[s] # "release" /\ spc'[s] # "release"
      BY <2>1, <2>2
    <3>2. FetchedBy(spc', fetch', "release") = FetchedBy(spc, fetch, "release")
      BY <2>2, <3>1, FetchedSame
    <3>3. QED
      BY <3>2, Fetches, FetchesAfter
  <2>5. Wanted \in Nat
    BY <1>5, <2>2
  <2>6. QED
    BY <1>1, <1>2, <1>3, <2>1, <2>3, <2>4, <2>5
<1>7. CASE Pop(s)
  <2>1. /\ spc[s] = "pop" /\ spc' = [spc EXCEPT ![s] = "release"]
        /\ queue' = SubSeq(queue, fetch[s] + 1, Len(queue))
        /\ UNCHANGED <<full, empty, fetch>>
    BY <1>7 DEF Pop, Popped
  <2>2. /\ \A t \in Senders \ {s} : spc'[t] = spc[t] /\ fetch'[t] = fetch[t]
        /\ spc'[s] = "release" /\ fetch'[s] = fetch[s]
    BY <1>4, <2>1
  <2>3. Cardinality(Unpopped) = Cardinality(Unpopped') + fetch[s]
    <3>1. /\ spc'[s] # "pop" /\ spc[s] = "pop"
          /\ \A t \in Senders \ {s} : spc[t] = spc'[t] /\ fetch[t] = fetch'[t]
      BY <2>1, <2>2
    <3>2. Cardinality(FetchedBy(spc, fetch, "pop"))
             = Cardinality(FetchedBy(spc', fetch', "pop")) + fetch[s]
      BY <1>4, <3>1, FetchedJoin
    <3>3. QED
      BY <3>2, Fetches, FetchesAfter
  <2>4. Cardinality(Unreleased') = Cardinality(Unreleased) + fetch[s]
    <3>1. spc[s] # "release" /\ spc'[s] = "release"
      BY <2>1, <2>2
    <3>2. Cardinality(FetchedBy(spc', fetch', "release"))
             = Cardinality(FetchedBy(spc, fetch, "release")) + fetch'[s]
      BY <1>4, <2>2, <3>1, FetchedJoin
    <3>3. QED
      BY <2>2, <3>2, Fetches, FetchesAfter
  <2>5. fetch[s] <= Len(queue)
    BY <2>1, PopFits
  <2>6. queue \in Seq(Requests)
    BY DEF IndInv, Types
  <2>7. Len(queue') = Len(queue) - fetch[s]
    BY <1>3, <1>5, <2>1, <2>5, <2>6, SubSeqProperties
  <2>8. Cardinality(Unpopped') \in Nat
    BY FetchesAfter, FetchedFinite
  <2>9. full' + Cardinality(Unreleased') + Len(queue')
           = full + Cardinality(Unreleased) + Len(queue)
    BY <1>3, <1>5, <2>1, <2>4, <2>7
  <2>10. empty' + Cardinality(Unpopped') - Len(queue')
            = empty + Cardinality(Unpopped) - Len(queue)
    <3>1. empty' = empty
      BY <2>1
    <3>2. QED
      BY <1>3, <1>5, <2>3, <2>7, <2>8, <3>1
  <2>11. QED
    BY <1>1, <1>2, <2>9, <2>10
<1>8. CASE ReleaseSlots(s)
  <2>1. /\ spc[s] = "release" /\ spc' = [spc EXCEPT ![s] = "send"]
        /\ fetch' = [fetch EXCEPT ![s] = 0] /\ full' = full + fetch[s]
        /\ UNCHANGED <<empty, queue>>
    BY <1>8 DEF ReleaseSlots, Given
  <2>2. /\ \A t \in Senders \ {s} : spc'[t] = spc[t] /\ fetch'[t] = fetch[t]
        /\ spc'[s] = "send"
    BY <1>4, <2>1
  <2>3. Cardinality(Unreleased) = Cardinality(Unreleased') + fetch[s]
    <3>1. /\ spc'[s] # "release" /\ spc[s] = "release"
          /\ \A t \in Senders \ {s} : spc[t] = spc'[t] /\ fetch[t] = fetch'[t]
      BY <2>1, <2>2
    <3>2. Cardinality(FetchedBy(spc, fetch, "release"))
             = Cardinality(FetchedBy(spc', fetch', "release")) + fetch[s]
      BY <1>4, <3>1, FetchedJoin
    <3>3. QED
      BY <3>2, Fetches, FetchesAfter
  <2>4. Unpopped' = Unpopped
    <3>1. spc[s] # "pop" /\ spc'[s] # "pop"
      BY <2>1, <2>2
    <3>2. FetchedBy(spc', fetch', "pop") = FetchedBy(spc, fetch, "pop")
      BY <2>2, <3>1, FetchedSame
    <3>3. QED
      BY <3>2, Fetches, FetchesAfter
  <2>5. Cardinality(Unreleased') \in Nat
    BY FetchesAfter, FetchedFinite
  <2>6. QED
    BY <1>1, <1>2, <1>3, <1>5, <2>1, <2>3, <2>4, <2>5
<1>9. CASE ~TakeTokens(s) /\ ~Pop(s) /\ ~ReleaseSlots(s)
  <2>1. /\ spc[s] \notin {"pop", "release"} /\ spc'[s] \notin {"pop", "release"}
        /\ \A t \in Senders \ {s} : spc'[t] = spc[t]
        /\ UNCHANGED <<full, empty, queue, fetch>>
    BY <1>4, <1>9 DEF Sending, LoopTest, TakePermit, SendDummy, SeeRequests, SendAsyn,
                BeginCall, SendSync, SyncThrows, SyncAnswer, SyncCount, Drained
  <2>2. Unreleased' = Unreleased /\ Unpopped' = Unpopped
    BY <2>1, FetchedSame, Fetches, FetchesAfter
  <2>3. QED
    BY <1>1, <1>2, <2>1, <2>2
<1>10. QED
  BY <1>6, <1>7, <1>8, <1>9

\* The account of the slots: full_, holders and queue.
LEMMA SlotStep ==
  ASSUME IndInv, Types', SlotAccounting, [Next]_vars
  PROVE  SlotAccounting'
<1>0. Types
  BY DEF IndInv
<1>1. CASE \E p \in Putters : Putting(p)
  <2>1. PICK p \in Putters : Putting(p)
    BY <1>1
  <2>2. /\ Unreleased' = Unreleased /\ stop' = stop
        /\ full' + Cardinality(PushHolders') + Len(queue')
               = full + Cardinality(PushHolders) + Len(queue)
    BY <2>1, PuttingAccounts
  <2>3. SUFFICES ASSUME stop # "stopped"
                 PROVE  full' + Cardinality(PushHolders') + Cardinality(Unreleased') + Len(queue') = QueueSize
    BY <2>2 DEF SlotAccounting
  <2>4. full + Cardinality(PushHolders) + Cardinality(Unreleased) + Len(queue) = QueueSize
    BY <1>0, <2>3 DEF SlotAccounting
  <2>5. /\ Cardinality(SignalOwers) \in Nat /\ Cardinality(PushHolders) \in Nat
        /\ Cardinality(Unpopped) \in Nat /\ Cardinality(Unreleased) \in Nat
        /\ Len(queue) \in Nat /\ empty \in Nat /\ full \in Nat
    BY <1>0, AccountTypes
  <2>6. /\ Cardinality(SignalOwers') \in Nat /\ Cardinality(PushHolders') \in Nat
        /\ Cardinality(Unpopped') \in Nat /\ Cardinality(Unreleased') \in Nat
        /\ Len(queue') \in Nat /\ empty' \in Nat /\ full' \in Nat
    BY AccountTypesAfter
  <2>7. QED
    BY <2>2, <2>4, <2>5, <2>6, ClientAssumption, SMTT(60)
<1>2. CASE \E s \in Senders : Sending(s)
  <2>1. PICK s \in Senders : Sending(s)
    BY <1>2
  <2>2. /\ PushHolders' = PushHolders /\ stop' = stop
        /\ full' + Cardinality(Unreleased') + Len(queue')
               = full + Cardinality(Unreleased) + Len(queue)
    BY <2>1, SendingAccounts
  <2>3. SUFFICES ASSUME stop # "stopped"
                 PROVE  full' + Cardinality(PushHolders') + Cardinality(Unreleased') + Len(queue') = QueueSize
    BY <2>2 DEF SlotAccounting
  <2>4. full + Cardinality(PushHolders) + Cardinality(Unreleased) + Len(queue) = QueueSize
    BY <1>0, <2>3 DEF SlotAccounting
  <2>5. /\ Cardinality(SignalOwers) \in Nat /\ Cardinality(PushHolders) \in Nat
        /\ Cardinality(Unpopped) \in Nat /\ Cardinality(Unreleased) \in Nat
        /\ Len(queue) \in Nat /\ empty \in Nat /\ full \in Nat
    BY <1>0, AccountTypes
  <2>6. /\ Cardinality(SignalOwers') \in Nat /\ Cardinality(PushHolders') \in Nat
        /\ Cardinality(Unpopped') \in Nat /\ Cardinality(Unreleased') \in Nat
        /\ Len(queue') \in Nat /\ empty' \in Nat /\ full' \in Nat
    BY AccountTypesAfter
  <2>7. QED
    BY <2>2, <2>4, <2>5, <2>6, ClientAssumption, SMTT(60)
<1>3. CASE StopJoin
  BY <1>3 DEF StopJoin, SlotAccounting
<1>4. CASE \/ \E c \in Callers : Calling(c)
           \/ \E k \in CallIds : CallingBack(k)
           \/ StopBegin \/ StopLook \/ StopEval \/ StopWakeDone
           \/ UNCHANGED vars
  BY <1>4, QuietAccounts DEF SlotAccounting
<1>5. QED
  BY <1>1, <1>2, <1>3, <1>4 DEF Next, Ended, Stopping

\* The account of the tokens: empty_, owers, senders between their two locks.
LEMMA TokenStep ==
  ASSUME IndInv, Types', [Next]_vars
  PROVE  TokenAccounting'
<1>0. Types /\ TokenAccounting
  BY DEF IndInv
<1>1. CASE \E p \in Putters : Putting(p)
  <2>1. PICK p \in Putters : Putting(p)
    BY <1>1
  <2>2. /\ Unpopped' = Unpopped /\ stop' = stop
        /\ empty' + Cardinality(SignalOwers') - Len(queue')
               = empty + Cardinality(SignalOwers) - Len(queue)
    BY <2>1, PuttingAccounts
  <2>3. SUFFICES ASSUME stop # "stopped"
                 PROVE  empty' + Cardinality(SignalOwers') + Cardinality(Unpopped') = Len(queue')
    BY <2>2 DEF TokenAccounting
  <2>4. empty + Cardinality(SignalOwers) + Cardinality(Unpopped) = Len(queue)
    BY <1>0, <2>3 DEF TokenAccounting
  <2>5. /\ Cardinality(SignalOwers) \in Nat /\ Cardinality(PushHolders) \in Nat
        /\ Cardinality(Unpopped) \in Nat /\ Cardinality(Unreleased) \in Nat
        /\ Len(queue) \in Nat /\ empty \in Nat /\ full \in Nat
    BY <1>0, AccountTypes
  <2>6. /\ Cardinality(SignalOwers') \in Nat /\ Cardinality(PushHolders') \in Nat
        /\ Cardinality(Unpopped') \in Nat /\ Cardinality(Unreleased') \in Nat
        /\ Len(queue') \in Nat /\ empty' \in Nat /\ full' \in Nat
    BY AccountTypesAfter
  <2>7. QED
    BY <2>2, <2>4, <2>5, <2>6, ClientAssumption, SMTT(60)
<1>2. CASE \E s \in Senders : Sending(s)
  <2>1. PICK s \in Senders : Sending(s)
    BY <1>2
  <2>2. /\ SignalOwers' = SignalOwers /\ stop' = stop
        /\ empty' + Cardinality(Unpopped') - Len(queue')
               = empty + Cardinality(Unpopped) - Len(queue)
    BY <2>1, SendingAccounts
  <2>3. SUFFICES ASSUME stop # "stopped"
                 PROVE  empty' + Cardinality(SignalOwers') + Cardinality(Unpopped') = Len(queue')
    BY <2>2 DEF TokenAccounting
  <2>4. empty + Cardinality(SignalOwers) + Cardinality(Unpopped) = Len(queue)
    BY <1>0, <2>3 DEF TokenAccounting
  <2>5. /\ Cardinality(SignalOwers) \in Nat /\ Cardinality(PushHolders) \in Nat
        /\ Cardinality(Unpopped) \in Nat /\ Cardinality(Unreleased) \in Nat
        /\ Len(queue) \in Nat /\ empty \in Nat /\ full \in Nat
    BY <1>0, AccountTypes
  <2>6. /\ Cardinality(SignalOwers') \in Nat /\ Cardinality(PushHolders') \in Nat
        /\ Cardinality(Unpopped') \in Nat /\ Cardinality(Unreleased') \in Nat
        /\ Len(queue') \in Nat /\ empty' \in Nat /\ full' \in Nat
    BY AccountTypesAfter
  <2>7. QED
    BY <2>2, <2>4, <2>5, <2>6, ClientAssumption, SMTT(60)
<1>3. CASE StopJoin
  BY <1>3 DEF StopJoin, TokenAccounting
<1>4. CASE \/ \E c \in Callers : Calling(c)
           \/ \E k \in CallIds : CallingBack(k)
           \/ StopBegin \/ StopLook \/ StopEval \/ StopWakeDone
           \/ UNCHANGED vars
  BY <1>0, <1>4, QuietAccounts DEF TokenAccounting
<1>5. QED
  BY <1>1, <1>2, <1>3, <1>4 DEF Next, Ended, Stopping

\* The account of the permits: a step that neither gives nor takes one.
LEMMA PermitsKept ==
  ASSUME IndInv, permits' = permits,
         \A k \in CallIds : cst'[k] = "free" <=> cst[k] = "free",
         \A t \in Senders : HasPermit(t)' <=> HasPermit(t)
  PROVE  PermitAccounting'
<1>1. \A t \in Senders : CallsOf(t)' = CallsOf(t)
  BY DEF CallsOf, CallIds
<1>2. QED
  BY <1>1 DEF IndInv, PermitAccounting

LEMMA CallsFinite ==
  ASSUME NEW s \in Senders
  PROVE  IsFiniteSet(CallsOf(s)) /\ Cardinality(CallsOf(s)) \in Nat
BY PairsCount, FS_Subset, FS_CardinalityType, ClientAssumption DEF CallsOf

\* The account of one sender, with what it holds as a number.
LEMMA PermitSum ==
  ASSUME IndInv, NEW s \in Senders
  PROVE  /\ HasPermit(s) => permits[s] + Cardinality(CallsOf(s)) + 1 = OnceSend
         /\ ~HasPermit(s) => permits[s] + Cardinality(CallsOf(s)) + 0 = OnceSend
         /\ permits[s] \in Nat /\ Cardinality(CallsOf(s)) \in Nat
<1>1. permits[s] \in Nat
  BY DEF IndInv, Types
<1>2. QED
  BY <1>1, CallsFinite DEF IndInv, PermitAccounting

\* A sender that begins a call gives it its permit.
LEMMA BeginCallPermits ==
  ASSUME IndInv, NEW s \in Senders, HasPermit(s), NEW q, BeginCall(s, q), permits' = permits
  PROVE  PermitAccounting'
<1>1. PICK k \in CallIds, to \in {"lost", "flying"} :
         /\ k[1] = s /\ cst[k] = "free"
         /\ cst' = [cst EXCEPT ![k] = to]
         /\ spc' = [spc EXCEPT ![s] = "top"]
  BY BeginCallAt DEF IndInv
<1>2. cst \in [CallIds -> CallSteps] /\ spc \in [Senders -> SenderSteps]
  BY DEF IndInv, Types
<1>3. SUFFICES ASSUME NEW t \in Senders
               PROVE  permits'[t] + Cardinality(CallsOf(t)') + (IF HasPermit(t)' THEN 1 ELSE 0)
                        = OnceSend
  BY DEF PermitAccounting
<1>4. CASE t = s
  <2>1. CallsOf(s)' = CallsOf(s) \cup {k} /\ k \notin CallsOf(s)
    BY <1>1, <1>2 DEF CallsOf, CallIds
  <2>2. Cardinality(CallsOf(s)') = Cardinality(CallsOf(s)) + 1
    BY <2>1, CallsFinite, FS_AddElement
  <2>3. ~HasPermit(s)'
    BY <1>1, <1>2 DEF HasPermit
  <2>4. permits[s] + Cardinality(CallsOf(s)) + 1 = OnceSend
    BY PermitSum
  <2>5. permits'[s] = permits[s] /\ permits[s] \in Nat /\ Cardinality(CallsOf(s)) \in Nat
    BY PermitSum
  <2>6. permits'[s] + Cardinality(CallsOf(s)') + 0 = OnceSend
    BY <2>2, <2>4, <2>5
  <2>7. QED
    BY <1>4, <2>3, <2>6
<1>5. CASE t # s
  <2>1. CallsOf(t)' = CallsOf(t)
    BY <1>1, <1>2, <1>5 DEF CallsOf, CallIds
  <2>2. HasPermit(t)' <=> HasPermit(t)
    BY <1>1, <1>2, <1>5 DEF HasPermit
  <2>3. QED
    BY <2>1, <2>2 DEF IndInv, PermitAccounting
<1>6. QED
  BY <1>4, <1>5

LEMMA TakePermitPermits ==
  ASSUME IndInv, NEW s \in Senders, TakePermit(s), IsAsyn
  PROVE  PermitAccounting'
<1>1. /\ spc[s] = "permit" /\ spc' = [spc EXCEPT ![s] = "peek"] /\ cst' = cst
      /\ permits' = [permits EXCEPT ![s] = @ - 1]
  BY DEF TakePermit, callVars
<1>2. spc \in [Senders -> SenderSteps] /\ permits \in [Senders -> Nat]
  BY DEF IndInv, Types
<1>3. \A t \in Senders : CallsOf(t)' = CallsOf(t)
  BY <1>1 DEF CallsOf
<1>4. SUFFICES ASSUME NEW t \in Senders
               PROVE  permits'[t] + Cardinality(CallsOf(t)') + (IF HasPermit(t)' THEN 1 ELSE 0)
                        = OnceSend
  BY DEF PermitAccounting
<1>5. CASE t = s
  <2>1. ~HasPermit(s) /\ HasPermit(s)'
    BY <1>1, <1>2 DEF HasPermit
  <2>2. /\ permits[s] + Cardinality(CallsOf(s)) + 0 = OnceSend
        /\ permits[s] \in Nat /\ Cardinality(CallsOf(s)) \in Nat
    BY <2>1, PermitSum
  <2>3. permits'[s] = permits[s] - 1
    BY <1>1, <1>2
  <2>4. permits'[s] + Cardinality(CallsOf(s)') + 1 = OnceSend
    BY <1>3, <2>2, <2>3
  <2>5. QED
    BY <1>5, <2>1, <2>4
<1>6. CASE t # s
  <2>1. HasPermit(t)' <=> HasPermit(t)
    BY <1>1, <1>2, <1>6 DEF HasPermit
  <2>2. permits'[t] = permits[t]
    BY <1>1, <1>2, <1>6
  <2>3. QED
    BY <1>3, <2>1, <2>2 DEF IndInv, PermitAccounting
<1>7. QED
  BY <1>5, <1>6

LEMMA ReleasePermitPermits ==
  ASSUME IndInv, NEW k \in CallIds, ReleasePermit(k)
  PROVE  PermitAccounting'
<1> DEFINE s == k[1]
<1>0. s \in Senders
  BY Owner
<1>1. /\ cst[k] = "release" /\ cst' = [cst EXCEPT ![k] = "free"] /\ spc' = spc
      /\ permits' = [permits EXCEPT ![s] = @ + 1]
  BY DEF ReleasePermit, PermitBack, senderVars
<1>2. cst \in [CallIds -> CallSteps] /\ permits \in [Senders -> Nat]
  BY DEF IndInv, Types
<1>3. \A t \in Senders : HasPermit(t)' <=> HasPermit(t)
  BY <1>1 DEF HasPermit
<1>4. SUFFICES ASSUME NEW t \in Senders
               PROVE  permits'[t] + Cardinality(CallsOf(t)') + (IF HasPermit(t)' THEN 1 ELSE 0)
                        = OnceSend
  BY DEF PermitAccounting
<1>5. CASE t = s
  <2>1. CallsOf(s)' = CallsOf(s) \ {k} /\ k \in CallsOf(s)
    BY <1>1, <1>2 DEF CallsOf, CallIds
  <2>2. Cardinality(CallsOf(s)') = Cardinality(CallsOf(s)) - 1
    BY <1>0, <2>1, CallsFinite, FS_RemoveElement
  <2>3. permits'[s] = permits[s] + 1
    BY <1>0, <1>1, <1>2
  <2>4. /\ permits[s] \in Nat /\ Cardinality(CallsOf(s)) \in Nat
        /\ HasPermit(s) => permits[s] + Cardinality(CallsOf(s)) + 1 = OnceSend
        /\ ~HasPermit(s) => permits[s] + Cardinality(CallsOf(s)) + 0 = OnceSend
    BY <1>0, PermitSum
  <2>5. permits'[s] + Cardinality(CallsOf(s)') = permits[s] + Cardinality(CallsOf(s))
    BY <2>2, <2>3, <2>4
  <2>6. CASE HasPermit(s)
    BY <1>0, <1>3, <1>5, <2>4, <2>5, <2>6
  <2>7. CASE ~HasPermit(s)
    BY <1>0, <1>3, <1>5, <2>4, <2>5, <2>7
  <2>8. QED
    BY <2>6, <2>7
<1>6. CASE t # s
  <2>1. CallsOf(t)' = CallsOf(t)
    BY <1>1, <1>2, <1>6 DEF CallsOf, CallIds
  <2>2. permits'[t] = permits[t]
    BY <1>0, <1>1, <1>2, <1>6
  <2>3. QED
    BY <1>3, <2>1, <2>2 DEF IndInv, PermitAccounting
<1>7. QED
  BY <1>5, <1>6

LEMMA PermitStep ==
  ASSUME IndInv, [Next]_vars
  PROVE  PermitAccounting'
<1>0. /\ spc \in [Senders -> SenderSteps] /\ cst \in [CallIds -> CallSteps]
      /\ Shape
  BY DEF IndInv, Types
<1>1. ASSUME NEW p \in Putters, Putting(p)
      PROVE  PermitAccounting'
  <2>1. UNCHANGED <<spc, permits>>
    BY <1>1 DEF Putting, TakeSlot, SleepOnFull, Push, Signal, senderVars
  <2>2. \A k \in CallIds : cst'[k] = "free" <=> cst[k] = "free"
    <3>1. CASE Signal(p)
      <4>1. CASE p \in CallIds
        <5>1. cst[p] = "resend"
          BY <1>0, <3>1, <4>1 DEF Signal, Shape, CallShape
        <5>2. cst' = cst \/ cst' = [cst EXCEPT ![p] = "release"]
          BY <3>1 DEF Signal
        <5>3. QED
          BY <1>0, <5>1, <5>2
      <4>2. CASE p \notin CallIds
        BY <3>1, <4>2 DEF Signal
      <4>3. QED
        BY <4>1, <4>2
    <3>2. CASE ~Signal(p)
      BY <1>1, <3>2 DEF Putting, TakeSlot, SleepOnFull, Push, callVars
    <3>3. QED
      BY <3>1, <3>2
  <2>3. QED
    BY <2>1, <2>2, PermitsKept DEF HasPermit
<1>2. ASSUME NEW c \in Callers, Calling(c)
      PROVE  PermitAccounting'
  <2>1. UNCHANGED <<spc, permits, cst>>
    BY <1>2 DEF Calling, CallerEval, CallerBreak, CallerOver, senderVars, callVars
  <2>2. QED
    BY <2>1, PermitsKept DEF HasPermit
<1>3. ASSUME NEW s \in Senders, Sending(s)
      PROVE  PermitAccounting'
  <2>1. CASE SendDummy(s)
    <3>1. IsAsyn
      BY <1>0, <2>1 DEF SendDummy, Shape, SenderShape
    <3>2. HasPermit(s) /\ BeginCall(s, <<>>) /\ permits' = permits
      BY <2>1, <3>1 DEF SendDummy, HasPermit
    <3>3. QED
      BY <3>2, BeginCallPermits
  <2>2. CASE SendAsyn(s)
    <3>1. HasPermit(s) /\ BeginCall(s, batch[s]) /\ permits' = permits
      BY <2>2 DEF SendAsyn, HasPermit
    <3>2. QED
      BY <3>1, BeginCallPermits
  <2>3. CASE TakePermit(s)
    <3>1. IsAsyn
      BY <1>0, <2>3 DEF TakePermit, Shape, SenderShape
    <3>2. QED
      BY <2>3, <3>1, TakePermitPermits
  <2>4. CASE ~SendDummy(s) /\ ~SendAsyn(s) /\ ~TakePermit(s)
    <3>1. UNCHANGED <<permits, cst>>
      BY <1>3, <2>4 DEF Sending, LoopTest, SeeRequests, TakeTokens, Pop, ReleaseSlots,
                        SendSync, SyncThrows, SyncAnswer, SyncCount, Drained, callVars
    <3>2. \E to \in SenderSteps :
             /\ spc' = [spc EXCEPT ![s] = to]
             /\ (IsAsyn /\ to \in {"peek", "take", "pop", "release", "send"})
                  <=> HasPermit(s)
      <4>1. CASE LoopTest(s)
        BY <1>0, <4>1 DEF LoopTest, HasPermit, SenderSteps
      <4>2. CASE SyncThrows(s)
        BY <1>0, <4>2 DEF SyncThrows, HasPermit, senderVars
      <4>3. CASE SyncCount(s)
        BY <1>0, <4>3 DEF SyncCount, HasPermit, SenderSteps
      <4>4. CASE ~LoopTest(s) /\ ~SyncThrows(s) /\ ~SyncCount(s)
        BY <1>0, <1>3, <2>4, <4>4 DEF Sending, SeeRequests, TakeTokens, Pop, ReleaseSlots,
                 SendSync, SyncAnswer, Drained, HasPermit, SenderSteps
      <4>5. QED
        BY <4>1, <4>2, <4>3, <4>4
    <3>3. \A t \in Senders : HasPermit(t)' <=> HasPermit(t)
      BY <1>0, <3>2 DEF HasPermit
    <3>4. QED
      BY <3>1, <3>3, PermitsKept
  <2>5. QED
    BY <2>1, <2>2, <2>3, <2>4
<1>4. ASSUME NEW k \in CallIds, CallingBack(k)
      PROVE  PermitAccounting'
  <2>1. CASE ReleasePermit(k)
    BY <2>1, ReleasePermitPermits
  <2>2. CASE ~ReleasePermit(k)
    <3>1. UNCHANGED <<permits, spc>>
      BY <1>4, <2>2 DEF CallingBack, Deliver, Answer, Count, Fail, FailCount, senderVars
    <3>2. /\ cst[k] # "free"
          /\ cst' = cst \/ \E to \in CallSteps \ {"free"} : cst' = [cst EXCEPT ![k] = to]
      BY <1>4, <2>2 DEF CallingBack, Deliver, Answer, Count, Fail, FailCount, CallSteps
    <3>3. \A l \in CallIds : cst'[l] = "free" <=> cst[l] = "free"
      BY <1>0, <3>2
    <3>4. QED
      BY <3>1, <3>3, PermitsKept DEF HasPermit
  <2>3. QED
    BY <2>1, <2>2
<1>5. ASSUME Stopping \/ UNCHANGED vars
      PROVE  PermitAccounting'
  <2>1. UNCHANGED <<spc, permits, cst>>
    BY <1>5 DEF Stopping, StopBegin, StopLook, StopEval, StopWakeDone, StopJoin, senderVars, callVars, vars
  <2>2. QED
    BY <2>1, PermitsKept DEF HasPermit
<1>6. QED
  BY <1>1, <1>2, <1>3, <1>4, <1>5 DEF Next, Ended

------------------------------------------------------------------------------
(* The inductive invariant                                                  *)

LEMMA InitSets ==
  ASSUME Init
  PROVE  /\ SignalOwers = {} /\ PushHolders = {} /\ Unpopped = {} /\ Unreleased = {}
         /\ \A s \in Senders : CallsOf(s) = {} /\ ~HasPermit(s)
<1>1. SignalOwers = {} /\ PushHolders = {}
  BY DEF Init, SignalOwers, PushHolders
<1>2. Unpopped = {} /\ Unreleased = {}
  BY DEF Init, Unpopped, Unreleased, Fetched
<1>3. \A s \in Senders : CallsOf(s) = {}
  BY DEF Init, CallsOf, CallIds
<1>4. \A s \in Senders : ~HasPermit(s)
  BY DEF Init, HasPermit
<1>5. QED
  BY <1>1, <1>2, <1>3, <1>4

LEMMA InitIndInv ==
  ASSUME Init
  PROVE  IndInv /\ SlotAccounting
<1>1. Types
  <2>1. queue \in Seq(Requests) /\ full \in Nat /\ empty \in Nat /\ asleep \subseteq Putters
    BY ClientAssumption DEF Init
  <2>2. /\ fetch \in [Senders -> 0..BatchSize] /\ batch \in [Senders -> Seq(Requests)]
        /\ proxy \in [Senders -> 0..(ProxyNumber - 1)] /\ permits \in [Senders -> Nat]
    BY ClientAssumption DEF Init
  <2>3. /\ load \in [CallIds -> Seq(Requests)] /\ todo \in [CallIds -> Seq(Requests)]
        /\ cst \in [CallIds -> CallSteps] /\ spc \in [Senders -> SenderSteps]
    BY DEF Init, CallSteps, SenderSteps
  <2>4. /\ cpc \in [Callers -> {"run", "poll", "over"}]
        /\ issued \in [Clients -> Nat]
        /\ put \in [Putters -> {"no", "slot", "push", "signal"}]
        /\ answers \in [Requests -> Nat]
    BY DEF Init
  <2>5. pending \in Int /\ failures \in Nat /\ seen \in [least : Int, most : Int]
    BY DEF Init, Unread
  <2>6. /\ terminate \in BOOLEAN /\ aborted \in BOOLEAN
        /\ stop \in {"off", "size", "look", "join", "stopped"}
    BY DEF Init
  <2>7. QED
    BY <2>1, <2>2, <2>3, <2>4, <2>5, <2>6 DEF Types
<1>2. SenderShape
  BY DEF Init, SenderShape
<1>3. CallShape
  BY Owner DEF Init, CallShape
<1>4. ClientShape
  <2>1. /\ \A x \in Clients : issued[x] = 0 /\ put[x] = "no"
        /\ Callers \subseteq Clients /\ Stopper \in Clients
    BY DEF Init, Putters, Clients
  <2>2. \A x \in Clients : issued[x] <= Limit(x)
    BY <2>1, LimitIsNat
  <2>3. QED
    BY <2>1, <2>2 DEF Init, ClientShape
<1>5. Cardinality({}) = 0 /\ Len(queue) = 0 /\ empty = 0 /\ full = QueueSize
  BY FS_EmptySet DEF Init
<1>a. /\ Cardinality(SignalOwers) = 0 /\ Cardinality(PushHolders) = 0
      /\ Cardinality(Unpopped) = 0 /\ Cardinality(Unreleased) = 0
  BY <1>5, InitSets
<1>6. TokenAccounting
  BY <1>5, <1>a DEF TokenAccounting
<1>7. SlotAccounting
  BY <1>5, <1>a, ClientAssumption DEF SlotAccounting
<1>8. PermitAccounting
  <2>1. \A s \in Senders : permits[s] = OnceSend
    BY DEF Init
  <2>2. \A s \in Senders : Cardinality(CallsOf(s)) = 0 /\ ~HasPermit(s)
    BY <1>5, InitSets
  <2>3. QED
    BY <2>1, <2>2, ClientAssumption DEF PermitAccounting
<1>9. QED
  BY <1>1, <1>2, <1>3, <1>4, <1>6, <1>7, <1>8 DEF IndInv, Shape

LEMMA IndInvStep ==
  ASSUME IndInv, [Next]_vars
  PROVE  IndInv'
BY TypesStep, ShapeStep, TokenStep, PermitStep DEF IndInv

\* The client is at all times in a state that the invariant describes.
THEOREM IndInvAlways == Spec => []IndInv
BY InitIndInv, IndInvStep, PTL DEF Spec

------------------------------------------------------------------------------
(* What follows                                                             *)

\* No token is lost or made up between empty_ and the queue, however the
\* senders and the putters interleave.
THEOREM TokensAccounted == Spec => []TokenAccounting
<1>1. IndInv => TokenAccounting
  BY DEF IndInv
<1>2. QED
  BY <1>1, IndInvAlways, PTL

\* No permit of a sender is lost but to a null proxy, and none is given twice.
THEOREM PermitsAccounted == Spec => []PermitAccounting
<1>1. IndInv => PermitAccounting
  BY DEF IndInv
<1>2. QED
  BY <1>1, IndInvAlways, PTL

\* No slot is lost or made up between full_ and the queue.
THEOREM SlotsAccounted == Spec => []SlotAccounting
<1>1. IndInv /\ SlotAccounting /\ [Next]_vars => SlotAccounting'
  BY SlotStep, TypesStep
<1>2. Init => SlotAccounting
  BY InitIndInv
<1>3. QED
  BY <1>1, <1>2, IndInvAlways, PTL DEF Spec

\* Nobody is inside the client any more.
LEMMA Quiet ==
  ASSUME IndInv
  PROVE  StoppedIsQuiet
<1>1. SUFFICES ASSUME stop = "stopped"
               PROVE  /\ \A p \in Putters : put[p] = "no"
                      /\ \A s \in Senders : spc[s] = "done"
                      /\ \A k \in CallIds : cst[k] = "free"
  BY DEF StoppedIsQuiet
<1>2. /\ \A s \in Senders : spc[s] = "done"
      /\ put[Stopper] = "no" /\ \A c \in Callers : put[c] = "no"
  BY <1>1 DEF IndInv, Shape, ClientShape
<1>3. \A k \in CallIds : cst[k] = "free" /\ put[k] = "no"
  BY <1>2, Owner DEF IndInv, Shape, CallShape
<1>4. QED
  BY <1>2, <1>3 DEF Putters, Clients

\* When Stop has returned no thread is left that could touch the semaphores it
\* deletes, with any number of senders, calls and failures.
THEOREM StopLeavesNobody == Spec => []StoppedIsQuiet
BY Quiet, IndInvAlways, PTL

\* The counts of full_ and empty_ stay where they are once Stop has returned.
LEMMA StoppedKeeps ==
  ASSUME IndInv, [Next]_vars, stop' = "stopped"
  PROVE  full' = full /\ empty' = empty
<1>1. StoppedIsQuiet
  BY Quiet
<1>2. CASE \E p \in Putters : Putting(p)
  <2>1. PICK p \in Putters : Putting(p)
    BY <1>2
  <2>2. stop' = stop
    BY <2>1, PuttingAccounts
  <2>3. put[p] # "no"
    BY <2>1 DEF Putting, TakeSlot, SleepOnFull, Push, Signal
  <2>4. QED
    BY <1>1, <2>2, <2>3 DEF StoppedIsQuiet
<1>3. CASE \E s \in Senders : Sending(s)
  <2>1. PICK s \in Senders : Sending(s)
    BY <1>3
  <2>2. stop' = stop
    BY <2>1 DEF Sending, LoopTest, TakePermit, SendDummy, SeeRequests, TakeTokens, Pop,
         ReleaseSlots, SendAsyn, SendSync, SyncThrows, SyncAnswer, SyncCount, Drained, endVars
  <2>3. spc[s] # "done"
    BY <2>1 DEF Sending, LoopTest, TakePermit, SendDummy, SeeRequests, TakeTokens, Pop,
         ReleaseSlots, SendAsyn, SendSync, SyncThrows, SyncAnswer, SyncCount, Drained
  <2>4. QED
    BY <1>1, <2>2, <2>3 DEF StoppedIsQuiet
<1>4. CASE StopJoin
  BY <1>4 DEF StopJoin
<1>5. CASE \/ \E c \in Callers : Calling(c)
           \/ \E k \in CallIds : CallingBack(k)
           \/ StopBegin \/ StopLook \/ StopEval \/ StopWakeDone
           \/ UNCHANGED vars
  BY <1>5, QuietAccounts
<1>6. QED
  BY <1>2, <1>3, <1>4, <1>5 DEF Next, Ended, Stopping

\* The upper bounds of TypeOK.
Bounds == full <= QueueSize /\ empty <= QueueSize

LEMMA BoundsFromAccounts ==
  ASSUME IndInv, SlotAccounting, stop # "stopped"
  PROVE  Bounds
<1>1. /\ Cardinality(SignalOwers) \in Nat /\ Cardinality(PushHolders) \in Nat
      /\ Cardinality(Unpopped) \in Nat /\ Cardinality(Unreleased) \in Nat
      /\ Len(queue) \in Nat /\ empty \in Nat /\ full \in Nat
  BY AccountTypes DEF IndInv
<1>2. full + Cardinality(PushHolders) + Cardinality(Unreleased) + Len(queue) = QueueSize
  BY DEF SlotAccounting
<1>3. empty + Cardinality(SignalOwers) + Cardinality(Unpopped) = Len(queue)
  BY DEF IndInv, TokenAccounting
<1>4. full <= QueueSize /\ Len(queue) <= QueueSize
  BY <1>1, <1>2, ClientAssumption, SMTT(60)
<1>5. empty <= Len(queue)
  BY <1>1, <1>3, SMTT(60)
<1>6. QED
  BY <1>1, <1>4, <1>5, ClientAssumption DEF Bounds

LEMMA BoundsStep ==
  ASSUME IndInv, SlotAccounting, Bounds, [Next]_vars
  PROVE  Bounds'
<1>1. IndInv' /\ SlotAccounting'
  BY IndInvStep, TypesStep, SlotStep
<1>2. CASE stop' = "stopped"
  BY <1>2, StoppedKeeps DEF Bounds
<1>3. CASE stop' # "stopped"
  <2>1. /\ Cardinality(SignalOwers') \in Nat /\ Cardinality(PushHolders') \in Nat
        /\ Cardinality(Unpopped') \in Nat /\ Cardinality(Unreleased') \in Nat
        /\ Len(queue') \in Nat /\ empty' \in Nat /\ full' \in Nat
    BY <1>1, AccountTypesAfter DEF IndInv
  <2>2. full' + Cardinality(PushHolders') + Cardinality(Unreleased') + Len(queue') = QueueSize
    BY <1>1, <1>3 DEF SlotAccounting
  <2>3. empty' + Cardinality(SignalOwers') + Cardinality(Unpopped') = Len(queue')
    BY <1>1, <1>3 DEF IndInv, TokenAccounting
  <2>4. full' <= QueueSize /\ Len(queue') <= QueueSize
    BY <2>1, <2>2, ClientAssumption, SMTT(60)
  <2>5. empty' <= Len(queue')
    BY <2>1, <2>3, SMTT(60)
  <2>6. QED
    BY <2>1, <2>4, <2>5, ClientAssumption DEF Bounds
<1>4. QED
  BY <1>2, <1>3

LEMMA TypesAndBounds ==
  ASSUME IndInv, Bounds
  PROVE  TypeOK
<1>1. full \in 0..QueueSize /\ empty \in 0..QueueSize
  BY ClientAssumption DEF IndInv, Types, Bounds
<1>2. permits \in [Senders -> 0..OnceSend]
  <2>1. ASSUME NEW s \in Senders
        PROVE  permits[s] \in 0..OnceSend
    <3>1. /\ permits[s] \in Nat /\ Cardinality(CallsOf(s)) \in Nat
          /\ HasPermit(s) => permits[s] + Cardinality(CallsOf(s)) + 1 = OnceSend
          /\ ~HasPermit(s) => permits[s] + Cardinality(CallsOf(s)) + 0 = OnceSend
      BY PermitSum
    <3>2. permits[s] <= OnceSend /\ OnceSend \in Nat
      BY <3>1, ClientAssumption, SMTT(60)
    <3>3. QED
      BY <3>1, <3>2
  <2>2. QED
    BY <2>1 DEF IndInv, Types
<1>3. QED
  BY <1>1, <1>2 DEF IndInv, Types, TypeOK, SenderSteps, CallSteps

\* The variables keep their types: full_ and empty_ never go over the size of
\* the queue, and no semaphore of permits over its first value.
THEOREM ClientTyping == Spec => []TypeOK
<1>1. Init => Bounds
  BY ClientAssumption DEF Init, Bounds
<1>2. IndInv /\ SlotAccounting /\ Bounds /\ [Next]_vars => Bounds'
  BY BoundsStep
<1>3. IndInv /\ Bounds => TypeOK
  BY TypesAndBounds
<1>4. QED
  BY <1>1, <1>2, <1>3, IndInvAlways, SlotsAccounted, PTL DEF Spec

------------------------------------------------------------------------------
(* Sleepers on full_                                                        *)

\* A putter that owes a token has its request in the queue.
LEMMA OwerIsQueued ==
  ASSUME IndInv, NEW p \in Putters, put[p] = "signal", stop # "stopped"
  PROVE  queue # <<>>
<1>1. p \in SignalOwers /\ SignalOwers \in SUBSET Putters
  BY DEF SignalOwers
<1>2. IsFiniteSet(SignalOwers)
  BY <1>1, SetsAreFinite, FS_Subset
<1>3. Cardinality(SignalOwers) # 0
  BY <1>1, <1>2, FS_EmptySet
<1>4. /\ Cardinality(SignalOwers) \in Nat /\ Cardinality(Unpopped) \in Nat
      /\ Len(queue) \in Nat /\ empty \in Nat
  BY AccountTypes DEF IndInv
<1>5. empty + Cardinality(SignalOwers) + Cardinality(Unpopped) = Len(queue)
  BY DEF IndInv, TokenAccounting
<1>6. Len(queue) # 0
  BY <1>3, <1>4, <1>5, SMTT(60)
<1>7. QED
  BY <1>6

\* With no free slot somebody holds one or a request does.
LEMMA FullIsHeld ==
  ASSUME IndInv, SlotAccounting, full = 0, stop # "stopped"
  PROVE  \/ \E p \in Putters : put[p] = "push"
         \/ \E s \in Senders : spc[s] = "release"
         \/ queue # <<>>
<1>1. SUFFICES ASSUME \A p \in Putters : put[p] # "push",
                      \A s \in Senders : spc[s] # "release",
                      queue = <<>>
               PROVE  FALSE
  OBVIOUS
<1>4. PushHolders = {} /\ Unreleased = {}
  BY <1>1 DEF PushHolders, Unreleased, Fetched
<1>5. Cardinality(PushHolders) = 0 /\ Cardinality(Unreleased) = 0 /\ Len(queue) = 0
  BY <1>1, <1>4, FS_EmptySet
<1>6. full + Cardinality(PushHolders) + Cardinality(Unreleased) + Len(queue) = QueueSize
  BY DEF SlotAccounting
<1>7. QED
  BY <1>5, <1>6, ClientAssumption

LEMMA StoppedStays ==
  ASSUME [Next]_vars, stop = "stopped"
  PROVE  stop' = "stopped"
<1>1. CASE UNCHANGED vars
  BY <1>1 DEF vars, endVars
<1>2. CASE \E p \in Putters : Putting(p)
  BY <1>2 DEF Putting, TakeSlot, SleepOnFull, Push, Signal, endVars
<1>3. CASE \E c \in Callers : Calling(c)
  BY <1>3 DEF Calling, CallerEval, CallerBreak, CallerOver, endVars
<1>4. CASE \E s \in Senders : Sending(s)
  BY <1>4 DEF Sending, LoopTest, TakePermit, SendDummy, SeeRequests, TakeTokens, Pop,
       ReleaseSlots, SendAsyn, SendSync, SyncThrows, SyncAnswer, SyncCount, Drained, endVars
<1>5. CASE \E k \in CallIds : CallingBack(k)
  BY <1>5 DEF CallingBack, Deliver, Answer, Count, Fail, FailCount, ReleasePermit, endVars
<1>6. CASE Stopping
  BY <1>6 DEF Stopping, StopBegin, StopLook, StopEval, StopWakeDone, StopJoin, endVars
<1>7. QED
  BY <1>1, <1>2, <1>3, <1>4, <1>5, <1>6 DEF Next, Ended

\* A step of a sender keeps somebody on the way to releasing a slot.
LEMMA SendingSleepers ==
  ASSUME IndInv, NEW s \in Senders, Sending(s), WillRelease, asleep' # {}
  PROVE  WillRelease'
<1>1. /\ put' = put /\ spc \in [Senders -> SenderSteps]
      /\ \A p \in asleep : put[p] = "slot" /\ p \in Putters
  BY DEF Sending, LoopTest, TakePermit, SendDummy, SeeRequests, TakeTokens, Pop,
         ReleaseSlots, SendAsyn, SendSync, SyncThrows, SyncAnswer, SyncCount, Drained,
         callerVars, IndInv, Types, Shape, ClientShape
<1>2. CASE TakeTokens(s)
  <2>1. spc'[s] = "pop"
    BY <1>1, <1>2 DEF TakeTokens
  <2>2. QED
    BY <2>1 DEF WillRelease
<1>3. CASE Pop(s)
  <2>1. spc'[s] = "release"
    BY <1>1, <1>3 DEF Pop
  <2>2. QED
    BY <2>1 DEF WillRelease
<1>4. CASE ReleaseSlots(s)
  <2>1. asleep' = asleep \/ \E p \in asleep : asleep' = asleep \ {p}
    BY <1>4 DEF ReleaseSlots, WakeOne
  <2>2. asleep # {}
    BY <2>1
  <2>3. PICK p \in asleep : asleep' = asleep \ {p}
    BY <1>4, <2>2 DEF ReleaseSlots, WakeOne
  <2>4. p \in Putters \ asleep' /\ put'[p] # "no"
    BY <1>1, <2>3
  <2>5. QED
    BY <2>4 DEF WillRelease
<1>5. CASE ~TakeTokens(s) /\ ~Pop(s) /\ ~ReleaseSlots(s)
  <2>1. UNCHANGED <<queue, asleep>>
    BY <1>5 DEF Sending, LoopTest, TakePermit, SendDummy, SeeRequests, SendAsyn, SendSync,
          SyncThrows, SyncAnswer, SyncCount, Drained, queueVars
  <2>2. spc[s] \notin {"pop", "release"} /\ \A t \in Senders \ {s} : spc'[t] = spc[t]
    BY <1>1, <1>5 DEF Sending, LoopTest, TakePermit, SendDummy, SeeRequests, SendAsyn,
          BeginCall, SendSync, SyncThrows, SyncAnswer, SyncCount, Drained, senderVars
  <2>3. QED
    BY <1>1, <2>1, <2>2 DEF WillRelease
<1>6. QED
  BY <1>2, <1>3, <1>4, <1>5

LEMMA PuttingSleepers ==
  ASSUME IndInv, SlotAccounting, stop # "stopped", NEW p \in Putters, Putting(p)
  PROVE  WillRelease'
<1>1. /\ put \in [Putters -> {"no", "slot", "push", "signal"}]
      /\ \A x \in asleep : put[x] = "slot"
  BY DEF IndInv, Types, Shape, ClientShape
<1>2. CASE SleepOnFull(p)
  <2>1. /\ put[p] = "slot" /\ full = 0 /\ asleep' = asleep \cup {p}
        /\ UNCHANGED <<put, spc, queue>>
    BY <1>2 DEF SleepOnFull, callerVars, senderVars
  <2>2. CASE \E x \in Putters : put[x] = "push"
    <3>1. PICK x \in Putters : put[x] = "push"
      BY <2>2
    <3>2. x \in Putters \ asleep' /\ put'[x] # "no"
      BY <1>1, <2>1, <3>1
    <3>3. QED
      BY <3>2 DEF WillRelease
  <2>3. CASE \E s \in Senders : spc[s] = "release"
    BY <2>1, <2>3 DEF WillRelease
  <2>4. CASE queue # <<>>
    BY <2>1, <2>4 DEF WillRelease
  <2>5. QED
    BY <2>1, <2>2, <2>3, <2>4, FullIsHeld
<1>3. CASE TakeSlot(p)
  <2>1. p \in Putters \ asleep' /\ put'[p] = "push"
    BY <1>1, <1>3 DEF TakeSlot
  <2>2. QED
    BY <2>1 DEF WillRelease
<1>4. CASE Push(p)
  <2>1. p \in Putters \ asleep' /\ put'[p] = "signal"
    BY <1>1, <1>4 DEF Push
  <2>2. QED
    BY <2>1 DEF WillRelease
<1>5. CASE Signal(p)
  <2>1. put[p] = "signal" /\ queue' = queue
    BY <1>5 DEF Signal
  <2>2. queue # <<>>
    BY <2>1, OwerIsQueued
  <2>3. QED
    BY <2>1, <2>2 DEF WillRelease
<1>6. QED
  BY <1>2, <1>3, <1>4, <1>5 DEF Putting

LEMMA SleepersStep ==
  ASSUME IndInv, SlotAccounting, NobodyForgotten, [Next]_vars
  PROVE  NobodyForgotten'
<1>1. SUFFICES ASSUME asleep' # {}, stop' # "stopped"
               PROVE  WillRelease'
  BY DEF NobodyForgotten
<1>2. stop # "stopped"
  BY <1>1, StoppedStays
<1>3. CASE \E p \in Putters : Putting(p)
  BY <1>2, <1>3, PuttingSleepers
<1>4. CASE \E s \in Senders : Sending(s)
  <2>1. PICK s \in Senders : Sending(s)
    BY <1>4
  <2>2. asleep # {}
    BY <1>1, <2>1 DEF Sending, LoopTest, TakePermit, SendDummy, SeeRequests, TakeTokens, Pop,
       ReleaseSlots, WakeOne, SendAsyn, SendSync, SyncThrows, SyncAnswer, SyncCount, Drained,
       queueVars
  <2>3. QED
    BY <1>1, <1>2, <2>1, <2>2, SendingSleepers DEF NobodyForgotten
<1>5. CASE StopJoin
  BY <1>1, <1>5 DEF StopJoin
<1>6. CASE \/ \E c \in Callers : Calling(c)
           \/ \E k \in CallIds : CallingBack(k)
           \/ StopBegin \/ StopLook \/ StopEval \/ StopWakeDone
           \/ UNCHANGED vars
  <2>1. UNCHANGED <<asleep, queue, spc>>
    BY <1>6 DEF Calling, CallerEval, CallerBreak, CallerOver, CallingBack, Deliver, Answer,
       Count, Fail, FailCount, ReleasePermit, StopBegin, StopLook, StopEval, StopWakeDone, vars,
       queueVars, senderVars
  <2>2. \E p \in Putters : \/ put' = put
                           \/ put[p] = "no" /\ put' = [put EXCEPT ![p] = "slot"]
    BY <1>6, QuietPut
  <2>3. put \in [Putters -> {"no", "slot", "push", "signal"}]
    BY DEF IndInv, Types
  <2>4. WillRelease
    BY <1>1, <1>2, <2>1 DEF NobodyForgotten
  <2>5. QED
    BY <2>1, <2>2, <2>3, <2>4 DEF WillRelease
<1>7. QED
  BY <1>3, <1>4, <1>5, <1>6 DEF Next, Ended, Stopping

\* Nobody sleeps on full_ without somebody on the way to releasing a slot and
\* waking, for any number of threads, any sizes and any resends.
THEOREM NobodyIsForgotten == Spec => []NobodyForgotten
<1>1. Init => NobodyForgotten
  BY DEF Init, NobodyForgotten
<1>2. IndInv /\ SlotAccounting /\ NobodyForgotten /\ [Next]_vars => NobodyForgotten'
  BY SleepersStep
<1>3. QED
  BY <1>1, <1>2, IndInvAlways, SlotsAccounted, PTL DEF Spec

------------------------------------------------------------------------------
(* Where a request is                                                       *)

\* Who may hold requests: the queue, the senders with their batches and the
\* calls with what they have to treat.
InQueue  == <<"queue", 0>>
Sends(s) == <<"sender", s>>
Calls(k) == <<"call", k>>
Holders  == {InQueue} \cup {Sends(s) : s \in Senders} \cup {Calls(k) : k \in CallIds}

\* What a call answers for.  While it takes its batch out of the count that is
\* the whole batch; while it puts the batch back, the request it has just put
\* is the queue's.
Owned(k) ==
    IF cst[k] = "fail" THEN Elements(load[k])
    ELSE IF put[k] = "signal" THEN Elements(Tail(todo[k])) ELSE Elements(todo[k])

\* What each holder answers for, what of it is in pending_, and what of that has
\* been answered.
Held == [h \in Holders |->
    IF h[1] = "queue" THEN Elements(queue)
    ELSE IF h[1] = "sender" THEN Elements(batch[h[2]]) ELSE Owned(h[2])]
Within == [h \in Holders |->
    IF h[1] = "queue" THEN Elements(queue)
    ELSE IF h[1] = "sender" THEN Elements(batch[h[2]])
    ELSE IF cst[h[2]] = "resend" THEN {} ELSE Elements(todo[h[2]])]
Replied == [h \in Holders |->
    IF h[1] = "queue" THEN {}
    ELSE IF h[1] = "sender"
         THEN IF spc[h[2]] = "count" THEN {Head(batch[h[2]])} ELSE {}
         ELSE IF cst[h[2]] = "count" THEN {Head(todo[h[2]])} ELSE {}]

Everything(f) == UNION {f[h] : h \in Holders}
Anywhere == Everything(Held)
Ripe     == Everything(Replied)

\* The requests that have reached the queue once.
Accepted ==
    {r \in Requests : /\ r[2] <= issued[r[1]]
                      /\ ~(put[r[1]] \in {"slot", "push"} /\ r[2] = issued[r[1]])}

Distinct(q) == \A i, j \in DOMAIN q : q[i] = q[j] => i = j
Apart(f)    == \A g, h \in Holders : g # h => f[g] \cap f[h] = {}

Sequenced ==
    /\ Distinct(queue)
    /\ \A s \in Senders : Distinct(batch[s])
    /\ \A k \in CallIds : Distinct(todo[k]) /\ Distinct(load[k])
CallData ==
    \A k \in CallIds :
        /\ cst[k] \in {"free", "release"} => todo[k] = <<>>
        /\ cst[k] = "free" => load[k] = <<>>
        /\ cst[k] \in {"flying", "lost"} => todo[k] = load[k]
        /\ cst[k] \in {"fail", "resend"} => Elements(todo[k]) \subseteq Elements(load[k])
        /\ cst[k] \in {"fail", "resend"} => MaxFailures > 0
        /\ Elements(load[k]) \subseteq Accepted
BatchData ==
    \A s \in Senders :
        spc[s] \notin {"release", "send", "answer", "count"} => batch[s] = <<>>
Data == Sequenced /\ CallData /\ BatchData

\* No request is in two places, those held and not answered are the ones that
\* have reached the queue and have no answer, and pending_ counts them.
Fates ==
    /\ Anywhere \subseteq Accepted
    /\ \A r \in Requests : answers[r] > 0 => r \in Accepted
    /\ \A r \in Anywhere : answers[r] > 0 <=> r \in Ripe
    /\ stop # "stopped" =>
          /\ \A r \in Accepted : answers[r] = 0 => r \in Anywhere
          /\ IsFiniteSet(Counted) /\ pending = Cardinality(Counted)

PlaceInv == Data /\ Apart(Held) /\ Fates

------------------------------------------------------------------------------
(* Batches as sets                                                          *)

LEMMA EmptyBatch == Elements(<<>>) = {} /\ Distinct(<<>>)
BY DEF Elements, Distinct

LEMMA AppendElements ==
  ASSUME NEW q \in Seq(Requests), NEW r \in Requests
  PROVE  /\ Elements(Append(q, r)) = Elements(q) \cup {r}
         /\ Distinct(q) /\ r \notin Elements(q) => Distinct(Append(q, r))
<1> DEFINE a == Append(q, r)
           n == Len(q)
<1>1. n \in Nat /\ a \in Seq(Requests) /\ Len(a) = n + 1 /\ a[n + 1] = r
  BY AppendProperties
<1>2. \A i \in 1..n : a[i] = q[i]
  BY AppendProperties
<1>3. DOMAIN q = 1..n /\ DOMAIN a = 1..(n + 1)
  BY <1>1, LenProperties
<1> HIDE DEF a, n
<1>4. 1..(n + 1) = (1..n) \cup {n + 1} /\ n + 1 \notin 1..n
  BY <1>1
<1>5. Elements(a) = Elements(q) \cup {r}
  BY <1>1, <1>2, <1>3, <1>4 DEF Elements
<1>6. ASSUME Distinct(q), r \notin Elements(q)
      PROVE  Distinct(a)
  <2>1. \A i \in 1..n : a[i] # r
    BY <1>2, <1>3, <1>6 DEF Elements
  <2>2. SUFFICES ASSUME NEW i \in 1..(n + 1), NEW j \in 1..(n + 1), a[i] = a[j]
                 PROVE  i = j
    BY <1>3 DEF Distinct
  <2>3. CASE i \in 1..n /\ j \in 1..n
    BY <1>2, <1>3, <1>6, <2>2, <2>3 DEF Distinct
  <2>4. CASE i = n + 1 \/ j = n + 1
    BY <1>1, <1>4, <2>1, <2>2, <2>4
  <2>5. QED
    BY <1>4, <2>3, <2>4
<1>7. QED
  BY <1>5, <1>6 DEF a

LEMMA TailElements ==
  ASSUME NEW q \in Seq(Requests), q # <<>>
  PROVE  /\ Elements(q) = {Head(q)} \cup Elements(Tail(q))
         /\ Distinct(q) => Distinct(Tail(q)) /\ Head(q) \notin Elements(Tail(q))
<1> DEFINE t == Tail(q)
           n == Len(q)
<1>1. n \in Nat /\ n > 0 /\ Len(t) = n - 1 /\ t \in Seq(Requests) /\ Head(q) = q[1]
  BY EmptySeq
<1>2. \A i \in 1..(n - 1) : t[i] = q[i + 1]
  BY <1>1
<1>3. DOMAIN q = 1..n /\ DOMAIN t = 1..(n - 1)
  BY <1>1, LenProperties
<1> HIDE DEF t, n
<1>4. \A i \in 1..n : i = 1 \/ i - 1 \in 1..(n - 1)
  BY <1>1
<1>5. \A i \in 1..(n - 1) : i + 1 \in 1..n /\ i + 1 # 1
  BY <1>1
<1>a. \A i \in 1..n : i - 1 \in 1..(n - 1) => q[i] = t[i - 1]
  BY <1>1, <1>2
<1>b. 1 \in 1..n
  BY <1>1
<1>6. Elements(q) \subseteq {q[1]} \cup Elements(t)
  BY <1>3, <1>4, <1>a DEF Elements
<1>c. {q[1]} \cup Elements(t) \subseteq Elements(q)
  BY <1>2, <1>3, <1>5, <1>b DEF Elements
<1>7. ASSUME Distinct(q) PROVE Distinct(t) /\ q[1] \notin Elements(t)
  <2>1. \A i, j \in 1..n : q[i] = q[j] => i = j
    BY <1>3, <1>7 DEF Distinct
  <2>2. ASSUME NEW i \in 1..(n - 1), NEW j \in 1..(n - 1), t[i] = t[j] PROVE i = j
    <3>1. i + 1 = j + 1
      BY <1>2, <1>5, <2>1, <2>2
    <3>2. QED
      BY <3>1
  <2>3. \A i \in 1..(n - 1) : t[i] # q[1]
    BY <1>2, <1>5, <1>b, <2>1
  <2>4. QED
    BY <1>3, <2>2, <2>3 DEF Distinct, Elements
<1>8. QED
  BY <1>1, <1>6, <1>c, <1>7 DEF t

LEMMA SplitElements ==
  ASSUME NEW q \in Seq(Requests), NEW n \in Nat, n <= Len(q)
  PROVE  LET a == SubSeq(q, 1, n)
             b == SubSeq(q, n + 1, Len(q))
         IN  /\ Elements(q) = Elements(a) \cup Elements(b)
             /\ Distinct(q) => /\ Distinct(a) /\ Distinct(b)
                               /\ Elements(a) \cap Elements(b) = {}
<1> DEFINE a == SubSeq(q, 1, n)
           b == SubSeq(q, n + 1, Len(q))
           m == Len(q)
<1>1. m \in Nat /\ n <= m
  OBVIOUS
<1>2. DOMAIN q = 1..m /\ DOMAIN a = 1..n /\ DOMAIN b = 1..(m - n)
  BY <1>1, SubSeqProperties
<1>3. \A i \in 1..n : a[i] = q[i] /\ i \in 1..m
  BY <1>1, SubSeqProperties
<1>4. \A i \in 1..(m - n) : b[i] = q[i + n]
  BY <1>1, SubSeqProperties
<1> HIDE DEF a, b, m
<1>5. \A i \in 1..(m - n) : i + n \in 1..m /\ i + n \notin 1..n
  BY <1>1
<1>6. \A i \in 1..m : i \in 1..n \/ (i - n \in 1..(m - n) /\ (i - n) + n = i)
  BY <1>1
<1>7. Elements(a) \cup Elements(b) \subseteq Elements(q)
  BY <1>2, <1>3, <1>4, <1>5 DEF Elements
<1>8. Elements(q) \subseteq Elements(a) \cup Elements(b)
  <2>1. SUFFICES ASSUME NEW i \in 1..m PROVE q[i] \in Elements(a) \cup Elements(b)
    BY <1>2 DEF Elements
  <2>2. CASE i \in 1..n
    BY <1>2, <1>3, <2>2 DEF Elements
  <2>3. CASE i - n \in 1..(m - n) /\ (i - n) + n = i
    <3>1. b[i - n] = q[i]
      BY <1>4, <2>3
    <3>2. QED
      BY <1>2, <2>3, <3>1 DEF Elements
  <2>4. QED
    BY <1>6, <2>2, <2>3
<1>9. ASSUME Distinct(q)
      PROVE  Distinct(a) /\ Distinct(b) /\ Elements(a) \cap Elements(b) = {}
  <2>1. \A i, j \in 1..m : q[i] = q[j] => i = j
    BY <1>2, <1>9 DEF Distinct
  <2>2. Distinct(a)
    BY <1>2, <1>3, <2>1 DEF Distinct
  <2>3. Distinct(b)
    <3>1. ASSUME NEW i \in 1..(m - n), NEW j \in 1..(m - n), b[i] = b[j] PROVE i = j
      <4>1. i + n = j + n
        BY <1>4, <1>5, <2>1, <3>1
      <4>2. QED
        BY <4>1
    <3>2. QED
      BY <1>2, <3>1 DEF Distinct
  <2>4. Elements(a) \cap Elements(b) = {}
    <3>1. \A i \in 1..n, j \in 1..(m - n) : a[i] # b[j]
      BY <1>3, <1>4, <1>5, <2>1
    <3>2. QED
      BY <1>2, <3>1 DEF Elements
  <2>5. QED
    BY <2>2, <2>3, <2>4
<1>10. QED
  BY <1>7, <1>8, <1>9 DEF a, b, m

------------------------------------------------------------------------------
(* Holders                                                                  *)

LEMMA HolderKinds ==
  /\ InQueue \in Holders
  /\ \A s \in Senders : Sends(s) \in Holders /\ Sends(s) # InQueue
  /\ \A k \in CallIds : Calls(k) \in Holders /\ Calls(k) # InQueue
  /\ \A s \in Senders : \A k \in CallIds : Sends(s) # Calls(k)
  /\ \A s, t : Sends(s) = Sends(t) => s = t
  /\ \A k, l : Calls(k) = Calls(l) => k = l
  /\ \A h \in Holders : \/ h = InQueue
                        \/ \E s \in Senders : h = Sends(s)
                        \/ \E k \in CallIds : h = Calls(k)
BY DEF Holders, InQueue, Sends, Calls

LEMMA HolderValues ==
  /\ Held[InQueue] = Elements(queue)
  /\ Within[InQueue] = Elements(queue)
  /\ Replied[InQueue] = {}
  /\ \A s \in Senders :
        /\ Held[Sends(s)] = Elements(batch[s])
        /\ Within[Sends(s)] = Elements(batch[s])
        /\ spc[s] = "count" => Replied[Sends(s)] = {Head(batch[s])}
        /\ spc[s] # "count" => Replied[Sends(s)] = {}
  /\ \A k \in CallIds :
        /\ Held[Calls(k)] = Owned(k)
        /\ cst[k] # "resend" => Within[Calls(k)] = Elements(todo[k])
        /\ cst[k] = "resend" => Within[Calls(k)] = {}
        /\ cst[k] = "count" => Replied[Calls(k)] = {Head(todo[k])}
        /\ cst[k] # "count" => Replied[Calls(k)] = {}
<1>1. InQueue \in Holders /\ InQueue[1] = "queue"
  BY HolderKinds DEF InQueue
<1>2. \A s \in Senders : Sends(s) \in Holders /\ Sends(s)[1] = "sender" /\ Sends(s)[2] = s
  BY HolderKinds DEF Sends
<1>3. \A k \in CallIds : Calls(k) \in Holders /\ Calls(k)[1] = "call" /\ Calls(k)[2] = k
  BY HolderKinds DEF Calls
<1>4. /\ Held[InQueue] = Elements(queue)
      /\ Within[InQueue] = Elements(queue)
      /\ Replied[InQueue] = {}
  BY <1>1 DEF Held, Within, Replied
<1>5. ASSUME NEW s \in Senders
      PROVE  /\ Held[Sends(s)] = Elements(batch[s])
             /\ Within[Sends(s)] = Elements(batch[s])
             /\ spc[s] = "count" => Replied[Sends(s)] = {Head(batch[s])}
             /\ spc[s] # "count" => Replied[Sends(s)] = {}
  BY <1>2 DEF Held, Within, Replied
<1>6. ASSUME NEW k \in CallIds
      PROVE  /\ Held[Calls(k)] = Owned(k)
             /\ cst[k] # "resend" => Within[Calls(k)] = Elements(todo[k])
             /\ cst[k] = "resend" => Within[Calls(k)] = {}
             /\ cst[k] = "count" => Replied[Calls(k)] = {Head(todo[k])}
             /\ cst[k] # "count" => Replied[Calls(k)] = {}
  BY <1>3 DEF Held, Within, Replied
<1>7. QED
  BY <1>4, <1>5, <1>6

\* The same after a step.
LEMMA HolderValuesAfter ==
  /\ Held'[InQueue] = Elements(queue')
  /\ Within'[InQueue] = Elements(queue')
  /\ Replied'[InQueue] = {}
  /\ \A s \in Senders :
        /\ Held'[Sends(s)] = Elements(batch'[s])
        /\ Within'[Sends(s)] = Elements(batch'[s])
        /\ spc'[s] = "count" => Replied'[Sends(s)] = {Head(batch'[s])}
        /\ spc'[s] # "count" => Replied'[Sends(s)] = {}
  /\ \A k \in CallIds :
        /\ cst'[k] = "fail" => Held'[Calls(k)] = Elements(load'[k])
        /\ cst'[k] # "fail" /\ put'[k] = "signal" => Held'[Calls(k)] = Elements(Tail(todo'[k]))
        /\ cst'[k] # "fail" /\ put'[k] # "signal" => Held'[Calls(k)] = Elements(todo'[k])
        /\ cst'[k] # "resend" => Within'[Calls(k)] = Elements(todo'[k])
        /\ cst'[k] = "resend" => Within'[Calls(k)] = {}
        /\ cst'[k] = "count" => Replied'[Calls(k)] = {Head(todo'[k])}
        /\ cst'[k] # "count" => Replied'[Calls(k)] = {}
<1>1. InQueue \in Holders /\ InQueue[1] = "queue"
  BY HolderKinds DEF InQueue
<1>2. \A s \in Senders : Sends(s) \in Holders /\ Sends(s)[1] = "sender" /\ Sends(s)[2] = s
  BY HolderKinds DEF Sends
<1>3. \A k \in CallIds : Calls(k) \in Holders /\ Calls(k)[1] = "call" /\ Calls(k)[2] = k
  BY HolderKinds DEF Calls
<1>4. /\ Held'[InQueue] = Elements(queue')
      /\ Within'[InQueue] = Elements(queue')
      /\ Replied'[InQueue] = {}
  BY <1>1 DEF Held, Within, Replied, Elements
<1>5. ASSUME NEW s \in Senders
      PROVE  /\ Held'[Sends(s)] = Elements(batch'[s])
             /\ Within'[Sends(s)] = Elements(batch'[s])
             /\ spc'[s] = "count" => Replied'[Sends(s)] = {Head(batch'[s])}
             /\ spc'[s] # "count" => Replied'[Sends(s)] = {}
  BY <1>2 DEF Held, Within, Replied, Elements
<1>6. ASSUME NEW k \in CallIds
      PROVE  /\ cst'[k] = "fail" => Held'[Calls(k)] = Elements(load'[k])
             /\ cst'[k] # "fail" /\ put'[k] = "signal" => Held'[Calls(k)] = Elements(Tail(todo'[k]))
             /\ cst'[k] # "fail" /\ put'[k] # "signal" => Held'[Calls(k)] = Elements(todo'[k])
  BY <1>3 DEF Held, Owned, Elements
<1>7. ASSUME NEW k \in CallIds
      PROVE  /\ cst'[k] # "resend" => Within'[Calls(k)] = Elements(todo'[k])
             /\ cst'[k] = "resend" => Within'[Calls(k)] = {}
             /\ cst'[k] = "count" => Replied'[Calls(k)] = {Head(todo'[k])}
             /\ cst'[k] # "count" => Replied'[Calls(k)] = {}
  BY <1>3 DEF Within, Replied, Elements
<1>8. QED
  BY <1>4, <1>5, <1>6, <1>7

\* A holder whose data a step leaves alone.
SameAt(h) == Held'[h] = Held[h] /\ Within'[h] = Within[h] /\ Replied'[h] = Replied[h]

LEMMA SameHolders ==
  /\ queue' = queue => SameAt(InQueue)
  /\ \A s \in Senders :
        batch'[s] = batch[s] /\ ((spc'[s] = "count") <=> (spc[s] = "count")) => SameAt(Sends(s))
  /\ \A k \in CallIds :
        /\ cst'[k] = cst[k] /\ load'[k] = load[k] /\ todo'[k] = todo[k]
        /\ (put'[k] = "signal") <=> (put[k] = "signal")
        => SameAt(Calls(k))
<1>1. queue' = queue => SameAt(InQueue)
  BY HolderValues, HolderValuesAfter DEF SameAt
<1>2. ASSUME NEW s \in Senders, batch'[s] = batch[s], (spc'[s] = "count") <=> (spc[s] = "count")
      PROVE  SameAt(Sends(s))
  <2>1. Held'[Sends(s)] = Held[Sends(s)] /\ Within'[Sends(s)] = Within[Sends(s)]
    BY <1>2, HolderValues, HolderValuesAfter
  <2>2. CASE spc[s] = "count"
    <3>1. Replied'[Sends(s)] = {Head(batch[s])}
      BY <1>2, <2>2, HolderValuesAfter
    <3>2. QED
      BY <2>1, <2>2, <3>1, HolderValues DEF SameAt
  <2>3. CASE spc[s] # "count"
    <3>1. Replied'[Sends(s)] = {}
      BY <1>2, <2>3, HolderValuesAfter
    <3>2. QED
      BY <2>1, <2>3, <3>1, HolderValues DEF SameAt
  <2>4. QED
    BY <2>2, <2>3
<1>3. ASSUME NEW k \in CallIds, cst'[k] = cst[k], load'[k] = load[k], todo'[k] = todo[k],
             (put'[k] = "signal") <=> (put[k] = "signal")
      PROVE  SameAt(Calls(k))
  <2>1. Held'[Calls(k)] = Held[Calls(k)]
    BY <1>3, HolderValues, HolderValuesAfter DEF Owned
  <2>2. Within'[Calls(k)] = Within[Calls(k)]
    <3>1. CASE cst[k] = "resend"
      <4>1. Within'[Calls(k)] = {}
        BY <1>3, <3>1, HolderValuesAfter
      <4>2. QED
        BY <3>1, <4>1, HolderValues
    <3>2. CASE cst[k] # "resend"
      BY <1>3, <3>2, HolderValues, HolderValuesAfter
    <3>3. QED
      BY <3>1, <3>2
  <2>3. Replied'[Calls(k)] = Replied[Calls(k)]
    <3>1. CASE cst[k] = "count"
      <4>1. Replied'[Calls(k)] = {Head(todo[k])}
        BY <1>3, <3>1, HolderValuesAfter
      <4>2. QED
        BY <3>1, <4>1, HolderValues
    <3>2. CASE cst[k] # "count"
      <4>1. Replied'[Calls(k)] = {}
        BY <1>3, <3>2, HolderValuesAfter
      <4>2. QED
        BY <3>2, <4>1, HolderValues
    <3>3. QED
      BY <3>1, <3>2
  <2>4. QED
    BY <2>1, <2>2, <2>3 DEF SameAt
<1>4. QED
  BY <1>1, <1>2, <1>3

\* Sets that depend on the holders alone.
LEMMA SameEverything ==
  ASSUME NEW f, NEW g, \A h \in Holders : g[h] = f[h]
  PROVE  Everything(g) = Everything(f) /\ (Apart(f) => Apart(g))
BY DEF Everything, Apart

\* Counted, request by request.
LEMMA CountedIs ==
  \A r : r \in Counted <=>
      \/ r \in Elements(queue)
      \/ \E s \in Senders : r \in Elements(batch[s])
      \/ \E k \in CallIds : cst[k] # "resend" /\ r \in Elements(todo[k])
<1>1. SUFFICES ASSUME NEW r
              PROVE  r \in Counted <=>
                        \/ r \in Elements(queue)
                        \/ \E s \in Senders : r \in Elements(batch[s])
                        \/ \E k \in CallIds : cst[k] # "resend" /\ r \in Elements(todo[k])
  OBVIOUS
<1>2. ASSUME r \in Counted
      PROVE  \/ r \in Elements(queue)
             \/ \E s \in Senders : r \in Elements(batch[s])
             \/ \E k \in CallIds : cst[k] # "resend" /\ r \in Elements(todo[k])
  BY <1>2 DEF Counted
<1>3. ASSUME r \in Elements(queue) PROVE r \in Counted
  BY <1>3 DEF Counted
<1>4. ASSUME NEW s \in Senders, r \in Elements(batch[s]) PROVE r \in Counted
  BY <1>4 DEF Counted
<1>5. ASSUME NEW k \in CallIds, cst[k] # "resend", r \in Elements(todo[k])
      PROVE  r \in Counted
  BY <1>5 DEF Counted
<1>6. QED
  BY <1>2, <1>3, <1>4, <1>5

LEMMA CountedIsAfter ==
  \A r : r \in Counted' <=>
      \/ r \in Elements(queue')
      \/ \E s \in Senders : r \in Elements(batch'[s])
      \/ \E k \in CallIds : cst'[k] # "resend" /\ r \in Elements(todo'[k])
<1>1. SUFFICES ASSUME NEW r
              PROVE  r \in Counted' <=>
                        \/ r \in Elements(queue')
                        \/ \E s \in Senders : r \in Elements(batch'[s])
                        \/ \E k \in CallIds : cst'[k] # "resend" /\ r \in Elements(todo'[k])
  OBVIOUS
<1>2. ASSUME r \in Counted'
      PROVE  \/ r \in Elements(queue')
             \/ \E s \in Senders : r \in Elements(batch'[s])
             \/ \E k \in CallIds : cst'[k] # "resend" /\ r \in Elements(todo'[k])
  BY <1>2 DEF Counted, Elements
<1>3. ASSUME r \in Elements(queue') PROVE r \in Counted'
  BY <1>3 DEF Counted, Elements
<1>4. ASSUME NEW s \in Senders, r \in Elements(batch'[s]) PROVE r \in Counted'
  BY <1>4 DEF Counted, Elements
<1>5. ASSUME NEW k \in CallIds, cst'[k] # "resend", r \in Elements(todo'[k])
      PROVE  r \in Counted'
  BY <1>5 DEF Counted, Elements
<1>6. QED
  BY <1>2, <1>3, <1>4, <1>5

\* What is answered is in the count, and what is in the count is held.
LEMMA WithinHeld ==
  ASSUME IndInv, PlaceInv
  PROVE  /\ \A h \in Holders : Replied[h] \subseteq Within[h] /\ Within[h] \subseteq Held[h]
         /\ Counted = Everything(Within)
         /\ Apart(Within) /\ Apart(Replied)
<1>1. ASSUME NEW s \in Senders, spc[s] = "count"
      PROVE  Head(batch[s]) \in Elements(batch[s])
  <2>1. batch[s] \in Seq(Requests) /\ batch[s] # <<>>
    BY <1>1 DEF IndInv, Types, Shape, SenderShape
  <2>2. QED
    BY <2>1, TailElements
<1>2. ASSUME NEW k \in CallIds, cst[k] = "count"
      PROVE  Head(todo[k]) \in Elements(todo[k])
  <2>1. todo[k] \in Seq(Requests) /\ todo[k] # <<>>
    BY <1>2 DEF IndInv, Types, Shape, CallShape
  <2>2. QED
    BY <2>1, TailElements
<1>3. ASSUME NEW k \in CallIds, cst[k] # "resend"
      PROVE  Elements(todo[k]) \subseteq Owned(k)
  <2>1. put[k] = "no"
    BY <1>3, Owner DEF IndInv, Types, Shape, CallShape
  <2>2. QED
    BY <2>1 DEF Owned, PlaceInv, Data, CallData
<1>4. \A h \in Holders : Replied[h] \subseteq Within[h] /\ Within[h] \subseteq Held[h]
  <2>1. SUFFICES ASSUME NEW h \in Holders
                 PROVE  Replied[h] \subseteq Within[h] /\ Within[h] \subseteq Held[h]
    OBVIOUS
  <2>2. CASE h = InQueue
    BY <2>2, HolderValues
  <2>3. ASSUME NEW s \in Senders, h = Sends(s)
        PROVE  Replied[h] \subseteq Within[h] /\ Within[h] \subseteq Held[h]
    BY <1>1, <2>3, HolderValues
  <2>4. ASSUME NEW k \in CallIds, h = Calls(k)
        PROVE  Replied[h] \subseteq Within[h] /\ Within[h] \subseteq Held[h]
    <3>1. Replied[h] \subseteq Within[h]
      <4>1. CASE cst[k] = "count"
        BY <1>2, <2>4, <4>1, HolderValues
      <4>2. CASE cst[k] # "count"
        BY <2>4, <4>2, HolderValues
      <4>3. QED
        BY <4>1, <4>2
    <3>2. Within[h] \subseteq Held[h]
      BY <1>3, <2>4, HolderValues
    <3>3. QED
      BY <3>1, <3>2
  <2>5. QED
    BY <2>2, <2>3, <2>4, HolderKinds
<1>5. Counted = Everything(Within)
  <2>1. ASSUME NEW r \in Counted PROVE r \in Everything(Within)
    <3>1. CASE r \in Elements(queue)
      BY <3>1, HolderKinds, HolderValues DEF Everything
    <3>2. ASSUME NEW s \in Senders, r \in Elements(batch[s]) PROVE r \in Everything(Within)
      BY <3>2, HolderKinds, HolderValues DEF Everything
    <3>3. ASSUME NEW k \in CallIds, cst[k] # "resend", r \in Elements(todo[k])
          PROVE  r \in Everything(Within)
      BY <3>3, HolderKinds, HolderValues DEF Everything
    <3>4. QED
      BY <2>1, <3>1, <3>2, <3>3, CountedIs
  <2>2. ASSUME NEW h \in Holders, NEW r \in Within[h] PROVE r \in Counted
    <3>1. CASE h = InQueue
      BY <2>2, <3>1, HolderValues, CountedIs
    <3>2. ASSUME NEW s \in Senders, h = Sends(s) PROVE r \in Counted
      BY <2>2, <3>2, HolderValues, CountedIs
    <3>3. ASSUME NEW k \in CallIds, h = Calls(k) PROVE r \in Counted
      <4>1. cst[k] # "resend" /\ r \in Elements(todo[k])
        BY <2>2, <3>3, HolderValues
      <4>2. QED
        BY <4>1, CountedIs
    <3>4. QED
      BY <3>1, <3>2, <3>3, HolderKinds
  <2>3. QED
    BY <2>1, <2>2 DEF Everything
<1>6. Apart(Held)
  BY DEF PlaceInv
<1>7. QED
  BY <1>4, <1>5, <1>6 DEF Apart

LEMMA CountedAfter == Counted' = Everything(Within')
<1>1. ASSUME NEW r \in Counted' PROVE r \in Everything(Within')
  <2>1. CASE r \in Elements(queue')
    BY <2>1, HolderKinds, HolderValuesAfter DEF Everything
  <2>2. ASSUME NEW s \in Senders, r \in Elements(batch'[s]) PROVE r \in Everything(Within')
    BY <2>2, HolderKinds, HolderValuesAfter DEF Everything
  <2>3. ASSUME NEW k \in CallIds, cst'[k] # "resend", r \in Elements(todo'[k])
        PROVE  r \in Everything(Within')
    BY <2>3, HolderKinds, HolderValuesAfter DEF Everything
  <2>4. QED
    BY <1>1, <2>1, <2>2, <2>3, CountedIsAfter
<1>2. ASSUME NEW h \in Holders, NEW r \in Within'[h] PROVE r \in Counted'
  <2>1. CASE h = InQueue
    BY <1>2, <2>1, HolderValuesAfter, CountedIsAfter
  <2>2. ASSUME NEW s \in Senders, h = Sends(s) PROVE r \in Counted'
    BY <1>2, <2>2, HolderValuesAfter, CountedIsAfter
  <2>3. ASSUME NEW k \in CallIds, h = Calls(k) PROVE r \in Counted'
    <3>1. cst'[k] # "resend" /\ r \in Elements(todo'[k])
      BY <1>2, <2>3, HolderValuesAfter
    <3>2. QED
      BY <3>1, CountedIsAfter
  <2>4. QED
    BY <2>1, <2>2, <2>3, HolderKinds
<1>3. QED
  BY <1>1, <1>2 DEF Everything

------------------------------------------------------------------------------
(* What a step does to the requests                                         *)

Still ==
    /\ UNCHANGED <<answers, pending>> /\ Accepted' = Accepted
    /\ Counted' = Counted /\ Anywhere' = Anywhere /\ Ripe' = Ripe

\* A request reaches the queue, for the first time or again.
Comes(r) ==
    /\ r \notin Counted /\ answers[r] = 0 /\ r \notin Ripe
    /\ answers' = answers /\ pending' = pending + 1 /\ Accepted' = Accepted \cup {r}
    /\ Counted' = Counted \cup {r} /\ Anywhere' = Anywhere \cup {r} /\ Ripe' = Ripe

\* Its callback runs.
Replies(r) ==
    /\ r \in Counted /\ answers[r] = 0
    /\ answers' = [answers EXCEPT ![r] = @ + 1]
    /\ UNCHANGED pending /\ Accepted' = Accepted
    /\ Counted' = Counted /\ Anywhere' = Anywhere /\ Ripe' = Ripe \cup {r}

\* It leaves the count with its answer.
Retires(r) ==
    /\ r \in Counted /\ r \in Ripe
    /\ answers' = answers /\ pending' = pending - 1 /\ Accepted' = Accepted
    /\ Counted' = Counted \ {r} /\ Anywhere' = Anywhere \ {r} /\ Ripe' = Ripe \ {r}

\* It leaves the count without one, because its response failed.
IsSetAside(r) ==
    /\ MaxFailures > 0 /\ r \in Counted /\ answers[r] = 0
    /\ answers' = answers /\ pending' = pending - 1 /\ Accepted' = Accepted
    /\ Counted' = Counted \ {r} /\ Anywhere' = Anywhere /\ Ripe' = Ripe

\* Stop drops what is queued.
Closes ==
    /\ stop # "stopped" /\ stop' = "stopped"
    /\ UNCHANGED <<answers, pending, issued>> /\ Accepted' = Accepted
    /\ Counted = Anywhere /\ Ripe = {} /\ Anywhere' = {} /\ Ripe' = {} /\ Counted' = {}
    /\ Accepted = {r \in Requests : r[2] <= issued[r[1]]}

Effect ==
    \/ Still
    \/ \E r \in Requests : Comes(r) \/ Replies(r) \/ Retires(r) \/ IsSetAside(r)
    \/ Closes
Placed == Data' /\ Apart(Held') /\ Effect

\* What is held is a request, and what is answered is counted, and that is held.
LEMMA Nested ==
  ASSUME IndInv, PlaceInv
  PROVE  Ripe \subseteq Counted /\ Counted \subseteq Anywhere /\ Anywhere \subseteq Requests
BY WithinHeld DEF Everything, Ripe, Anywhere, PlaceInv, Fates, Accepted

LEMMA FatesStep ==
  ASSUME IndInv, PlaceInv, Effect, stop = "stopped" => stop' = "stopped"
  PROVE  Fates'
<1>1. /\ Ripe \subseteq Counted /\ Counted \subseteq Anywhere /\ Anywhere \subseteq Requests
      /\ answers \in [Requests -> Nat] /\ pending \in Int
  BY Nested DEF IndInv, Types
<1>2. /\ Anywhere \subseteq Accepted
      /\ \A r \in Requests : answers[r] > 0 => r \in Accepted
      /\ \A r \in Anywhere : answers[r] > 0 <=> r \in Ripe
      /\ stop # "stopped" =>
            /\ \A r \in Accepted : answers[r] = 0 => r \in Anywhere
            /\ IsFiniteSet(Counted) /\ pending = Cardinality(Counted)
  BY DEF PlaceInv, Fates
<1>3. CASE Still
  <2>1. /\ Anywhere' \subseteq Accepted'
        /\ \A r \in Requests : answers'[r] > 0 => r \in Accepted'
        /\ \A r \in Anywhere' : answers'[r] > 0 <=> r \in Ripe'
    BY <1>2, <1>3 DEF Still
  <2>2. ASSUME stop' # "stopped"
        PROVE  /\ \A r \in Accepted' : answers'[r] = 0 => r \in Anywhere'
               /\ IsFiniteSet(Counted') /\ pending' = Cardinality(Counted')
    BY <1>2, <1>3, <2>2 DEF Still
  <2>3. QED
    BY <2>1, <2>2 DEF Fates
<1>4. CASE \E r \in Requests : Comes(r) \/ Replies(r) \/ Retires(r) \/ IsSetAside(r)
  <2>1. PICK r \in Requests : Comes(r) \/ Replies(r) \/ Retires(r) \/ IsSetAside(r)
    BY <1>4
  <2>2. CASE Comes(r)
    <3>1. Anywhere' \subseteq Accepted' /\ \A x \in Requests : answers'[x] > 0 => x \in Accepted'
      BY <1>2, <2>2 DEF Comes
    <3>2. \A x \in Anywhere' : answers'[x] > 0 <=> x \in Ripe'
      BY <1>2, <2>2 DEF Comes
    <3>3. ASSUME stop' # "stopped"
          PROVE  /\ \A x \in Accepted' : answers'[x] = 0 => x \in Anywhere'
                 /\ IsFiniteSet(Counted') /\ pending' = Cardinality(Counted')
      <4>1. IsFiniteSet(Counted) /\ pending = Cardinality(Counted)
        BY <1>2, <3>3
      <4>2. IsFiniteSet(Counted') /\ Cardinality(Counted') = Cardinality(Counted) + 1
        BY <2>2, <4>1, FS_AddElement DEF Comes
      <4>3. QED
        BY <1>2, <2>2, <3>3, <4>1, <4>2 DEF Comes
    <3>4. QED
      BY <3>1, <3>2, <3>3 DEF Fates
  <2>3. CASE Replies(r)
    <3>1. /\ answers'[r] = 1 /\ r \in Ripe' /\ r \in Accepted
          /\ \A x \in Requests \ {r} : answers'[x] = answers[x] /\ (x \in Ripe' <=> x \in Ripe)
      BY <1>1, <1>2, <2>3 DEF Replies
    <3>2. Anywhere' \subseteq Accepted' /\ \A x \in Requests : answers'[x] > 0 => x \in Accepted'
      BY <1>2, <2>3, <3>1 DEF Replies
    <3>3. \A x \in Anywhere' : answers'[x] > 0 <=> x \in Ripe'
      BY <1>1, <1>2, <2>3, <3>1 DEF Replies
    <3>4. ASSUME stop' # "stopped"
          PROVE  /\ \A x \in Accepted' : answers'[x] = 0 => x \in Anywhere'
                 /\ IsFiniteSet(Counted') /\ pending' = Cardinality(Counted')
      <4>1. Accepted \subseteq Requests
        BY DEF Accepted
      <4>2. QED
        BY <1>2, <2>3, <3>1, <3>4, <4>1 DEF Replies
    <3>5. QED
      BY <3>2, <3>3, <3>4 DEF Fates
  <2>4. CASE Retires(r)
    <3>1. Anywhere' \subseteq Accepted' /\ \A x \in Requests : answers'[x] > 0 => x \in Accepted'
      BY <1>2, <2>4 DEF Retires
    <3>2. \A x \in Anywhere' : answers'[x] > 0 <=> x \in Ripe'
      BY <1>2, <2>4 DEF Retires
    <3>3. ASSUME stop' # "stopped"
          PROVE  /\ \A x \in Accepted' : answers'[x] = 0 => x \in Anywhere'
                 /\ IsFiniteSet(Counted') /\ pending' = Cardinality(Counted')
      <4>1. IsFiniteSet(Counted) /\ pending = Cardinality(Counted)
        BY <1>2, <3>3
      <4>2. IsFiniteSet(Counted') /\ Cardinality(Counted') = Cardinality(Counted) - 1
        BY <2>4, <4>1, FS_RemoveElement DEF Retires
      <4>3. answers[r] > 0
        BY <1>1, <1>2, <2>4 DEF Retires
      <4>4. QED
        BY <1>2, <2>4, <3>3, <4>1, <4>2, <4>3 DEF Retires
    <3>4. QED
      BY <3>1, <3>2, <3>3 DEF Fates
  <2>5. CASE IsSetAside(r)
    <3>1. Anywhere' \subseteq Accepted' /\ \A x \in Requests : answers'[x] > 0 => x \in Accepted'
      BY <1>2, <2>5 DEF IsSetAside
    <3>2. \A x \in Anywhere' : answers'[x] > 0 <=> x \in Ripe'
      BY <1>2, <2>5 DEF IsSetAside
    <3>3. ASSUME stop' # "stopped"
          PROVE  /\ \A x \in Accepted' : answers'[x] = 0 => x \in Anywhere'
                 /\ IsFiniteSet(Counted') /\ pending' = Cardinality(Counted')
      <4>1. IsFiniteSet(Counted) /\ pending = Cardinality(Counted)
        BY <1>2, <3>3
      <4>2. IsFiniteSet(Counted') /\ Cardinality(Counted') = Cardinality(Counted) - 1
        BY <2>5, <4>1, FS_RemoveElement DEF IsSetAside
      <4>3. QED
        BY <1>2, <2>5, <3>3, <4>1, <4>2 DEF IsSetAside
    <3>4. QED
      BY <3>1, <3>2, <3>3 DEF Fates
  <2>6. QED
    BY <2>1, <2>2, <2>3, <2>4, <2>5
<1>5. CASE Closes
  BY <1>2, <1>5 DEF Closes, Fates
<1>6. QED
  BY <1>3, <1>4, <1>5 DEF Effect

\* A request on its way to the queue is its client's latest.
LEMMA RequestParts ==
  \A r \in Requests : r[1] \in Clients /\ r[2] \in Nat /\ r = <<r[1], r[2]>>
<1>1. SUFFICES ASSUME NEW r \in Requests, NEW x \in Clients, r \in RequestsOf(x)
               PROVE  r[1] \in Clients /\ r[2] \in Nat /\ r = <<r[1], r[2]>>
  BY DEF Requests
<1>2. PICK i \in 1..Limit(x) : r = <<x, i>>
  BY <1>1 DEF RequestsOf
<1>3. i \in Nat
  BY <1>2, LimitIsNat
<1>4. QED
  BY <1>2, <1>3

LEMMA GivenSame ==
  ASSUME issued' = issued,
         \A x \in Clients : put'[x] \in {"slot", "push"} <=> put[x] \in {"slot", "push"}
  PROVE  Accepted' = Accepted
BY RequestParts DEF Accepted

\* A step that leaves every holder alone.
LEMMA StillStep ==
  ASSUME IndInv, PlaceInv, \A h \in Holders : SameAt(h),
         UNCHANGED <<answers, pending>>, Accepted' = Accepted
  PROVE  Still /\ Apart(Held')
<1>1. /\ Everything(Held') = Everything(Held)
      /\ Everything(Within') = Everything(Within)
      /\ Everything(Replied') = Everything(Replied)
  BY SameEverything DEF SameAt
<1>2. Apart(Held')
  BY SameEverything DEF SameAt, PlaceInv
<1>3. Anywhere' = Anywhere
  BY <1>1 DEF Anywhere, Everything
<1>4. Ripe' = Ripe
  BY <1>1 DEF Ripe, Everything
<1>5. Counted' = Counted
  BY <1>1, WithinHeld, CountedAfter
<1>6. QED
  BY <1>2, <1>3, <1>4, <1>5 DEF Still

\* The steps that move no request.
Unmoved ==
    /\ UNCHANGED <<queue, batch, load, todo, answers, pending>>
    /\ Accepted' = Accepted
    /\ \A s \in Senders :
          /\ spc'[s] = spc[s] \/ (spc'[s] # "count" /\ spc[s] # "count")
          /\ spc'[s] \notin {"release", "send", "answer", "count"} =>
                spc[s] \notin {"release", "send", "answer", "count"} \/ batch[s] = <<>>

LEMMA UnmovedStep ==
  ASSUME IndInv, PlaceInv, Unmoved, UNCHANGED cst,
         \A k \in CallIds : put'[k] = "signal" <=> put[k] = "signal"
  PROVE  Placed
<1>1. \A h \in Holders : SameAt(h)
  BY HolderKinds, SameHolders DEF Unmoved
<1>2. Still /\ Apart(Held')
  BY <1>1, StillStep DEF Unmoved
<1>3. Sequenced'
  BY DEF Unmoved, PlaceInv, Data, Sequenced, Distinct
<1>4. CallData'
  <2>1. /\ cst' = cst /\ load' = load /\ todo' = todo /\ Accepted' = Accepted
    BY DEF Unmoved
  <2>2. CallData
    BY DEF PlaceInv, Data
  <2>3. QED
    BY <2>1, <2>2 DEF CallData, Elements
<1>5. BatchData'
  BY DEF Unmoved, PlaceInv, Data, BatchData
<1>6. QED
  BY <1>2, <1>3, <1>4, <1>5 DEF Placed, Data, Effect

------------------------------------------------------------------------------
(* The steps, one by one                                                    *)

\* A step that changes one holder, and what it answers for and what of that is
\* in the count and answered stay the same.
LEMMA OneHolder ==
  ASSUME IndInv, PlaceInv, NEW a \in Holders, SameAt(a),
         \A h \in Holders \ {a} : SameAt(h),
         UNCHANGED <<answers, pending>>, Accepted' = Accepted, Data'
  PROVE  Placed
BY StillStep DEF Placed, Effect

LEMMA CallSame ==
  ASSUME NEW k \in CallIds, UNCHANGED <<queue, batch, spc>>,
         \A l \in CallIds \ {k} :
            /\ cst'[l] = cst[l] /\ load'[l] = load[l] /\ todo'[l] = todo[l]
            /\ (put'[l] = "signal") <=> (put[l] = "signal")
  PROVE  \A h \in Holders \ {Calls(k)} : SameAt(h)
BY HolderKinds, SameHolders

LEMMA SenderSame ==
  ASSUME NEW s \in Senders, UNCHANGED <<queue, cst, load, todo, put>>,
         \A t \in Senders \ {s} : batch'[t] = batch[t] /\ spc'[t] = spc[t]
  PROVE  \A h \in Holders \ {Sends(s)} : SameAt(h)
BY HolderKinds, SameHolders

\* A step that leaves the calls alone keeps what is said of them.
LEMMA CallDataSame ==
  ASSUME PlaceInv, UNCHANGED <<cst, load, todo>>, Accepted \subseteq Accepted'
  PROVE  CallData'
<1>1. CallData
  BY DEF PlaceInv, Data
<1>2. \A k \in CallIds : Elements(load[k]) \subseteq Accepted'
  BY <1>1 DEF CallData
<1>3. QED
  BY <1>1, <1>2 DEF CallData, Elements

\* A putter puts a request into the queue.
LEMMA PushPlaces ==
  ASSUME IndInv, PlaceInv, NEW p \in Putters, Push(p)
  PROVE  Placed
<1> DEFINE r == Item(p)
<1>1. /\ put[p] = "push" /\ pending' = pending + 1
      /\ queue' = Append(queue, r) /\ put' = [put EXCEPT ![p] = "signal"]
      /\ UNCHANGED <<batch, spc, cst, load, todo, answers, issued>>
  BY DEF Push, PendingUp, senderVars, callVars, tallyVars
<1>2. r \in Requests /\ queue \in Seq(Requests)
  BY <1>1, ClientItem DEF IndInv, Types
<1>3. put \in [Putters -> {"no", "slot", "push", "signal"}]
  BY DEF IndInv, Types
<1>4. /\ Elements(queue') = Elements(queue) \cup {r}
      /\ r \notin Elements(queue) => Distinct(queue')
  BY <1>1, <1>2, AppendElements DEF PlaceInv, Data, Sequenced
<1> HIDE DEF r
<1>5. /\ Held'[InQueue] = Held[InQueue] \cup {r}
      /\ Within'[InQueue] = Within[InQueue] \cup {r}
      /\ Replied'[InQueue] = Replied[InQueue]
  BY <1>4, HolderValues, HolderValuesAfter
<1>6. \A s \in Senders : SameAt(Sends(s))
  BY <1>1, SameHolders
<1>7. \A k \in CallIds \ {p} : SameAt(Calls(k))
  BY <1>1, <1>3, SameHolders
<1>8. /\ Ripe \subseteq Counted /\ Counted \subseteq Anywhere /\ Anywhere \subseteq Accepted
      /\ Counted = Everything(Within) /\ Apart(Within) /\ Apart(Replied) /\ Apart(Held)
      /\ \A h \in Holders : Replied[h] \subseteq Within[h] /\ Within[h] \subseteq Held[h]
      /\ answers \in [Requests -> Nat]
  BY Nested, WithinHeld DEF PlaceInv, Fates, IndInv, Types
<1>9. ASSUME r \notin Elements(queue), Accepted \subseteq Accepted'
      PROVE  Data'
  <2>1. Sequenced'
    BY <1>1, <1>4, <1>9 DEF PlaceInv, Data, Sequenced, Distinct
  <2>a. UNCHANGED <<cst, load, todo>>
    BY <1>1
  <2>2. CallData'
    BY <1>9, <2>a, CallDataSame
  <2>3. BatchData'
    BY <1>1 DEF PlaceInv, Data, BatchData
  <2>4. QED
    BY <2>1, <2>2, <2>3 DEF Data
<1>10. CASE p \in CallIds
  <2>1. /\ cst[p] = "resend" /\ todo[p] \in Seq(Requests) /\ todo[p] # <<>>
        /\ r = Head(todo[p])
    BY <1>1, <1>10 DEF IndInv, Types, Shape, CallShape, Item, r
  <2>2. /\ Held[Calls(p)] = Elements(todo[p]) /\ Held'[Calls(p)] = Elements(Tail(todo[p]))
        /\ Within[Calls(p)] = {} /\ Within'[Calls(p)] = {}
    BY <1>1, <1>3, <1>10, <2>1, HolderValues, HolderValuesAfter DEF Owned
  <2>3. Replied[Calls(p)] = {} /\ Replied'[Calls(p)] = {}
    BY <1>1, <1>10, <2>1, HolderValues, HolderValuesAfter
  <2>4. /\ Held'[Calls(p)] \cup {r} = Held[Calls(p)] /\ Held'[Calls(p)] \cap {r} = {}
    BY <1>10, <2>1, <2>2, TailElements DEF PlaceInv, Data, Sequenced
  <2>5. InQueue \in Holders /\ Calls(p) \in Holders /\ Calls(p) # InQueue
    BY <1>10, HolderKinds
  <2>6. \A h \in Holders \ {InQueue, Calls(p)} : SameAt(h)
    BY <1>6, <1>7, HolderKinds
  <2>7. Everything(Held') = Everything(Held) /\ Apart(Held')
    <3>1. \A h \in Holders \ {Calls(p), InQueue} : Held'[h] = Held[h]
      BY <2>6 DEF SameAt
    <3>2. Held'[InQueue] = Held[InQueue] \cup {r} /\ Apart(Held)
      BY <1>5, <1>8
    <3>3. Everything(Held') = Everything(Held)
      <4>1. \A h \in Holders : Held'[h] \subseteq Everything(Held)
        BY <2>4, <2>5, <3>1, <3>2 DEF Everything
      <4>2. \A h \in Holders : Held[h] \subseteq Everything(Held')
        BY <2>4, <2>5, <3>1, <3>2 DEF Everything
      <4>3. QED
        BY <4>1, <4>2 DEF Everything
    <3>4. Apart(Held')
      BY <2>4, <2>5, <3>1, <3>2 DEF Apart
    <3>5. QED
      BY <3>3, <3>4
  <2>8. \A h \in Holders \ {Calls(p)} : r \notin Held[h]
    BY <1>8, <2>4, <2>5 DEF Apart
  <2>9. r \notin Counted
    BY <1>8, <2>2, <2>8 DEF Everything
  <2>10. Counted' = Counted \cup {r}
    <3>1. \A h \in Holders \ {InQueue} : Within'[h] = Within[h]
      BY <2>2, <2>6 DEF SameAt
    <3>2. Everything(Within') = Everything(Within) \cup {r}
      <4>1. r \notin Everything(Within) /\ Within'[InQueue] = Within[InQueue] \cup {r}
        BY <1>5, <1>8, <2>9
      <4>2. QED
        BY <2>5, <3>1, <4>1 DEF Everything
    <3>3. QED
      BY <1>8, <3>2, CountedAfter
  <2>11. Ripe' = Ripe
    <3>1. \A h \in Holders : Replied'[h] = Replied[h]
      BY <1>5, <2>3, <2>6 DEF SameAt
    <3>2. QED
      BY <3>1 DEF Ripe, Everything
  <2>12. Anywhere' = Anywhere /\ r \in Anywhere
    BY <2>4, <2>5, <2>7 DEF Anywhere, Everything
  <2>13. answers[r] = 0 /\ r \notin Ripe
    BY <1>2, <1>8, <2>9, <2>12 DEF PlaceInv, Fates
  <2>14. Accepted' = Accepted
    <3>1. p \notin Clients
      BY <1>10, Owner
    <3>2. Clients \subseteq Putters
      BY DEF Putters
    <3>3. QED
      BY <1>1, <1>3, <3>1, <3>2, GivenSame
  <2>15. r \in Accepted
    BY <1>8, <2>12
  <2>16. Comes(r)
    BY <1>1, <2>9, <2>10, <2>11, <2>12, <2>13, <2>14, <2>15 DEF Comes
  <2>17. Data'
    BY <1>9, <2>5, <2>8, <2>14, HolderValues
  <2>18. QED
    BY <1>2, <2>7, <2>16, <2>17 DEF Placed, Effect
<1>11. CASE p \notin CallIds
  <2>1. p \in Clients /\ Clients \subseteq Putters /\ r = <<p, issued[p]>> /\ issued[p] \in Nat
    BY <1>11 DEF Putters, Item, IndInv, Types, r
  <2>2. \A h \in Holders \ {InQueue} : SameAt(h)
    BY <1>6, <1>7, <1>11, HolderKinds
  <2>3. r \notin Accepted
    BY <1>1, <2>1 DEF Accepted
  <2>4. Accepted' = Accepted \cup {r}
    <3>1. \A x \in Requests : x[1] \in Clients /\ x[2] \in Nat /\ x = <<x[1], x[2]>>
      BY RequestParts
    <3>2. put'[p] = "signal" /\ \A x \in Clients \ {p} : put'[x] = put[x]
      BY <1>1, <1>3, <2>1
    <3>3. r \in Accepted'
      BY <1>1, <1>2, <2>1, <3>2 DEF Accepted
    <3>4. ASSUME NEW x \in Requests, x # r PROVE x \in Accepted' <=> x \in Accepted
      <4>1. CASE x[1] = p
        <5>1. x[2] # issued[p]
          BY <2>1, <3>1, <3>4, <4>1
        <5>2. QED
          BY <1>1, <4>1, <5>1 DEF Accepted
      <4>2. CASE x[1] # p
        BY <1>1, <3>1, <3>2, <4>2 DEF Accepted
      <4>3. QED
        BY <4>1, <4>2
    <3>5. Accepted \subseteq Requests /\ Accepted' \subseteq Requests
      BY DEF Accepted
    <3>6. QED
      BY <1>2, <3>3, <3>4, <3>5
  <2>5. r \notin Anywhere /\ r \notin Counted /\ r \notin Ripe
    BY <1>8, <2>3
  <2>6. answers[r] = 0
    BY <1>2, <1>8, <2>3 DEF PlaceInv, Fates
  <2>7. InQueue \in Holders
    BY HolderKinds
  <2>8. Everything(Held') = Everything(Held) \cup {r} /\ Apart(Held')
    <3>1. \A h \in Holders \ {InQueue} : Held'[h] = Held[h]
      BY <2>2 DEF SameAt
    <3>2. /\ Held'[InQueue] = Held[InQueue] \cup {r} /\ Apart(Held)
          /\ r \notin Everything(Held)
      BY <1>5, <1>8, <2>5 DEF Anywhere
    <3>3. Everything(Held') = Everything(Held) \cup {r}
      BY <2>7, <3>1, <3>2 DEF Everything
    <3>4. Apart(Held')
      BY <2>7, <3>1, <3>2 DEF Apart, Everything
    <3>5. QED
      BY <3>3, <3>4
  <2>9. Anywhere' = Anywhere \cup {r}
    BY <2>8 DEF Anywhere, Everything
  <2>10. Everything(Within') = Everything(Within) \cup {r}
    <3>1. \A h \in Holders \ {InQueue} : Within'[h] = Within[h]
      BY <2>2 DEF SameAt
    <3>2. r \notin Everything(Within) /\ Within'[InQueue] = Within[InQueue] \cup {r}
      BY <1>5, <1>8, <2>5
    <3>3. QED
      BY <2>7, <3>1, <3>2 DEF Everything
  <2>11. Counted' = Counted \cup {r}
    BY <1>8, <2>10, CountedAfter
  <2>12. Ripe' = Ripe
    BY <1>5, <2>2 DEF SameAt, Ripe, Everything
  <2>13. Comes(r)
    BY <1>1, <2>4, <2>5, <2>6, <2>9, <2>11, <2>12 DEF Comes
  <2>14. Data'
    <3>1. r \notin Elements(queue)
      BY <2>5, <2>7, HolderValues DEF Anywhere, Everything
    <3>2. QED
      BY <1>9, <2>4, <3>1
  <2>15. QED
    BY <1>2, <2>8, <2>13, <2>14 DEF Placed, Effect
<1>12. QED
  BY <1>10, <1>11

\* The callback of a request runs, at a sender or at a call.
LEMMA ReplyAt ==
  ASSUME IndInv, PlaceInv, NEW a \in Holders, \A h \in Holders \ {a} : SameAt(h),
         NEW r, r \in Within[a], Held'[a] = Held[a], Within'[a] = Within[a],
         Replied[a] = {}, Replied'[a] = {r},
         answers' = [answers EXCEPT ![r] = @ + 1], pending' = pending, Accepted' = Accepted
  PROVE  r \in Requests /\ Replies(r) /\ Apart(Held')
<1>1. /\ Ripe \subseteq Counted /\ Counted \subseteq Anywhere /\ Anywhere \subseteq Requests
      /\ Counted = Everything(Within) /\ Apart(Held)
      /\ \A h \in Holders : Replied[h] \subseteq Within[h] /\ Within[h] \subseteq Held[h]
      /\ answers \in [Requests -> Nat]
  BY Nested, WithinHeld DEF PlaceInv, IndInv, Types
<1>2. r \in Counted /\ r \in Anywhere /\ r \in Requests
  BY <1>1 DEF Everything
<1>3. r \notin Ripe
  BY <1>1 DEF Ripe, Everything, Apart, SameAt
<1>4. answers[r] = 0
  BY <1>1, <1>2, <1>3 DEF PlaceInv, Fates
<1>5. \A h \in Holders : Held'[h] = Held[h] /\ Within'[h] = Within[h]
  BY DEF SameAt
<1>6. Anywhere' = Anywhere /\ Apart(Held')
  BY <1>1, <1>5 DEF Anywhere, Everything, Apart
<1>7. Counted' = Counted
  <2>1. Everything(Within') = Everything(Within)
    BY <1>5 DEF Everything
  <2>2. QED
    BY <1>1, <2>1, CountedAfter
<1>8. Ripe' = Ripe \cup {r}
  <2>1. \A h \in Holders \ {a} : Replied'[h] = Replied[h]
    BY DEF SameAt
  <2>2. QED
    BY <2>1 DEF Ripe, Everything
<1>9. QED
  BY <1>2, <1>4, <1>6, <1>7, <1>8 DEF Replies

\* An answered request leaves the count, at a sender or at a call.
LEMMA RetireAt ==
  ASSUME IndInv, PlaceInv, NEW a \in Holders, \A h \in Holders \ {a} : SameAt(h),
         NEW r, Held'[a] = Held[a] \ {r}, Within'[a] = Within[a] \ {r},
         Replied[a] = {r}, Replied'[a] = {},
         answers' = answers, pending' = pending - 1, Accepted' = Accepted
  PROVE  r \in Requests /\ Retires(r) /\ Apart(Held')
<1>1. /\ Ripe \subseteq Counted /\ Counted \subseteq Anywhere /\ Anywhere \subseteq Requests
      /\ Counted = Everything(Within) /\ Apart(Held)
      /\ \A h \in Holders : Replied[h] \subseteq Within[h] /\ Within[h] \subseteq Held[h]
  BY Nested, WithinHeld DEF PlaceInv
<1>2. r \in Ripe /\ r \in Held[a]
  BY <1>1 DEF Ripe, Everything
<1>3. \A h \in Holders \ {a} : /\ r \notin Held[h] /\ r \notin Within[h] /\ r \notin Replied[h]
                               /\ Held'[h] = Held[h] /\ Within'[h] = Within[h]
                               /\ Replied'[h] = Replied[h]
  <2>1. \A h \in Holders \ {a} : r \notin Held[h]
    BY <1>1, <1>2 DEF Apart
  <2>2. QED
    BY <1>1, <2>1 DEF SameAt
<1>4. Anywhere' = Anywhere \ {r}
  BY <1>3 DEF Anywhere, Everything
<1>5. Apart(Held')
  BY <1>1, <1>3 DEF Apart
<1>6. Counted' = Counted \ {r}
  <2>1. Everything(Within') = Everything(Within) \ {r}
    BY <1>3 DEF Everything
  <2>2. QED
    BY <1>1, <2>1, CountedAfter
<1>7. Ripe' = Ripe \ {r}
  BY <1>3 DEF Ripe, Everything
<1>8. QED
  BY <1>1, <1>2, <1>4, <1>5, <1>6, <1>7 DEF Retires

\* The data of the calls after a step that changes one call at most.
LEMMA OneCallMoves ==
  ASSUME PlaceInv, NEW k \in CallIds,
         Distinct(queue') /\ \A s \in Senders : Distinct(batch'[s]),
         \A l \in CallIds \ {k} : cst'[l] = cst[l] /\ load'[l] = load[l] /\ todo'[l] = todo[l],
         Accepted' = Accepted,
         Distinct(todo'[k]) /\ Distinct(load'[k]),
         /\ cst'[k] \in {"free", "release"} => todo'[k] = <<>>
         /\ cst'[k] = "free" => load'[k] = <<>>
         /\ cst'[k] \in {"flying", "lost"} => todo'[k] = load'[k]
         /\ cst'[k] \in {"fail", "resend"} => Elements(todo'[k]) \subseteq Elements(load'[k])
         /\ cst'[k] \in {"fail", "resend"} => MaxFailures > 0
         /\ Elements(load'[k]) \subseteq Accepted
  PROVE  Sequenced' /\ CallData'
<1>1. Sequenced /\ CallData
  BY DEF PlaceInv, Data
<1>2. \A l \in CallIds : Distinct(todo'[l]) /\ Distinct(load'[l])
  BY <1>1 DEF Sequenced
<1>3. Sequenced'
  BY <1>2 DEF Sequenced, Distinct
<1>4. ASSUME NEW l \in CallIds
      PROVE  /\ cst'[l] \in {"free", "release"} => todo'[l] = <<>>
             /\ cst'[l] = "free" => load'[l] = <<>>
             /\ cst'[l] \in {"flying", "lost"} => todo'[l] = load'[l]
             /\ cst'[l] \in {"fail", "resend"} => Elements(todo'[l]) \subseteq Elements(load'[l])
             /\ cst'[l] \in {"fail", "resend"} => MaxFailures > 0
             /\ Elements(load'[l]) \subseteq Accepted'
  <2>1. CASE l = k
    BY <2>1
  <2>2. CASE l # k
    BY <1>1, <2>2 DEF CallData
  <2>3. QED
    BY <2>1, <2>2
<1>5. CallData'
  BY <1>4 DEF CallData, Elements
<1>6. QED
  BY <1>3, <1>5

LEMMA OneCallData ==
  ASSUME PlaceInv, NEW k \in CallIds, UNCHANGED <<queue, batch>>,
         \A l \in CallIds \ {k} : cst'[l] = cst[l] /\ load'[l] = load[l] /\ todo'[l] = todo[l],
         Accepted' = Accepted,
         Distinct(todo'[k]) /\ Distinct(load'[k]),
         /\ cst'[k] \in {"free", "release"} => todo'[k] = <<>>
         /\ cst'[k] = "free" => load'[k] = <<>>
         /\ cst'[k] \in {"flying", "lost"} => todo'[k] = load'[k]
         /\ cst'[k] \in {"fail", "resend"} => Elements(todo'[k]) \subseteq Elements(load'[k])
         /\ cst'[k] \in {"fail", "resend"} => MaxFailures > 0
         /\ Elements(load'[k]) \subseteq Accepted
  PROVE  Sequenced' /\ CallData'
<1>1. Distinct(queue') /\ \A s \in Senders : Distinct(batch'[s])
  BY DEF PlaceInv, Data, Sequenced
<1>2. QED
  BY <1>1, OneCallMoves

\* What the invariants say of a call.
LEMMA CallFacts ==
  ASSUME IndInv, PlaceInv, NEW k \in CallIds
  PROVE  /\ todo[k] \in Seq(Requests) /\ load[k] \in Seq(Requests)
         /\ Distinct(todo[k]) /\ Distinct(load[k]) /\ Elements(load[k]) \subseteq Accepted
         /\ cst[k] # "resend" => put[k] = "no"
         /\ cst[k] \in {"answer", "count", "fail", "resend"} => todo[k] # <<>>
         /\ cst[k] \in {"free", "release"} => todo[k] = <<>>
         /\ cst[k] \in {"flying", "lost"} => todo[k] = load[k]
         /\ cst[k] \in {"fail", "resend"} => Elements(todo[k]) \subseteq Elements(load[k])
         /\ cst[k] \in {"fail", "resend"} => MaxFailures > 0
<1>1. /\ todo[k] \in Seq(Requests) /\ load[k] \in Seq(Requests)
      /\ cst[k] \in {"answer", "count", "fail", "resend"} => todo[k] # <<>>
      /\ cst[k] # "resend" => put[k] = "no"
  BY DEF IndInv, Types, Shape, CallShape
<1>2. Distinct(todo[k]) /\ Distinct(load[k])
  BY DEF PlaceInv, Data, Sequenced
<1>3. /\ Elements(load[k]) \subseteq Accepted
      /\ cst[k] \in {"free", "release"} => todo[k] = <<>>
      /\ cst[k] \in {"flying", "lost"} => todo[k] = load[k]
      /\ cst[k] \in {"fail", "resend"} => Elements(todo[k]) \subseteq Elements(load[k])
      /\ cst[k] \in {"fail", "resend"} => MaxFailures > 0
  BY DEF PlaceInv, Data, CallData
<1>4. QED
  BY <1>1, <1>2, <1>3

\* The steps of a call leave the clients alone.
LEMMA CallKeeps ==
  ASSUME IndInv, PlaceInv, NEW k \in CallIds, CallingBack(k)
  PROVE  /\ UNCHANGED <<queue, batch, spc, issued>> /\ Accepted' = Accepted /\ BatchData'
         /\ \A l \in CallIds \ {k} : /\ cst'[l] = cst[l] /\ load'[l] = load[l]
                                     /\ todo'[l] = todo[l] /\ put'[l] = put[l]
<1>1. UNCHANGED <<queue, batch, spc, issued>>
  BY DEF CallingBack, Deliver, Answer, Count, Fail, FailCount, ReleasePermit,
         queueVars, callerVars, senderVars
<1>2. /\ put' = put \/ put' = [put EXCEPT ![k] = "slot"]
      /\ \A l \in CallIds \ {k} : cst'[l] = cst[l] /\ load'[l] = load[l] /\ todo'[l] = todo[l]
  BY DEF CallingBack, Deliver, Answer, Count, Fail, FailCount, ReleasePermit,
         callerVars, IndInv, Types
<1>3. k \notin Clients /\ Clients \subseteq Putters
      /\ put \in [Putters -> {"no", "slot", "push", "signal"}]
  BY Owner DEF Putters, IndInv, Types
<1>4. \A x \in Putters \ {k} : put'[x] = put[x]
  BY <1>2, <1>3
<1>5. Accepted' = Accepted
  BY <1>1, <1>3, <1>4, GivenSame
<1>6. BatchData'
  BY <1>1 DEF PlaceInv, Data, BatchData
<1>7. QED
  BY <1>1, <1>2, <1>4, <1>5, <1>6, Owner

LEMMA CallingBackPlaces ==
  ASSUME IndInv, PlaceInv, NEW k \in CallIds, CallingBack(k)
  PROVE  Placed
<1> DEFINE a == Calls(k)
<1>1. /\ UNCHANGED <<queue, batch, spc, issued>> /\ Accepted' = Accepted /\ BatchData'
      /\ \A l \in CallIds \ {k} : /\ cst'[l] = cst[l] /\ load'[l] = load[l]
                                  /\ todo'[l] = todo[l] /\ put'[l] = put[l]
  BY CallKeeps
<1>2. a \in Holders /\ \A h \in Holders \ {a} : SameAt(h)
  BY <1>1, CallSame, HolderKinds
<1>3. /\ todo[k] \in Seq(Requests) /\ load[k] \in Seq(Requests)
      /\ Distinct(todo[k]) /\ Distinct(load[k]) /\ Elements(load[k]) \subseteq Accepted
      /\ cst[k] # "resend" => put[k] = "no"
      /\ cst[k] \in {"answer", "count", "fail", "resend"} => todo[k] # <<>>
      /\ cst[k] \in {"free", "release"} => todo[k] = <<>>
      /\ cst[k] \in {"flying", "lost"} => todo[k] = load[k]
      /\ cst[k] \in {"fail", "resend"} => Elements(todo[k]) \subseteq Elements(load[k])
      /\ cst[k] \in {"fail", "resend"} => MaxFailures > 0
  BY CallFacts
<1>4. cst \in [CallIds -> CallSteps] /\ k \in Putters
      /\ put \in [Putters -> {"no", "slot", "push", "signal"}]
  BY Owner DEF IndInv, Types
<1>5. /\ Held[a] = Owned(k)
      /\ cst[k] # "resend" => Within[a] = Elements(todo[k])
      /\ cst[k] = "count" => Replied[a] = {Head(todo[k])}
      /\ cst[k] # "count" => Replied[a] = {}
  BY HolderValues
<1>6. /\ cst'[k] = "fail" => Held'[a] = Elements(load'[k])
      /\ cst'[k] # "fail" /\ put'[k] = "signal" => Held'[a] = Elements(Tail(todo'[k]))
      /\ cst'[k] # "fail" /\ put'[k] # "signal" => Held'[a] = Elements(todo'[k])
      /\ cst'[k] # "resend" => Within'[a] = Elements(todo'[k])
      /\ cst'[k] = "resend" => Within'[a] = {}
      /\ cst'[k] = "count" => Replied'[a] = {Head(todo'[k])}
      /\ cst'[k] # "count" => Replied'[a] = {}
  BY HolderValuesAfter
<1>7. Elements(<<>>) = {} /\ Distinct(<<>>)
  BY EmptyBatch
<1> HIDE DEF a
<1>8. ASSUME Sequenced' /\ CallData' PROVE Data'
  BY <1>1, <1>8 DEF Data
<1>9. CASE Deliver(k) \/ Fail(k)
  <2>1. /\ cst[k] = "flying" /\ load' = load /\ todo' = todo /\ put' = put
        /\ UNCHANGED <<answers, pending>>
        /\ cst' = [cst EXCEPT ![k] = cst'[k]]
    BY <1>4, <1>9 DEF Deliver, Fail, callVars, queueVars, callerVars, tallyVars
  <2>2. \/ cst'[k] = "release" /\ todo[k] = <<>>
        \/ cst'[k] \in {"answer", "fail"}
    BY <1>4, <1>9 DEF Deliver, Fail
  <2>3. put[k] = "no" /\ todo[k] = load[k]
    BY <1>3, <2>1
  <2>4. Held[a] = Elements(todo[k]) /\ Within[a] = Elements(todo[k]) /\ Replied[a] = {}
    BY <1>5, <2>1, <2>3 DEF Owned
  <2>5. Held'[a] = Elements(todo[k])
    <3>1. cst'[k] = "fail" => Held'[a] = Elements(load[k])
      BY <1>6, <2>1
    <3>2. cst'[k] # "fail" => Held'[a] = Elements(todo[k])
      BY <1>6, <2>1, <2>3
    <3>3. QED
      BY <2>3, <3>1, <3>2
  <2>6. Within'[a] = Elements(todo[k]) /\ Replied'[a] = {}
    BY <1>6, <2>1, <2>2
  <2>7. SameAt(a)
    BY <2>4, <2>5, <2>6 DEF SameAt
  <2>a. cst'[k] = "fail" => MaxFailures > 0
    BY <1>4, <1>9, ClientAssumption DEF Deliver, Fail, IndInv, Types
  <2>8. Sequenced' /\ CallData'
    BY <1>1, <1>3, <2>1, <2>2, <2>3, <2>a, OneCallData
  <2>9. QED
    BY <1>1, <1>2, <1>8, <2>1, <2>7, <2>8, OneHolder
<1>10. CASE Answer(k)
  <2> DEFINE r == Head(todo[k])
  <2>1. /\ cst[k] = "answer" /\ load' = load /\ todo' = todo /\ put' = put
        /\ cst' = [cst EXCEPT ![k] = "count"]
        /\ answers' = [answers EXCEPT ![r] = @ + 1] /\ pending' = pending
    BY <1>10 DEF Answer, callVars, queueVars, callerVars
  <2>2. cst'[k] = "count"
    BY <1>4, <2>1
  <2>3. put[k] = "no" /\ todo[k] # <<>>
    BY <1>3, <2>1
  <2>4. Held[a] = Elements(todo[k]) /\ Within[a] = Elements(todo[k]) /\ Replied[a] = {}
    BY <1>5, <2>1, <2>3 DEF Owned
  <2>5. Held'[a] = Elements(todo[k]) /\ Within'[a] = Elements(todo[k])
    BY <1>6, <2>1, <2>2, <2>3
  <2>6. Replied'[a] = {r}
    BY <1>6, <2>1, <2>2
  <2>7. r \in Within[a]
    BY <1>3, <2>3, <2>4, TailElements
  <2>8. Sequenced' /\ CallData'
    BY <1>1, <1>3, <2>1, <2>2, OneCallData
  <2>9. r \in Requests /\ Replies(r) /\ Apart(Held')
    <3> HIDE DEF r
    <3>1. QED
      BY <1>1, <1>2, <2>1, <2>4, <2>5, <2>6, <2>7, ReplyAt
  <2>10. QED
    BY <1>8, <2>8, <2>9 DEF Placed, Effect
<1>11. CASE Count(k)
  <2> DEFINE r == Head(todo[k])
  <2>1. /\ cst[k] = "count" /\ load' = load /\ put' = put
        /\ todo' = [todo EXCEPT ![k] = Tail(@)]
        /\ answers' = answers /\ pending' = pending - 1
    BY <1>11 DEF Count, PendingDown, tallyVars, callerVars
  <2>2. /\ cst'[k] \in {"answer", "release"} /\ (cst'[k] = "release" => ~(Len(todo[k]) > 1))
    BY <1>4, <1>11 DEF Count
  <2>3. put[k] = "no" /\ todo[k] # <<>> /\ Len(todo[k]) > 0 /\ Len(todo[k]) \in Nat
    BY <1>3, <2>1, Batches
  <2>4. todo'[k] = Tail(todo[k])
    BY <2>1 DEF IndInv, Types
  <2>5. /\ Elements(todo[k]) = {r} \cup Elements(todo'[k]) /\ Distinct(todo'[k])
        /\ r \notin Elements(todo'[k])
    BY <1>3, <2>3, <2>4, TailElements
  <2>6. cst'[k] = "release" => todo'[k] = <<>>
    BY <1>3, <2>2, <2>3, <2>4, Batches
  <2>7. Held[a] = Elements(todo[k]) /\ Within[a] = Elements(todo[k]) /\ Replied[a] = {r}
    <3>1. Replied[a] = {r}
      BY <1>5, <2>1
    <3>2. QED
      BY <1>5, <2>1, <2>3, <3>1 DEF Owned
  <2>8. Held'[a] = Elements(todo'[k]) /\ Within'[a] = Elements(todo'[k]) /\ Replied'[a] = {}
    BY <1>6, <2>1, <2>2, <2>3
  <2>9. Held'[a] = Held[a] \ {r} /\ Within'[a] = Within[a] \ {r}
    BY <2>5, <2>7, <2>8
  <2>10. Sequenced' /\ CallData'
    BY <1>1, <1>3, <2>1, <2>2, <2>5, <2>6, OneCallData
  <2>11. r \in Requests /\ Retires(r) /\ Apart(Held')
    <3> HIDE DEF r
    <3>1. QED
      BY <1>1, <1>2, <2>1, <2>7, <2>8, <2>9, RetireAt
  <2>12. QED
    BY <1>8, <2>10, <2>11 DEF Placed, Effect
<1>12. CASE FailCount(k)
  <2> DEFINE r == Head(todo[k])
  <2>1. /\ cst[k] = "fail" /\ load' = load
        /\ answers' = answers /\ pending' = pending - 1
    BY <1>12 DEF FailCount, PendingDown, tallyVars
  <2>2. put[k] = "no" /\ todo[k] # <<>> /\ Elements(todo[k]) \subseteq Elements(load[k])
        /\ r \in Requests /\ Len(todo[k]) \in Nat
    BY <1>3, <2>1, Batches
  <2>3. /\ Elements(todo[k]) = {r} \cup Elements(Tail(todo[k])) /\ Distinct(Tail(todo[k]))
        /\ r \notin Elements(Tail(todo[k]))
    BY <1>3, <2>2, TailElements
  <2>4. Held[a] = Elements(load[k]) /\ Within[a] = Elements(todo[k]) /\ Replied[a] = {}
    BY <1>5, <2>1 DEF Owned
  <2>5. \/ /\ cst'[k] = "fail" /\ todo'[k] = Tail(todo[k])
        \/ /\ cst'[k] = "resend" /\ todo'[k] = load[k] /\ put'[k] = "slot"
           /\ Elements(Tail(todo[k])) = {}
    <3>1. CASE todo' = [todo EXCEPT ![k] = Tail(@)] /\ cst' = cst
      <4>1. todo'[k] = Tail(todo[k])
        BY <3>1 DEF IndInv, Types
      <4>2. QED
        BY <2>1, <3>1, <4>1
    <3>2. CASE Len(todo[k]) = 1
      <4>1. Tail(todo[k]) = <<>>
        BY <1>3, <2>2, <3>2, Batches
      <4>2. /\ cst' = [cst EXCEPT ![k] = "resend"] /\ todo' = [todo EXCEPT ![k] = load[k]]
            /\ put' = [put EXCEPT ![k] = "slot"]
        BY <1>12, <3>2 DEF FailCount
      <4>3. QED
        BY <1>4, <1>7, <4>1, <4>2 DEF IndInv, Types
    <3>3. QED
      BY <1>12, <3>1, <3>2 DEF FailCount
  <2>6. Held'[a] = Held[a]
    <3>1. cst'[k] = "fail" => Held'[a] = Elements(load[k])
      BY <1>6, <2>1
    <3>2. cst'[k] = "resend" => Held'[a] = Elements(load[k])
      <4>1. cst'[k] = "resend" => /\ cst'[k] # "fail" /\ put'[k] # "signal" /\ todo'[k] = load[k]
        BY <2>5
      <4>2. QED
        BY <1>6, <4>1
    <3>3. QED
      BY <2>4, <2>5, <3>1, <3>2
  <2>7. Within'[a] = Within[a] \ {r}
    <3>1. Within'[a] = Elements(Tail(todo[k]))
      <4>1. CASE cst'[k] = "fail" /\ todo'[k] = Tail(todo[k])
        BY <1>6, <4>1
      <4>2. CASE cst'[k] = "resend" /\ Elements(Tail(todo[k])) = {}
        <5>1. Within'[a] = {}
          BY <1>6, <4>2
        <5>2. QED
          BY <4>2, <5>1
      <4>3. QED
        BY <2>5, <4>1, <4>2
    <3>2. QED
      BY <2>3, <2>4, <3>1
  <2>8. Replied'[a] = {}
    BY <1>6, <2>5
  <2>9. Sequenced' /\ CallData'
    <3>1. /\ Distinct(todo'[k]) /\ Distinct(load'[k])
          /\ cst'[k] \in {"fail", "resend"} /\ Elements(todo'[k]) \subseteq Elements(load'[k])
          /\ Elements(load'[k]) \subseteq Accepted /\ MaxFailures > 0
      BY <1>3, <2>1, <2>2, <2>3, <2>5
    <3>2. QED
      BY <1>1, <3>1, OneCallData
  <2> HIDE DEF r
  <2>10. /\ Ripe \subseteq Counted /\ Counted \subseteq Anywhere /\ Anywhere \subseteq Requests
         /\ Counted = Everything(Within) /\ Apart(Within) /\ Apart(Held)
         /\ \A h \in Holders : Replied[h] \subseteq Within[h] /\ Within[h] \subseteq Held[h]
    BY Nested, WithinHeld DEF PlaceInv
  <2>11. r \in Within[a]
    BY <2>3, <2>4
  <2>12. \A h \in Holders : Held'[h] = Held[h] /\ Replied'[h] = Replied[h]
    BY <1>2, <2>4, <2>6, <2>8 DEF SameAt
  <2>13. Anywhere' = Anywhere /\ Ripe' = Ripe /\ Apart(Held')
    BY <2>10, <2>12 DEF Anywhere, Ripe, Everything, Apart
  <2>14. Counted' = Counted \ {r}
    <3>1. \A h \in Holders \ {a} : r \notin Within[h] /\ Within'[h] = Within[h]
      BY <1>2, <2>10, <2>11 DEF Apart, SameAt
    <3>2. Everything(Within') = Everything(Within) \ {r}
      BY <1>2, <2>7, <3>1 DEF Everything
    <3>3. QED
      BY <2>10, <3>2, CountedAfter
  <2>15. r \in Counted /\ r \notin Ripe
    <3>1. r \in Counted
      BY <1>2, <2>10, <2>11 DEF Everything
    <3>2. \A h \in Holders : r \notin Replied[h]
      BY <1>2, <2>4, <2>10, <2>11 DEF Apart
    <3>3. QED
      BY <3>1, <3>2 DEF Ripe, Everything
  <2>16. answers[r] = 0
    BY <2>2, <2>10, <2>15 DEF PlaceInv, Fates, IndInv, Types
  <2>17. MaxFailures > 0
    BY <1>3, <2>1
  <2>18. IsSetAside(r)
    BY <1>1, <2>1, <2>13, <2>14, <2>15, <2>16, <2>17 DEF IsSetAside
  <2>19. QED
    BY <1>8, <2>2, <2>9, <2>13, <2>18 DEF Placed, Effect
<1>13. CASE ReleasePermit(k)
  <2>1. /\ cst[k] = "release" /\ load' = [load EXCEPT ![k] = <<>>] /\ todo' = todo /\ put' = put
        /\ cst' = [cst EXCEPT ![k] = "free"] /\ UNCHANGED <<answers, pending>>
    BY <1>13 DEF ReleasePermit, queueVars, callerVars, tallyVars
  <2>2. cst'[k] = "free" /\ load'[k] = <<>> /\ put[k] = "no" /\ todo[k] = <<>>
    BY <1>3, <1>4, <2>1 DEF IndInv, Types
  <2>3. Held[a] = {} /\ Within[a] = {} /\ Replied[a] = {}
    BY <1>5, <1>7, <2>1, <2>2 DEF Owned
  <2>4. Held'[a] = {} /\ Within'[a] = {} /\ Replied'[a] = {}
    BY <1>6, <1>7, <2>1, <2>2
  <2>5. SameAt(a)
    BY <2>3, <2>4 DEF SameAt
  <2>6. Sequenced' /\ CallData'
    <3>1. Elements(load'[k]) \subseteq Accepted
      BY <1>7, <2>2
    <3>2. QED
      BY <1>1, <1>7, <2>1, <2>2, <3>1, OneCallData
  <2>7. QED
    BY <1>1, <1>2, <1>8, <2>1, <2>5, <2>6, OneHolder
<1>14. QED
  BY <1>9, <1>10, <1>11, <1>12, <1>13 DEF CallingBack

\* A call goes on after it has put a request back.
LEMMA CallSignalPlaces ==
  ASSUME IndInv, PlaceInv, NEW k \in CallIds, Signal(k)
  PROVE  Placed
<1> DEFINE a == Calls(k)
<1>1. /\ put[k] = "signal" /\ todo' = [todo EXCEPT ![k] = Tail(@)]
      /\ UNCHANGED <<queue, batch, spc, load, issued, answers, pending>>
  <2>1. k \notin Clients
    BY Owner
  <2>2. QED
    BY <2>1 DEF Signal, senderVars, tallyVars
<1>2. /\ k \in Putters /\ k \notin Clients /\ Clients \subseteq Putters
      /\ cst \in [CallIds -> CallSteps]
      /\ put \in [Putters -> {"no", "slot", "push", "signal"}]
      /\ todo \in [CallIds -> Seq(Requests)]
  BY Owner DEF Putters, IndInv, Types
<1>3. cst[k] = "resend"
  BY <1>1 DEF IndInv, Shape, CallShape
<1>4. /\ todo[k] \in Seq(Requests) /\ load[k] \in Seq(Requests)
      /\ Distinct(todo[k]) /\ Distinct(load[k]) /\ Elements(load[k]) \subseteq Accepted
      /\ todo[k] # <<>> /\ Elements(todo[k]) \subseteq Elements(load[k]) /\ MaxFailures > 0
  BY <1>3, CallFacts
<1>5. /\ Elements(todo[k]) = {Head(todo[k])} \cup Elements(Tail(todo[k]))
      /\ Distinct(Tail(todo[k])) /\ todo'[k] = Tail(todo[k])
  BY <1>1, <1>2, <1>4, TailElements
<1>6. \/ cst' = cst /\ put' = [put EXCEPT ![k] = "slot"]
      \/ /\ cst' = [cst EXCEPT ![k] = "release"] /\ put' = [put EXCEPT ![k] = "no"]
         /\ todo'[k] = <<>>
  <2>1. CASE cst' = cst /\ put' = [put EXCEPT ![k] = "slot"]
    BY <2>1
  <2>2. CASE Len(todo[k]) = 1 /\ cst' = [cst EXCEPT ![k] = "release"]
             /\ put' = [put EXCEPT ![k] = "no"]
    <3>1. Tail(todo[k]) = <<>>
      BY <1>4, <2>2, Batches
    <3>2. QED
      BY <1>5, <2>2, <3>1
  <2>3. QED
    BY <1>2, <2>1, <2>2 DEF Signal
<1>7. \/ cst'[k] = "resend" /\ put'[k] = "slot"
      \/ cst'[k] = "release" /\ put'[k] = "no" /\ todo'[k] = <<>>
  BY <1>2, <1>3, <1>6
<1>8. /\ \A x \in Putters \ {k} : put'[x] = put[x]
      /\ \A l \in CallIds \ {k} : /\ cst'[l] = cst[l] /\ load'[l] = load[l]
                                  /\ todo'[l] = todo[l] /\ l \in Putters
  BY <1>1, <1>2, <1>6, Owner
<1>9. a \in Holders /\ \A h \in Holders \ {a} : SameAt(h)
  BY <1>1, <1>8, CallSame, HolderKinds
<1>10. Held[a] = Elements(Tail(todo[k])) /\ Within[a] = {} /\ Replied[a] = {}
  <2>1. Held[a] = Owned(k) /\ Within[a] = {} /\ Replied[a] = {}
    BY <1>3, HolderValues
  <2>2. QED
    BY <1>1, <1>3, <2>1 DEF Owned
<1>11. Held'[a] = Elements(Tail(todo[k])) /\ Within'[a] = {} /\ Replied'[a] = {}
  <2>1. cst'[k] # "fail" /\ put'[k] # "signal" /\ cst'[k] # "count"
    BY <1>7
  <2>2. Held'[a] = Elements(todo'[k]) /\ Replied'[a] = {}
    BY <2>1, HolderValuesAfter
  <2>3. Within'[a] = {}
    <3>1. CASE cst'[k] = "resend"
      BY <3>1, HolderValuesAfter
    <3>2. CASE cst'[k] = "release" /\ todo'[k] = <<>>
      BY <3>2, HolderValuesAfter, EmptyBatch
    <3>3. QED
      BY <1>7, <3>1, <3>2
  <2>4. QED
    BY <1>5, <2>2, <2>3
<1> HIDE DEF a
<1>12. SameAt(a)
  BY <1>10, <1>11 DEF SameAt
<1>13. Accepted' = Accepted
  BY <1>1, <1>2, <1>8, GivenSame
<1>14. Sequenced' /\ CallData'
  <2>1. /\ Distinct(todo'[k]) /\ Distinct(load'[k])
        /\ Elements(todo'[k]) \subseteq Elements(load'[k]) /\ Elements(load'[k]) \subseteq Accepted
    BY <1>1, <1>4, <1>5
  <2>2. QED
    BY <1>1, <1>4, <1>7, <1>8, <1>13, <2>1, OneCallData
<1>15. BatchData'
  BY <1>1 DEF PlaceInv, Data, BatchData
<1>16. QED
  BY <1>1, <1>9, <1>12, <1>13, <1>14, <1>15, OneHolder DEF Data

LEMMA PuttingPlaces ==
  ASSUME IndInv, PlaceInv, NEW p \in Putters, Putting(p)
  PROVE  Placed
<1>1. /\ put \in [Putters -> {"no", "slot", "push", "signal"}]
      /\ Clients \subseteq Putters /\ CallIds \subseteq Putters /\ Clients \cap CallIds = {}
  BY ClientAssumption DEF Putters, IndInv, Types
<1>2. CASE TakeSlot(p) \/ SleepOnFull(p)
  <2>1. /\ UNCHANGED <<queue, batch, spc, cst, load, todo, answers, pending, issued>>
        /\ \/ put' = put
           \/ put[p] = "slot" /\ put' = [put EXCEPT ![p] = "push"]
    BY <1>2 DEF TakeSlot, SleepOnFull, callerVars, senderVars, callVars, tallyVars
  <2>2. \A x \in Putters : /\ put'[x] \in {"slot", "push"} <=> put[x] \in {"slot", "push"}
                           /\ put'[x] = "signal" <=> put[x] = "signal"
    BY <1>1, <2>1
  <2>3. Accepted' = Accepted
    BY <1>1, <2>1, <2>2, GivenSame
  <2>4. Unmoved
    BY <2>1, <2>3 DEF Unmoved
  <2>5. QED
    BY <1>1, <2>1, <2>2, <2>4, UnmovedStep
<1>3. CASE Push(p)
  BY <1>3, PushPlaces
<1>4. CASE Signal(p) /\ p \in CallIds
  BY <1>4, CallSignalPlaces
<1>5. CASE Signal(p) /\ p \notin CallIds
  <2>1. /\ UNCHANGED <<queue, batch, spc, cst, load, todo, answers, pending, issued>>
        /\ put[p] = "signal" /\ put' = [put EXCEPT ![p] = "no"]
    BY <1>5 DEF Signal, senderVars, tallyVars
  <2>2. /\ \A x \in Putters : put'[x] \in {"slot", "push"} <=> put[x] \in {"slot", "push"}
        /\ \A k \in CallIds : put'[k] = put[k]
    BY <1>1, <1>5, <2>1
  <2>3. Accepted' = Accepted
    BY <1>1, <2>1, <2>2, GivenSame
  <2>4. Unmoved
    BY <2>1, <2>3 DEF Unmoved
  <2>5. QED
    BY <2>1, <2>2, <2>4, UnmovedStep
<1>6. QED
  BY <1>2, <1>3, <1>4, <1>5 DEF Putting

\* Eval hands out a new request, which has not reached the queue yet.
LEMMA EvalGiven ==
  ASSUME IndInv, NEW x \in Clients, EvalCall(x)
  PROVE  Accepted' = Accepted /\ \A k \in CallIds : put'[k] = put[k]
<1>1. /\ put[x] = "no" /\ put' = [put EXCEPT ![x] = "slot"]
      /\ issued' = [issued EXCEPT ![x] = @ + 1]
      /\ put \in [Putters -> {"no", "slot", "push", "signal"}] /\ issued \in [Clients -> Nat]
      /\ Clients \subseteq Putters /\ CallIds \subseteq Putters /\ x \notin CallIds
  BY ClientAssumption DEF EvalCall, Putters, IndInv, Types
<1>2. put'[x] = "slot" /\ issued'[x] = issued[x] + 1 /\ issued[x] \in Nat
  BY <1>1
<1>3. \A y \in Clients \ {x} : put'[y] = put[y] /\ issued'[y] = issued[y]
  BY <1>1
<1>4. ASSUME NEW r \in Requests PROVE r \in Accepted' <=> r \in Accepted
  <2>1. r[1] \in Clients /\ r[2] \in Nat
    BY RequestParts
  <2>2. CASE r[1] = x
    <3>1. r[2] <= issued[x] <=> (r[2] <= issued[x] + 1 /\ r[2] # issued[x] + 1)
      BY <1>2, <2>1
    <3>2. r \in Accepted <=> r[2] <= issued[x]
      BY <1>1, <2>2 DEF Accepted
    <3>3. r \in Accepted' <=> (r[2] <= issued'[x] /\ r[2] # issued'[x])
      BY <1>2, <2>2 DEF Accepted
    <3>4. QED
      BY <1>2, <3>1, <3>2, <3>3
  <2>3. CASE r[1] # x
    BY <1>3, <2>1, <2>3 DEF Accepted
  <2>4. QED
    BY <2>2, <2>3
<1>5. Accepted' = Accepted
  BY <1>4 DEF Accepted
<1>6. QED
  BY <1>1, <1>5

LEMMA CallingPlaces ==
  ASSUME IndInv, PlaceInv, NEW c \in Callers, Calling(c)
  PROVE  Placed
<1>1. UNCHANGED <<queue, batch, spc, cst, load, todo, answers, pending>>
  BY DEF Calling, CallerEval, CallerBreak, CallerOver, queueVars, senderVars, callVars, tallyVars
<1>2. Accepted' = Accepted /\ \A k \in CallIds : put'[k] = put[k]
  <2>1. CASE CallerEval(c)
    BY <2>1, EvalGiven DEF CallerEval, Clients
  <2>2. CASE CallerBreak(c) \/ CallerOver(c)
    BY <2>2, GivenSame DEF CallerBreak, CallerOver
  <2>3. QED
    BY <2>1, <2>2 DEF Calling
<1>3. Unmoved
  BY <1>1, <1>2 DEF Unmoved
<1>4. QED
  BY <1>1, <1>2, <1>3, UnmovedStep

\* A sender starts a call, which was free.
LEMMA BeginFacts ==
  ASSUME IndInv, PlaceInv, NEW s \in Senders, HasPermit(s), NEW q, BeginCall(s, q)
  PROVE  \E k \in CallIds :
            /\ cst[k] = "free" /\ cst'[k] \in {"lost", "flying"}
            /\ load'[k] = q /\ todo'[k] = q /\ todo[k] = <<>> /\ put[k] = "no"
            /\ \A l \in CallIds \ {k} : /\ cst'[l] = cst[l] /\ load'[l] = load[l]
                                        /\ todo'[l] = todo[l]
            /\ spc' = [spc EXCEPT ![s] = "top"]
<1>1. PICK k \in CallIds, to \in {"lost", "flying"} :
            /\ k[1] = s /\ cst[k] = "free"
            /\ cst' = [cst EXCEPT ![k] = to]
            /\ load' = [load EXCEPT ![k] = q]
            /\ todo' = [todo EXCEPT ![k] = q]
            /\ spc' = [spc EXCEPT ![s] = "top"]
  BY BeginCallAt DEF IndInv
<1>2. /\ DOMAIN cst = CallIds /\ DOMAIN load = CallIds /\ DOMAIN todo = CallIds
      /\ todo[k] = <<>> /\ put[k] = "no"
  BY <1>1, CallFacts DEF IndInv, Types
<1>3. /\ cst'[k] = to /\ load'[k] = q /\ todo'[k] = q
      /\ \A l \in CallIds \ {k} : /\ cst'[l] = cst[l] /\ load'[l] = load[l]
                                  /\ todo'[l] = todo[l]
  <2>1. cst \in [CallIds -> CallSteps] /\ load \in [CallIds -> Seq(Requests)]
        /\ todo \in [CallIds -> Seq(Requests)]
    BY DEF IndInv, Types
  <2>2. QED
    BY <1>1, <2>1
<1>4. QED
  BY <1>1, <1>2, <1>3

\* One holder hands some of its requests to another.
LEMMA HandOver ==
  ASSUME IndInv, PlaceInv, NEW a \in Holders, NEW b \in Holders, a # b,
         \A h \in Holders \ {a, b} : SameAt(h),
         Held'[a] \cup Held'[b] = Held[a] \cup Held[b], Held'[a] \cap Held'[b] = {},
         Within'[a] \cup Within'[b] = Within[a] \cup Within[b],
         Replied'[a] = Replied[a] /\ Replied'[b] = Replied[b],
         UNCHANGED <<answers, pending>>, Accepted' = Accepted
  PROVE  Still /\ Apart(Held')
<1>1. Counted = Everything(Within) /\ Apart(Held)
  BY WithinHeld DEF PlaceInv
<1>2. \A h \in Holders \ {a, b} : /\ Held'[h] = Held[h] /\ Within'[h] = Within[h]
                                  /\ Replied'[h] = Replied[h]
  BY DEF SameAt
<1>3. Anywhere' = Anywhere
  <2>1. \A h \in Holders : Held'[h] \subseteq Everything(Held)
    BY <1>2 DEF Everything
  <2>2. \A h \in Holders : Held[h] \subseteq Everything(Held')
    BY <1>2 DEF Everything
  <2>3. QED
    BY <2>1, <2>2 DEF Anywhere, Everything
<1>4. Apart(Held')
  BY <1>1, <1>2 DEF Apart
<1>5. Counted' = Counted
  <2>1. \A h \in Holders : Within'[h] \subseteq Everything(Within)
    BY <1>2 DEF Everything
  <2>2. \A h \in Holders : Within[h] \subseteq Everything(Within')
    BY <1>2 DEF Everything
  <2>3. Everything(Within') = Everything(Within)
    BY <2>1, <2>2 DEF Everything
  <2>4. QED
    BY <1>1, <2>3, CountedAfter
<1>6. Ripe' = Ripe
  BY <1>2 DEF Ripe, Everything
<1>7. QED
  BY <1>3, <1>4, <1>5, <1>6 DEF Still

\* A sender takes its fetch off the queue.
LEMMA PopPlaces ==
  ASSUME IndInv, PlaceInv, NEW s \in Senders, Pop(s)
  PROVE  Placed
<1> DEFINE n == fetch[s]
           a == InQueue
           b == Sends(s)
<1>1. /\ spc[s] = "pop" /\ spc' = [spc EXCEPT ![s] = "release"]
      /\ batch' = [batch EXCEPT ![s] = SubSeq(queue, 1, n)]
      /\ queue' = SubSeq(queue, n + 1, Len(queue))
      /\ UNCHANGED <<cst, load, todo, put, issued, answers, pending>>
  BY DEF Pop, Popped, callerVars, callVars, tallyVars
<1>2. n \in Nat /\ n <= Len(queue) /\ queue \in Seq(Requests)
  BY <1>1, PopFits DEF IndInv, Types
<1> HIDE DEF n
<1>3. /\ batch \in [Senders -> Seq(Requests)] /\ spc \in [Senders -> SenderSteps]
      /\ Distinct(queue) /\ \A t \in Senders : Distinct(batch[t])
      /\ batch[s] = <<>>
  BY <1>1 DEF IndInv, Types, PlaceInv, Data, Sequenced, BatchData
<1>4. /\ batch'[s] = SubSeq(queue, 1, n) /\ spc'[s] = "release"
      /\ \A t \in Senders \ {s} : batch'[t] = batch[t] /\ spc'[t] = spc[t]
  BY <1>1, <1>3
<1>5. /\ Elements(queue) = Elements(batch'[s]) \cup Elements(queue')
      /\ Elements(batch'[s]) \cap Elements(queue') = {}
      /\ Distinct(queue') /\ Distinct(batch'[s])
  BY <1>1, <1>2, <1>3, <1>4, SplitElements
<1>6. a \in Holders /\ b \in Holders /\ a # b
  BY HolderKinds
<1>7. \A h \in Holders \ {a, b} : SameAt(h)
  <2>1. \A t \in Senders \ {s} : SameAt(Sends(t))
    BY <1>4, SameHolders
  <2>2. \A k \in CallIds : SameAt(Calls(k))
    BY <1>1, SameHolders
  <2>3. QED
    BY <2>1, <2>2, HolderKinds
<1>8. /\ Held[a] = Elements(queue) /\ Within[a] = Elements(queue) /\ Replied[a] = {}
      /\ Held[b] = {} /\ Within[b] = {} /\ Replied[b] = {}
  BY <1>1, <1>3, HolderValues, EmptyBatch
<1>9. /\ Held'[a] = Elements(queue') /\ Within'[a] = Elements(queue') /\ Replied'[a] = {}
      /\ Held'[b] = Elements(batch'[s]) /\ Within'[b] = Elements(batch'[s])
      /\ Replied'[b] = {}
  BY <1>4, HolderValuesAfter
<1> HIDE DEF a, b
<1>10. Accepted' = Accepted
  BY <1>1, GivenSame
<1>11. Still /\ Apart(Held')
  <2>1. /\ Held'[a] \cup Held'[b] = Held[a] \cup Held[b] /\ Held'[a] \cap Held'[b] = {}
        /\ Within'[a] \cup Within'[b] = Within[a] \cup Within[b]
    BY <1>5, <1>8, <1>9
  <2>2. Replied'[a] = Replied[a] /\ Replied'[b] = Replied[b]
    BY <1>8, <1>9
  <2>3. UNCHANGED <<answers, pending>>
    BY <1>1
  <2>4. QED
    BY <1>6, <1>7, <1>10, <2>1, <2>2, <2>3, HandOver
<1>12. Data'
  <2>a. UNCHANGED <<cst, load, todo>>
    BY <1>1
  <2>1. \A t \in Senders : Distinct(batch'[t])
    BY <1>3, <1>4, <1>5
  <2>2. Sequenced'
    <3>1. \A k \in CallIds : Distinct(todo[k]) /\ Distinct(load[k])
      BY DEF PlaceInv, Data, Sequenced
    <3>2. QED
      BY <1>5, <2>a, <2>1, <3>1 DEF Sequenced, Distinct
  <2>3. CallData'
    BY <1>10, <2>a, CallDataSame
  <2>4. BatchData'
    BY <1>4 DEF PlaceInv, Data, BatchData
  <2>5. QED
    BY <2>2, <2>3, <2>4 DEF Data
<1>13. QED
  BY <1>11, <1>12 DEF Placed, Effect

\* A sender hands its batch to a call.
LEMMA SendAsynPlaces ==
  ASSUME IndInv, PlaceInv, NEW s \in Senders, SendAsyn(s)
  PROVE  Placed
<1>1. /\ spc[s] = "send" /\ IsAsyn /\ HasPermit(s) /\ BeginCall(s, batch[s])
      /\ batch' = [batch EXCEPT ![s] = <<>>]
      /\ UNCHANGED <<queue, put, issued, answers, pending>>
  BY DEF SendAsyn, HasPermit, queueVars, callerVars, tallyVars
<1>2. PICK k \in CallIds :
            /\ cst[k] = "free" /\ cst'[k] \in {"lost", "flying"}
            /\ load'[k] = batch[s] /\ todo'[k] = batch[s] /\ todo[k] = <<>> /\ put[k] = "no"
            /\ \A l \in CallIds \ {k} : /\ cst'[l] = cst[l] /\ load'[l] = load[l]
                                        /\ todo'[l] = todo[l]
            /\ spc' = [spc EXCEPT ![s] = "top"]
  BY <1>1, BeginFacts
<1> DEFINE a == Sends(s)
           b == Calls(k)
<1>3. /\ batch \in [Senders -> Seq(Requests)] /\ spc \in [Senders -> SenderSteps]
      /\ Distinct(queue) /\ \A t \in Senders : Distinct(batch[t])
  BY DEF IndInv, Types, PlaceInv, Data, Sequenced
<1>4. /\ batch'[s] = <<>> /\ spc'[s] = "top"
      /\ \A t \in Senders \ {s} : batch'[t] = batch[t] /\ spc'[t] = spc[t]
  BY <1>1, <1>2, <1>3
<1>5. a \in Holders /\ b \in Holders /\ a # b
  BY HolderKinds
<1>6. \A h \in Holders \ {a, b} : SameAt(h)
  <2>1. \A t \in Senders \ {s} : SameAt(Sends(t))
    BY <1>4, SameHolders
  <2>2. \A l \in CallIds \ {k} : SameAt(Calls(l))
    BY <1>1, <1>2, SameHolders
  <2>3. SameAt(InQueue)
    BY <1>1, SameHolders
  <2>4. QED
    BY <2>1, <2>2, <2>3, HolderKinds
<1>7. /\ Held[a] = Elements(batch[s]) /\ Within[a] = Elements(batch[s]) /\ Replied[a] = {}
      /\ Held[b] = {} /\ Within[b] = {} /\ Replied[b] = {}
  <2>1. Owned(k) = {}
    BY <1>2, EmptyBatch DEF Owned
  <2>2. QED
    BY <1>1, <1>2, <2>1, HolderValues, EmptyBatch
<1>8. /\ Held'[a] = {} /\ Within'[a] = {} /\ Replied'[a] = {}
      /\ Held'[b] = Elements(batch[s]) /\ Within'[b] = Elements(batch[s])
      /\ Replied'[b] = {}
  <2>1. Held'[a] = {} /\ Within'[a] = {} /\ Replied'[a] = {}
    BY <1>4, HolderValuesAfter, EmptyBatch
  <2>2. cst'[k] # "fail" /\ cst'[k] # "resend" /\ cst'[k] # "count" /\ put'[k] # "signal"
    BY <1>1, <1>2
  <2>3. Held'[b] = Elements(batch[s]) /\ Within'[b] = Elements(batch[s]) /\ Replied'[b] = {}
    BY <1>2, <2>2, HolderValuesAfter
  <2>4. QED
    BY <2>1, <2>3
<1>9. Accepted' = Accepted
  BY <1>1, GivenSame
<1> HIDE DEF a, b
<1>10. Still /\ Apart(Held')
  <2>1. /\ Held'[a] \cup Held'[b] = Held[a] \cup Held[b] /\ Held'[a] \cap Held'[b] = {}
        /\ Within'[a] \cup Within'[b] = Within[a] \cup Within[b]
    BY <1>7, <1>8
  <2>2. Replied'[a] = Replied[a] /\ Replied'[b] = Replied[b]
    BY <1>7, <1>8
  <2>3. UNCHANGED <<answers, pending>>
    BY <1>1
  <2>4. QED
    BY <1>5, <1>6, <1>9, <2>1, <2>2, <2>3, HandOver
<1>11. Sequenced' /\ CallData'
  <2>1. \A t \in Senders : Distinct(batch'[t])
    BY <1>3, <1>4, EmptyBatch
  <2>2. Distinct(queue')
    BY <1>1, <1>3
  <2>3. Elements(batch[s]) \subseteq Accepted
    <3>1. Elements(batch[s]) \subseteq Anywhere
      BY <1>5, <1>7 DEF Anywhere, Everything
    <3>2. QED
      BY <3>1 DEF PlaceInv, Fates
  <2>4. Distinct(todo'[k]) /\ Distinct(load'[k])
    BY <1>2, <1>3
  <2>5. QED
    BY <1>2, <1>9, <2>1, <2>2, <2>3, <2>4, OneCallMoves
<1>12. BatchData'
  BY <1>4 DEF PlaceInv, Data, BatchData
<1>13. QED
  BY <1>10, <1>11, <1>12 DEF Placed, Effect, Data

\* A sender sends a batch without requests.
LEMMA SendDummyPlaces ==
  ASSUME IndInv, PlaceInv, NEW s \in Senders, SendDummy(s)
  PROVE  Placed
<1>1. /\ spc[s] = "peek" /\ IsAsyn
      /\ UNCHANGED <<queue, batch, put, issued, answers, pending>>
  BY DEF SendDummy, queueVars, callerVars, tallyVars, IndInv, Shape, SenderShape
<1>2. HasPermit(s) /\ BeginCall(s, <<>>)
  BY <1>1 DEF SendDummy, HasPermit
<1>3. PICK k \in CallIds :
            /\ cst[k] = "free" /\ cst'[k] \in {"lost", "flying"}
            /\ load'[k] = <<>> /\ todo'[k] = <<>> /\ todo[k] = <<>> /\ put[k] = "no"
            /\ \A l \in CallIds \ {k} : /\ cst'[l] = cst[l] /\ load'[l] = load[l]
                                        /\ todo'[l] = todo[l]
            /\ spc' = [spc EXCEPT ![s] = "top"]
  BY <1>2, BeginFacts
<1>4. spc'[s] = "top" /\ \A t \in Senders \ {s} : spc'[t] = spc[t]
  BY <1>3 DEF IndInv, Types
<1>5. Elements(<<>>) = {} /\ Distinct(<<>>)
  BY EmptyBatch
<1>6. SameAt(Calls(k))
  <2>1. Held[Calls(k)] = {} /\ Within[Calls(k)] = {} /\ Replied[Calls(k)] = {}
    <3>1. Owned(k) = {}
      BY <1>3, <1>5 DEF Owned
    <3>2. QED
      BY <1>3, <1>5, <3>1, HolderValues
  <2>2. cst'[k] # "fail" /\ cst'[k] # "resend" /\ cst'[k] # "count" /\ put'[k] # "signal"
    BY <1>1, <1>3
  <2>3. Held'[Calls(k)] = {} /\ Within'[Calls(k)] = {} /\ Replied'[Calls(k)] = {}
    BY <1>3, <1>5, <2>2, HolderValuesAfter
  <2>4. QED
    BY <2>1, <2>3 DEF SameAt
<1>7. \A h \in Holders : SameAt(h)
  <2>1. \A t \in Senders : SameAt(Sends(t))
    BY <1>1, <1>4, SameHolders
  <2>2. \A l \in CallIds \ {k} : SameAt(Calls(l))
    BY <1>1, <1>3, SameHolders
  <2>3. SameAt(InQueue)
    BY <1>1, SameHolders
  <2>4. QED
    BY <1>6, <2>1, <2>2, <2>3, HolderKinds
<1>8. Accepted' = Accepted
  BY <1>1, GivenSame
<1>9. Still /\ Apart(Held')
  BY <1>1, <1>7, <1>8, StillStep
<1>10. Sequenced' /\ CallData'
  <2>1. Elements(load'[k]) \subseteq Accepted /\ Distinct(todo'[k]) /\ Distinct(load'[k])
    BY <1>3, <1>5
  <2>2. QED
    BY <1>1, <1>3, <1>8, <2>1, OneCallData
<1>11. BatchData'
  BY <1>1, <1>4 DEF PlaceInv, Data, BatchData
<1>12. QED
  BY <1>9, <1>10, <1>11 DEF Placed, Effect, Data

\* What the invariants say of a sender at work on its batch.
LEMMA SyncFacts ==
  ASSUME IndInv, PlaceInv, NEW s \in Senders, SyncAnswer(s) \/ SyncCount(s)
  PROVE  /\ batch[s] \in Seq(Requests) /\ batch[s] # <<>> /\ Distinct(batch[s])
         /\ UNCHANGED <<queue, cst, load, todo, put, issued>> /\ Accepted' = Accepted
         /\ batch \in [Senders -> Seq(Requests)] /\ spc \in [Senders -> SenderSteps]
         /\ Sends(s) \in Holders
<1>1. spc[s] \in {"answer", "count"} /\ UNCHANGED <<queue, cst, load, todo, put, issued>>
  BY DEF SyncAnswer, SyncCount, queueVars, callerVars, callVars
<1>2. Accepted' = Accepted
  BY <1>1, GivenSame
<1>3. /\ batch \in [Senders -> Seq(Requests)] /\ spc \in [Senders -> SenderSteps]
      /\ batch[s] # <<>> /\ Distinct(batch[s])
  BY <1>1 DEF IndInv, Types, Shape, SenderShape, PlaceInv, Data, Sequenced
<1>4. QED
  BY <1>1, <1>2, <1>3, HolderKinds

LEMMA SyncAnswerPlaces ==
  ASSUME IndInv, PlaceInv, NEW s \in Senders, SyncAnswer(s)
  PROVE  Placed
<1> DEFINE a == Sends(s)
           r == Head(batch[s])
<1>1. /\ batch[s] \in Seq(Requests) /\ batch[s] # <<>> /\ Distinct(batch[s])
      /\ UNCHANGED <<queue, cst, load, todo, put, issued>> /\ Accepted' = Accepted
      /\ batch \in [Senders -> Seq(Requests)] /\ spc \in [Senders -> SenderSteps]
      /\ a \in Holders
  BY SyncFacts
<1>2. /\ spc[s] = "answer" /\ spc' = [spc EXCEPT ![s] = "count"] /\ batch' = batch
      /\ answers' = [answers EXCEPT ![r] = @ + 1] /\ pending' = pending
  BY DEF SyncAnswer, queueVars
<1>3. spc'[s] = "count" /\ \A t \in Senders \ {s} : spc'[t] = spc[t]
  BY <1>1, <1>2
<1>4. \A h \in Holders \ {a} : SameAt(h)
  BY <1>1, <1>2, <1>3, SenderSame
<1>5. Held[a] = Elements(batch[s]) /\ Within[a] = Elements(batch[s]) /\ Replied[a] = {}
  BY <1>2, HolderValues
<1>6. Held'[a] = Elements(batch[s]) /\ Within'[a] = Elements(batch[s]) /\ Replied'[a] = {r}
  BY <1>2, <1>3, HolderValuesAfter
<1>7. r \in Within[a]
  BY <1>1, <1>5, TailElements
<1> HIDE DEF a, r
<1>8. r \in Requests /\ Replies(r) /\ Apart(Held')
  BY <1>1, <1>2, <1>4, <1>5, <1>6, <1>7, ReplyAt
<1>9. Data'
  <2>1. Sequenced'
    BY <1>1, <1>2 DEF PlaceInv, Data, Sequenced, Distinct
  <2>2. CallData'
    BY <1>1, CallDataSame
  <2>3. BatchData'
    BY <1>2, <1>3 DEF PlaceInv, Data, BatchData
  <2>4. QED
    BY <2>1, <2>2, <2>3 DEF Data
<1>10. QED
  BY <1>8, <1>9 DEF Placed, Effect

LEMMA SyncCountPlaces ==
  ASSUME IndInv, PlaceInv, NEW s \in Senders, SyncCount(s)
  PROVE  Placed
<1> DEFINE a == Sends(s)
           r == Head(batch[s])
<1>1. /\ batch[s] \in Seq(Requests) /\ batch[s] # <<>> /\ Distinct(batch[s])
      /\ UNCHANGED <<queue, cst, load, todo, put, issued>> /\ Accepted' = Accepted
      /\ batch \in [Senders -> Seq(Requests)] /\ spc \in [Senders -> SenderSteps]
      /\ a \in Holders
  BY SyncFacts
<1>2. /\ spc[s] = "count" /\ batch' = [batch EXCEPT ![s] = Tail(@)]
      /\ answers' = answers /\ pending' = pending - 1
  BY DEF SyncCount, PendingDown, tallyVars
<1>3. batch'[s] = Tail(batch[s]) /\ \A t \in Senders \ {s} : batch'[t] = batch[t]
  BY <1>1, <1>2
<1>4. /\ spc'[s] = "answer" \/ (spc'[s] = "top" /\ batch'[s] = <<>>)
      /\ \A t \in Senders \ {s} : spc'[t] = spc[t]
  <2>1. CASE spc' = [spc EXCEPT ![s] = "answer"]
    BY <1>1, <2>1
  <2>2. CASE Len(batch[s]) = 1 /\ spc' = [spc EXCEPT ![s] = "top"]
    <3>1. Tail(batch[s]) = <<>>
      BY <1>1, <2>2, Batches
    <3>2. QED
      BY <1>1, <1>3, <2>2, <3>1
  <2>3. QED
    BY <2>1, <2>2 DEF SyncCount
<1>5. \A h \in Holders \ {a} : SameAt(h)
  BY <1>1, <1>3, <1>4, SenderSame
<1>6. /\ Elements(batch[s]) = {r} \cup Elements(batch'[s]) /\ Distinct(batch'[s])
      /\ r \notin Elements(batch'[s])
  BY <1>1, <1>3, TailElements
<1>7. Held[a] = Elements(batch[s]) /\ Within[a] = Elements(batch[s]) /\ Replied[a] = {r}
  BY <1>2, HolderValues
<1>8. Held'[a] = Elements(batch'[s]) /\ Within'[a] = Elements(batch'[s]) /\ Replied'[a] = {}
  BY <1>4, HolderValuesAfter
<1> HIDE DEF a, r
<1>9. Held'[a] = Held[a] \ {r} /\ Within'[a] = Within[a] \ {r}
  BY <1>6, <1>7, <1>8
<1>10. r \in Requests /\ Retires(r) /\ Apart(Held')
  BY <1>1, <1>2, <1>5, <1>7, <1>8, <1>9, RetireAt
<1>11. Data'
  <2>1. \A t \in Senders : Distinct(batch'[t])
    BY <1>3, <1>6 DEF PlaceInv, Data, Sequenced
  <2>2. Sequenced'
    BY <1>1, <2>1 DEF PlaceInv, Data, Sequenced, Distinct
  <2>3. CallData'
    BY <1>1, CallDataSame
  <2>4. BatchData'
    BY <1>3, <1>4 DEF PlaceInv, Data, BatchData
  <2>5. QED
    BY <2>2, <2>3, <2>4 DEF Data
<1>12. QED
  BY <1>10, <1>11 DEF Placed, Effect

LEMMA SendingPlaces ==
  ASSUME IndInv, PlaceInv, NEW s \in Senders, Sending(s)
  PROVE  Placed
<1>1. CASE Pop(s) \/ SendAsyn(s) \/ SendDummy(s) \/ SyncAnswer(s) \/ SyncCount(s)
  BY <1>1, PopPlaces, SendAsynPlaces, SendDummyPlaces, SyncAnswerPlaces, SyncCountPlaces
<1>2. CASE \/ LoopTest(s) \/ TakePermit(s) \/ SeeRequests(s) \/ TakeTokens(s)
           \/ ReleaseSlots(s) \/ SendSync(s) \/ SyncThrows(s) \/ Drained(s)
  <2>1. UNCHANGED <<queue, batch, cst, load, todo, put, issued, answers, pending>>
    BY <1>2 DEF LoopTest, TakePermit, SeeRequests, TakeTokens, ReleaseSlots, SendSync,
       SyncThrows, Drained, queueVars, callerVars, senderVars, callVars, tallyVars
  <2>2. /\ \A t \in Senders \ {s} : spc'[t] = spc[t]
        /\ \/ spc' = spc
           \/ spc[s] \in {"top", "permit", "peek", "take", "drain"} /\ spc'[s] # "count"
           \/ spc[s] \in {"release", "send"} /\ spc'[s] \in {"send", "answer"}
    <3>1. spc \in [Senders -> SenderSteps]
      BY DEF IndInv, Types
    <3>2. QED
      BY <1>2, <3>1 DEF LoopTest, TakePermit, SeeRequests, TakeTokens, ReleaseSlots, SendSync,
         SyncThrows, Drained, senderVars
  <2>3. Accepted' = Accepted
    BY <2>1, GivenSame
  <2>4. Unmoved
    BY <2>1, <2>2, <2>3 DEF Unmoved
  <2>5. QED
    BY <2>1, <2>4, UnmovedStep
<1>3. QED
  BY <1>1, <1>2 DEF Sending

\* Stop joins the senders and drops what is queued: nothing else is held then.
LEMMA StopJoinPlaces ==
  ASSUME IndInv, PlaceInv, StopJoin
  PROVE  Placed /\ Closes
<1>1. /\ stop = "join" /\ stop' = "stopped" /\ queue' = <<>>
      /\ \A s \in Senders : spc[s] = "done"
      /\ UNCHANGED <<batch, spc, cst, load, todo, put, issued, answers, pending>>
  BY DEF StopJoin, callerVars, senderVars, callVars, tallyVars
<1>2. \A s \in Senders : batch[s] = <<>>
  BY <1>1 DEF PlaceInv, Data, BatchData
<1>3. \A k \in CallIds : cst[k] = "free" /\ todo[k] = <<>> /\ put[k] = "no"
  <2>1. \A k \in CallIds : cst[k] = "free"
    BY <1>1, Owner DEF IndInv, Shape, CallShape
  <2>2. QED
    BY <2>1, CallFacts
<1>4. \A x \in Clients : put[x] = "no"
  BY <1>1 DEF IndInv, Shape, ClientShape, Clients
<1>5. Elements(<<>>) = {} /\ Distinct(<<>>)
  BY EmptyBatch
<1>6. \A h \in Holders : /\ h # InQueue => Held[h] = {} /\ Within[h] = {}
                         /\ Replied[h] = {}
  <2>1. Replied[InQueue] = {}
    BY HolderValues
  <2>2. \A s \in Senders : Held[Sends(s)] = {} /\ Within[Sends(s)] = {} /\ Replied[Sends(s)] = {}
    BY <1>1, <1>2, <1>5, HolderValues
  <2>3. \A k \in CallIds : Held[Calls(k)] = {} /\ Within[Calls(k)] = {} /\ Replied[Calls(k)] = {}
    <3>1. \A k \in CallIds : Owned(k) = {}
      BY <1>3, <1>5 DEF Owned
    <3>2. QED
      BY <1>3, <1>5, <3>1, HolderValues
  <2>4. QED
    BY <2>1, <2>2, <2>3, HolderKinds
<1>7. \A h \in Holders : Held'[h] = {} /\ Within'[h] = {} /\ Replied'[h] = {}
  <2>1. Held'[InQueue] = {} /\ Within'[InQueue] = {} /\ Replied'[InQueue] = {}
    BY <1>1, <1>5, HolderValuesAfter
  <2>2. \A h \in Holders \ {InQueue} : SameAt(h)
    <3>1. \A s \in Senders : SameAt(Sends(s))
      BY <1>1, SameHolders
    <3>2. \A k \in CallIds : SameAt(Calls(k))
      BY <1>1, SameHolders
    <3>3. QED
      BY <3>1, <3>2, HolderKinds
  <2>3. QED
    BY <1>6, <2>1, <2>2 DEF SameAt
<1>8. Counted = Anywhere /\ Ripe = {}
  <2>1. \A h \in Holders : Within[h] = Held[h]
    BY <1>6, HolderValues
  <2>2. Everything(Within) = Everything(Held) /\ Everything(Replied) = {}
    BY <1>6, <2>1 DEF Everything
  <2>3. QED
    BY <2>2, WithinHeld DEF Anywhere, Ripe
<1>9. Anywhere' = {} /\ Ripe' = {} /\ Counted' = {} /\ Apart(Held')
  <2>1. Everything(Held') = {} /\ Everything(Within') = {} /\ Everything(Replied') = {}
    BY <1>7 DEF Everything
  <2>2. Apart(Held')
    BY <1>7 DEF Apart
  <2>3. Anywhere' = {} /\ Ripe' = {}
    BY <2>1 DEF Anywhere, Ripe, Everything
  <2>4. QED
    BY <2>1, <2>2, <2>3, CountedAfter
<1>10. Accepted' = Accepted
  BY <1>1, GivenSame
<1>11. Accepted = {r \in Requests : r[2] <= issued[r[1]]}
  BY <1>4, RequestParts DEF Accepted
<1>12. Closes
  BY <1>1, <1>8, <1>9, <1>10, <1>11 DEF Closes
<1>13. Data'
  <2>a. UNCHANGED <<batch, spc, cst, load, todo>>
    BY <1>1
  <2>1. Sequenced'
    <3>1. Distinct(queue')
      BY <1>1, <1>5
    <3>2. QED
      BY <2>a, <3>1 DEF PlaceInv, Data, Sequenced, Distinct
  <2>2. CallData'
    BY <1>10, <2>a, CallDataSame
  <2>3. BatchData'
    BY <2>a DEF PlaceInv, Data, BatchData
  <2>4. QED
    BY <2>1, <2>2, <2>3 DEF Data
<1>14. QED
  BY <1>9, <1>12, <1>13 DEF Placed, Effect

LEMMA StoppingPlaces ==
  ASSUME IndInv, PlaceInv, Stopping
  PROVE  Placed
<1>1. CASE StopJoin
  BY <1>1, StopJoinPlaces
<1>2. CASE StopBegin \/ StopLook \/ StopEval \/ StopWakeDone
  <2>1. UNCHANGED <<queue, batch, spc, cst, load, todo, answers, pending>>
    BY <1>2 DEF StopBegin, StopLook, StopEval, StopWakeDone, queueVars, senderVars, callVars,
       tallyVars
  <2>2. Accepted' = Accepted /\ \A k \in CallIds : put'[k] = put[k]
    <3>1. CASE StopEval
      BY <3>1, EvalGiven DEF StopEval, Clients
    <3>2. CASE StopBegin \/ StopLook \/ StopWakeDone
      BY <3>2, GivenSame DEF StopBegin, StopLook, StopWakeDone, callerVars
    <3>3. QED
      BY <1>2, <3>1, <3>2
  <2>3. Unmoved
    BY <2>1, <2>2 DEF Unmoved
  <2>4. QED
    BY <2>1, <2>2, <2>3, UnmovedStep
<1>3. QED
  BY <1>1, <1>2 DEF Stopping

LEMMA Places ==
  ASSUME IndInv, PlaceInv, [Next]_vars
  PROVE  Placed
<1>1. CASE UNCHANGED vars
  <2>1. UNCHANGED <<queue, batch, spc, cst, load, todo, put, issued, answers, pending>>
    BY <1>1 DEF vars, queueVars, callerVars, senderVars, callVars, tallyVars
  <2>2. Accepted' = Accepted
    BY <2>1, GivenSame
  <2>3. Unmoved
    BY <2>1, <2>2 DEF Unmoved
  <2>4. QED
    BY <2>1, <2>3, UnmovedStep
<1>2. QED
  BY <1>1, PuttingPlaces, CallingPlaces, SendingPlaces, CallingBackPlaces, StoppingPlaces
     DEF Next, Ended

LEMMA PlaceInvStep ==
  ASSUME IndInv, PlaceInv, [Next]_vars
  PROVE  PlaceInv'
<1>1. Data' /\ Apart(Held') /\ Effect
  BY Places DEF Placed
<1>2. Fates'
  BY <1>1, FatesStep, StoppedStays
<1>3. QED
  BY <1>1, <1>2 DEF PlaceInv, Apart

LEMMA InitPlaceInv ==
  ASSUME Init
  PROVE  PlaceInv
<1>1. /\ queue = <<>> /\ pending = 0 /\ issued = [x \in Clients |-> 0]
      /\ put = [p \in Putters |-> "no"]
      /\ \A s \in Senders : batch[s] = <<>> /\ spc[s] = "top"
      /\ \A k \in CallIds : cst[k] = "free" /\ load[k] = <<>> /\ todo[k] = <<>>
      /\ answers = [r \in Requests |-> 0]
  BY DEF Init
<1>2. Elements(<<>>) = {} /\ Distinct(<<>>)
  BY EmptyBatch
<1>3. \A h \in Holders : Held[h] = {} /\ Within[h] = {} /\ Replied[h] = {}
  <2>1. Held[InQueue] = {} /\ Within[InQueue] = {} /\ Replied[InQueue] = {}
    BY <1>1, <1>2, HolderValues
  <2>2. \A s \in Senders : Held[Sends(s)] = {} /\ Within[Sends(s)] = {} /\ Replied[Sends(s)] = {}
    BY <1>1, <1>2, HolderValues
  <2>3. \A k \in CallIds : Held[Calls(k)] = {} /\ Within[Calls(k)] = {} /\ Replied[Calls(k)] = {}
    <3>1. \A k \in CallIds : Owned(k) = {}
      BY <1>1, <1>2, Owner DEF Owned
    <3>2. QED
      BY <1>1, <1>2, <3>1, HolderValues
  <2>4. QED
    BY <2>1, <2>2, <2>3, HolderKinds
<1>4. Anywhere = {} /\ Ripe = {} /\ Apart(Held)
  BY <1>3 DEF Anywhere, Ripe, Everything, Apart
<1>5. Counted = {}
  BY <1>1, <1>2, CountedIs
<1>6. Accepted = {}
  <2>1. SUFFICES ASSUME NEW r \in Accepted PROVE FALSE
    OBVIOUS
  <2>2. r \in Requests /\ r[2] <= issued[r[1]]
    BY DEF Accepted
  <2>3. PICK x \in Clients : r \in RequestsOf(x)
    BY <2>2 DEF Requests
  <2>4. Limit(x) \in Nat /\ r[1] = x /\ r[2] \in 1..Limit(x)
    BY <2>3, LimitIsNat DEF RequestsOf
  <2>5. issued[r[1]] = 0
    BY <1>1, <2>4
  <2>6. QED
    BY <2>2, <2>4, <2>5
<1>7. Data
  BY <1>1, <1>2 DEF Data, Sequenced, CallData, BatchData
<1>8. Fates
  <2>1. IsFiniteSet({}) /\ Cardinality({}) = 0
    BY FS_EmptySet
  <2>2. \A r \in Requests : ~(answers[r] > 0)
    BY <1>1
  <2>3. QED
    BY <1>1, <1>4, <1>5, <1>6, <2>1, <2>2 DEF Fates
<1>9. QED
  BY <1>4, <1>7, <1>8 DEF PlaceInv

\* Each request is where the invariant says.
THEOREM RequestsArePlaced == Spec => []PlaceInv
<1>1. Init => PlaceInv
  BY InitPlaceInv
<1>2. IndInv /\ PlaceInv /\ [Next]_vars => PlaceInv'
  BY PlaceInvStep
<1>3. QED
  BY <1>1, <1>2, IndInvAlways, PTL DEF Spec

------------------------------------------------------------------------------
(* A rollout that is over has its answers                                   *)

\* Without asynchronous requests no call ever begins.
NoCalls == ~IsAsyn => \A k \in CallIds : cst[k] = "free"

LEMMA NoCallsStep ==
  ASSUME IndInv, NoCalls, [Next]_vars
  PROVE  NoCalls'
<1>1. SUFFICES ASSUME ~IsAsyn PROVE \A k \in CallIds : cst'[k] = "free"
  BY DEF NoCalls
<1>2. \A k \in CallIds : cst[k] = "free" /\ put[k] = "no"
  BY <1>1 DEF NoCalls, IndInv, Shape, CallShape
<1>3. UNCHANGED cst
  <2>1. CASE UNCHANGED vars
    BY <2>1 DEF vars, callVars
  <2>2. ASSUME NEW p \in Putters, Putting(p) PROVE UNCHANGED cst
    BY <1>2, <2>2 DEF Putting, TakeSlot, SleepOnFull, Push, Signal, callVars
  <2>3. ASSUME NEW c \in Callers, Calling(c) PROVE UNCHANGED cst
    BY <2>3 DEF Calling, CallerEval, CallerBreak, CallerOver, callVars
  <2>4. ASSUME NEW s \in Senders, Sending(s) PROVE UNCHANGED cst
    <3>1. spc[s] # "peek"
      BY <1>1 DEF IndInv, Shape, SenderShape
    <3>2. QED
      BY <1>1, <2>4, <3>1 DEF Sending, LoopTest, TakePermit, SendDummy, SeeRequests, TakeTokens,
         Pop, ReleaseSlots, SendAsyn, SendSync, SyncThrows, SyncAnswer, SyncCount, Drained, callVars
  <2>5. ASSUME NEW k \in CallIds, CallingBack(k) PROVE UNCHANGED cst
    BY <1>2, <2>5 DEF CallingBack, Deliver, Answer, Count, Fail, FailCount, ReleasePermit
  <2>6. ASSUME Stopping PROVE UNCHANGED cst
    BY <2>6 DEF Stopping, StopBegin, StopLook, StopEval, StopWakeDone, StopJoin, callVars
  <2>7. QED
    BY <2>1, <2>2, <2>3, <2>4, <2>5, <2>6 DEF Next, Ended
<1>4. QED
  BY <1>2, <1>3

\* Where no response can fail, get_pending at 0 means that nothing is held.
LEMMA NonePending ==
  ASSUME IndInv, PlaceInv, NoCalls, MaxFailures = 0 \/ ~IsAsyn,
         stop # "stopped", ~(pending > 0)
  PROVE  \A r \in Accepted : answers[r] > 0
<1>1. Counted = {}
  <2>1. IsFiniteSet(Counted) /\ pending = Cardinality(Counted)
    BY DEF PlaceInv, Fates
  <2>2. Cardinality(Counted) \in Nat
    BY <2>1, FS_CardinalityType
  <2>3. Cardinality(Counted) = 0
    BY <2>1, <2>2
  <2>4. QED
    BY <2>1, <2>3, FS_EmptySet
<1>2. \A k \in CallIds : cst[k] \notin {"fail", "resend"}
  BY ClientAssumption, CallFacts DEF NoCalls
<1>3. Anywhere = {}
  <2>1. SUFFICES ASSUME NEW h \in Holders, NEW r \in Held[h] PROVE FALSE
    BY DEF Anywhere, Everything
  <2>2. CASE h = InQueue
    BY <1>1, <2>1, <2>2, HolderValues, CountedIs
  <2>3. ASSUME NEW s \in Senders, h = Sends(s) PROVE FALSE
    BY <1>1, <2>1, <2>3, HolderValues, CountedIs
  <2>4. ASSUME NEW k \in CallIds, h = Calls(k) PROVE FALSE
    <3>1. put[k] = "no" /\ cst[k] \notin {"fail", "resend"}
      BY <1>2, CallFacts
    <3>2. r \in Elements(todo[k])
      BY <2>1, <2>4, <3>1, HolderValues DEF Owned
    <3>3. QED
      BY <1>1, <3>1, <3>2, CountedIs
  <2>5. QED
    BY <2>2, <2>3, <2>4, HolderKinds
<1>4. \A r \in Requests : answers[r] \in Nat
  BY DEF IndInv, Types
<1>5. \A r \in Accepted : ~(answers[r] = 0)
  BY <1>3 DEF PlaceInv, Fates
<1>6. \A r \in Accepted : r \in Requests
  BY DEF Accepted
<1>7. QED
  BY <1>4, <1>5, <1>6

\* No step takes an answer back.
LEMMA AnswersGrow ==
  ASSUME IndInv, PlaceInv, [Next]_vars
  PROVE  \A r \in Requests : answers[r] > 0 => answers'[r] > 0
<1>1. Effect
  BY Places DEF Placed
<1>2. CASE Still \/ Closes
  BY <1>2 DEF Still, Closes
<1>3. ASSUME NEW r \in Requests, Comes(r) \/ Replies(r) \/ Retires(r) \/ IsSetAside(r)
      PROVE  \A q \in Requests : answers[q] > 0 => answers'[q] > 0
  <2>1. CASE Replies(r)
    <3>1. answers' = [answers EXCEPT ![r] = answers[r] + 1]
      BY <2>1 DEF Replies
    <3>2. answers \in [Requests -> Nat]
      BY DEF IndInv, Types
    <3>3. QED
      BY <3>1, <3>2
  <2>2. CASE Comes(r) \/ Retires(r) \/ IsSetAside(r)
    BY <2>2 DEF Comes, Retires, IsSetAside
  <2>3. QED
    BY <1>3, <2>1, <2>2
<1>4. QED
  BY <1>1, <1>2, <1>3 DEF Effect

\* A rollout that is over hands no more requests to Eval.
LEMMA OverIssues ==
  ASSUME IndInv, [Next]_vars, NEW c \in Callers, cpc[c] = "over"
  PROVE  issued'[c] = issued[c]
<1>1. c \in Clients /\ c # Stopper /\ issued \in [Clients -> Nat]
  BY ClientAssumption DEF Clients, IndInv, Types
<1>2. CASE UNCHANGED vars
  BY <1>2 DEF vars, callerVars
<1>3. ASSUME NEW p \in Putters, Putting(p) PROVE issued'[c] = issued[c]
  BY <1>3 DEF Putting, TakeSlot, SleepOnFull, Push, Signal, callerVars
<1>4. ASSUME NEW d \in Callers, Calling(d) PROVE issued'[c] = issued[c]
  BY <1>1, <1>4 DEF Calling, CallerEval, CallerBreak, CallerOver, EvalCall
<1>5. ASSUME NEW s \in Senders, Sending(s) PROVE issued'[c] = issued[c]
  BY <1>5 DEF Sending, LoopTest, TakePermit, SendDummy, SeeRequests, TakeTokens, Pop,
     ReleaseSlots, SendAsyn, SendSync, SyncThrows, SyncAnswer, SyncCount, Drained, callerVars
<1>6. ASSUME NEW k \in CallIds, CallingBack(k) PROVE issued'[c] = issued[c]
  BY <1>6 DEF CallingBack, Deliver, Answer, Count, Fail, FailCount, ReleasePermit, callerVars
<1>7. ASSUME Stopping PROVE issued'[c] = issued[c]
  BY <1>1, <1>7 DEF Stopping, StopBegin, StopLook, StopEval, StopWakeDone, StopJoin, EvalCall,
     callerVars
<1>8. QED
  BY <1>2, <1>3, <1>4, <1>5, <1>6, <1>7 DEF Next, Ended

\* A rollout becomes over only by finding get_pending at 0.
LEMMA BecomesOver ==
  ASSUME IndInv, [Next]_vars, NEW c \in Callers, cpc[c] # "over", cpc'[c] = "over"
  PROVE  cpc[c] = "poll" /\ ~(pending > 0) /\ issued' = issued
<1>1. cpc \in [Callers -> {"run", "poll", "over"}]
  BY DEF IndInv, Types
<1>2. CASE UNCHANGED vars
  BY <1>2 DEF vars, callerVars
<1>3. ASSUME NEW p \in Putters, Putting(p) PROVE FALSE
  BY <1>3 DEF Putting, TakeSlot, SleepOnFull, Push, Signal, callerVars
<1>4. ASSUME NEW d \in Callers, Calling(d)
      PROVE  cpc[c] = "poll" /\ ~(pending > 0) /\ issued' = issued
  BY <1>1, <1>4 DEF Calling, CallerEval, CallerBreak, CallerOver
<1>5. ASSUME NEW s \in Senders, Sending(s) PROVE FALSE
  BY <1>5 DEF Sending, LoopTest, TakePermit, SendDummy, SeeRequests, TakeTokens, Pop,
     ReleaseSlots, SendAsyn, SendSync, SyncThrows, SyncAnswer, SyncCount, Drained, callerVars
<1>6. ASSUME NEW k \in CallIds, CallingBack(k) PROVE FALSE
  BY <1>6 DEF CallingBack, Deliver, Answer, Count, Fail, FailCount, ReleasePermit, callerVars
<1>7. ASSUME Stopping PROVE FALSE
  BY <1>7 DEF Stopping, StopBegin, StopLook, StopEval, StopWakeDone, StopJoin, callerVars
<1>8. QED
  BY <1>2, <1>3, <1>4, <1>5, <1>6, <1>7 DEF Next, Ended

LEMMA OverStep ==
  ASSUME IndInv, PlaceInv, NoCalls, MaxFailures = 0 \/ ~IsAsyn, OverMeansAnswered, [Next]_vars
  PROVE  OverMeansAnswered'
<1>1. SUFFICES ASSUME NEW c \in Callers, cpc'[c] = "over", NEW i \in 1..issued'[c]
               PROVE  answers'[<<c, i>>] > 0
  BY DEF OverMeansAnswered
<1>2. c \in Clients /\ c # Stopper /\ issued[c] \in Nat /\ issued[c] <= Limit(c) /\ Limit(c) \in Nat
  BY LimitIsNat, ClientAssumption DEF Clients, IndInv, Types, Shape, ClientShape
<1>3. issued'[c] = issued[c]
  BY <1>1, OverIssues, BecomesOver
<1>4. i \in 1..Limit(c) /\ i <= issued[c]
  BY <1>2, <1>3
<1> DEFINE r == <<c, i>>
<1>5. r \in Requests /\ r[1] = c /\ r[2] = i
  BY <1>2, <1>4 DEF Requests, RequestsOf
<1> HIDE DEF r
<1>6. answers[r] > 0
  <2>1. CASE cpc[c] = "over"
    BY <1>3, <2>1 DEF OverMeansAnswered, r
  <2>2. CASE cpc[c] # "over"
    <3>1. cpc[c] = "poll" /\ ~(pending > 0)
      BY <1>1, <2>2, BecomesOver
    <3>2. put[c] = "no" /\ stop # "stopped"
      BY <3>1 DEF IndInv, Shape, ClientShape
    <3>3. r \in Accepted
      BY <1>4, <1>5, <3>2 DEF Accepted
    <3>4. QED
      BY <3>1, <3>2, <3>3, NonePending
  <2>3. QED
    BY <2>1, <2>2
<1>7. QED
  BY <1>5, <1>6, AnswersGrow DEF r

\* OverMeansAnswered: where no response of an asynchronous request can fail, a
\* rollout that has polled get_pending to 0 has all its answers, with any number
\* of search threads, senders and requests.  (A failed batch is out of the count
\* until it is queued again, so that with failures this is false.)
THEOREM OverIsAnswered ==
  MaxFailures = 0 \/ ~IsAsyn => (Spec => []OverMeansAnswered)
<1>1. SUFFICES ASSUME MaxFailures = 0 \/ ~IsAsyn PROVE Spec => []OverMeansAnswered
  OBVIOUS
<1>2. Init => NoCalls /\ OverMeansAnswered
  BY DEF Init, NoCalls, OverMeansAnswered
<1>3. IndInv /\ NoCalls /\ [Next]_vars => NoCalls'
  BY NoCallsStep
<1>4. IndInv /\ PlaceInv /\ NoCalls /\ OverMeansAnswered /\ [Next]_vars => OverMeansAnswered'
  BY <1>1, OverStep
<1>5. QED
  BY <1>2, <1>3, <1>4, IndInvAlways, RequestsArePlaced, PTL DEF Spec

------------------------------------------------------------------------------
(* The client is the service                                                *)

\* The status of a request, from the sets of the invariant.
StatusMeans ==
    \A r \in Requests :
        /\ answers[r] > 0 /\ r \in Counted    => Status(r) = "answered"
        /\ answers[r] > 0 /\ r \notin Counted => Status(r) = "done"
        /\ answers[r] = 0 /\ r \in Counted    => Status(r) = "pending"
        /\ answers[r] = 0 /\ r \notin Counted /\ stop # "stopped" =>
              /\ r \in Accepted    => Status(r) = "retry"
              /\ r \notin Accepted => Status(r) = "fresh"
        /\ answers[r] = 0 /\ r \notin Counted /\ stop = "stopped" =>
              /\ r[2] <= issued[r[1]]    => Status(r) = "dropped"
              /\ ~(r[2] <= issued[r[1]]) => Status(r) = "fresh"

\* A request without an answer that has reached the queue and is not in the
\* count is one of a failed batch.
LEMMA RetryingIs ==
  ASSUME IndInv, PlaceInv, stop # "stopped",
         NEW r \in Requests, answers[r] = 0, r \notin Counted
  PROVE  r \in Retrying <=> r \in Accepted
<1>1. ASSUME r \in Retrying PROVE r \in Accepted
  <2>1. PICK k \in CallIds : r \in Elements(load[k])
    BY <1>1 DEF Retrying
  <2>2. QED
    BY <2>1, CallFacts
<1>2. ASSUME r \in Accepted PROVE r \in Retrying
  <2>1. PICK h \in Holders : r \in Held[h]
    BY <1>2 DEF PlaceInv, Fates, Anywhere, Everything
  <2>2. CASE h = InQueue
    BY <2>1, <2>2, HolderValues, CountedIs
  <2>3. ASSUME NEW s \in Senders, h = Sends(s) PROVE FALSE
    BY <2>1, <2>3, HolderValues, CountedIs
  <2>4. ASSUME NEW k \in CallIds, h = Calls(k) PROVE r \in Retrying
    <3>1. r \in Owned(k)
      BY <2>1, <2>4, HolderValues
    <3>2. cst[k] # "resend" => r \notin Elements(todo[k])
      BY CountedIs
    <3>3. CASE cst[k] = "fail"
      <4>1. r \in Elements(load[k])
        BY <3>1, <3>3 DEF Owned
      <4>2. QED
        BY <3>3, <4>1 DEF Retrying
    <3>4. CASE cst[k] = "resend"
      <4>1. todo[k] \in Seq(Requests) /\ todo[k] # <<>>
        BY <3>4, CallFacts
      <4>2. Elements(Tail(todo[k])) \subseteq Elements(todo[k])
        BY <4>1, TailElements
      <4>3. r \in Elements(todo[k])
        BY <3>1, <3>4, <4>2 DEF Owned
      <4>4. r \in Elements(load[k])
        BY <3>4, <4>3, CallFacts
      <4>5. QED
        BY <3>4, <4>4 DEF Retrying
    <3>5. CASE cst[k] \notin {"fail", "resend"}
      <4>1. put[k] = "no"
        BY <3>5, CallFacts
      <4>2. r \in Elements(todo[k])
        BY <3>1, <3>5, <4>1 DEF Owned
      <4>3. QED
        BY <3>2, <3>5, <4>2
    <3>6. QED
      BY <3>3, <3>4, <3>5
  <2>5. QED
    BY <2>2, <2>3, <2>4, HolderKinds
<1>3. QED
  BY <1>1, <1>2

LEMMA StatusIs ==
  ASSUME IndInv, PlaceInv
  PROVE  StatusMeans
<1>1. SUFFICES ASSUME NEW r \in Requests
      PROVE /\ answers[r] > 0 /\ r \in Counted    => Status(r) = "answered"
            /\ answers[r] > 0 /\ r \notin Counted => Status(r) = "done"
            /\ answers[r] = 0 /\ r \in Counted    => Status(r) = "pending"
            /\ answers[r] = 0 /\ r \notin Counted /\ stop # "stopped" =>
                  /\ r \in Accepted    => Status(r) = "retry"
                  /\ r \notin Accepted => Status(r) = "fresh"
            /\ answers[r] = 0 /\ r \notin Counted /\ stop = "stopped" =>
                  /\ r[2] <= issued[r[1]]    => Status(r) = "dropped"
                  /\ ~(r[2] <= issued[r[1]]) => Status(r) = "fresh"
  BY DEF StatusMeans
<1>2. answers[r] \in Nat /\ ~(answers[r] > 0 /\ answers[r] = 0)
  BY DEF IndInv, Types
<1>3. CASE answers[r] > 0
  BY <1>2, <1>3 DEF Status
<1>4. CASE answers[r] = 0 /\ r \in Counted
  BY <1>2, <1>4 DEF Status
<1>5. CASE answers[r] = 0 /\ r \notin Counted
  <2>1. Status(r) = IF r \in Retrying THEN "retry"
                    ELSE IF stop = "stopped" /\ r[2] <= issued[r[1]] THEN "dropped" ELSE "fresh"
    BY <1>2, <1>5 DEF Status
  <2>2. CASE stop # "stopped"
    BY <1>2, <1>5, <2>1, <2>2, RetryingIs
  <2>3. CASE stop = "stopped"
    <3>1. r \notin Retrying
      BY <2>3, Quiet DEF StoppedIsQuiet, Retrying
    <3>2. QED
      BY <1>2, <1>5, <2>1, <2>3, <3>1
  <2>4. QED
    BY <2>2, <2>3
<1>6. QED
  BY <1>2, <1>3, <1>4, <1>5

\* Once Stop has returned nothing moves, and only StopJoin gets there.
LEMMA StoppedRests ==
  ASSUME IndInv, [Next]_vars, stop = "stopped"
  PROVE  UNCHANGED vars
<1>1. /\ \A p \in Putters : put[p] = "no"
      /\ \A s \in Senders : spc[s] = "done"
      /\ \A k \in CallIds : cst[k] = "free"
      /\ \A c \in Callers : cpc[c] = "over"
  BY Quiet DEF StoppedIsQuiet, IndInv, Shape, ClientShape
<1>2. ASSUME NEW p \in Putters, Putting(p) PROVE FALSE
  BY <1>1, <1>2 DEF Putting, TakeSlot, SleepOnFull, Push, Signal
<1>3. ASSUME NEW c \in Callers, Calling(c) PROVE FALSE
  BY <1>1, <1>3 DEF Calling, CallerEval, CallerBreak, CallerOver
<1>4. ASSUME NEW s \in Senders, Sending(s) PROVE FALSE
  BY <1>1, <1>4 DEF Sending, LoopTest, TakePermit, SendDummy, SeeRequests, TakeTokens, Pop,
     ReleaseSlots, SendAsyn, SendSync, SyncThrows, SyncAnswer, SyncCount, Drained
<1>5. ASSUME NEW k \in CallIds, CallingBack(k) PROVE FALSE
  BY <1>1, <1>5 DEF CallingBack, Deliver, Answer, Count, Fail, FailCount, ReleasePermit
<1>6. ASSUME Stopping PROVE FALSE
  BY <1>6 DEF Stopping, StopBegin, StopLook, StopEval, StopWakeDone, StopJoin
<1>7. QED
  BY <1>2, <1>3, <1>4, <1>5, <1>6 DEF Next, Ended

LEMMA OnlyJoinStops ==
  ASSUME [Next]_vars, stop # "stopped", ~StopJoin
  PROVE  stop' # "stopped"
<1>1. CASE UNCHANGED vars
  BY <1>1 DEF vars, endVars
<1>2. CASE \E p \in Putters : Putting(p)
  BY <1>2 DEF Putting, TakeSlot, SleepOnFull, Push, Signal, endVars
<1>3. CASE \E c \in Callers : Calling(c)
  BY <1>3 DEF Calling, CallerEval, CallerBreak, CallerOver, endVars
<1>4. CASE \E s \in Senders : Sending(s)
  BY <1>4 DEF Sending, LoopTest, TakePermit, SendDummy, SeeRequests, TakeTokens, Pop,
       ReleaseSlots, SendAsyn, SendSync, SyncThrows, SyncAnswer, SyncCount, Drained, endVars
<1>5. CASE \E k \in CallIds : CallingBack(k)
  BY <1>5 DEF CallingBack, Deliver, Answer, Count, Fail, FailCount, ReleasePermit, endVars
<1>6. CASE Stopping
  BY <1>6 DEF Stopping, StopBegin, StopLook, StopEval, StopWakeDone
<1>7. QED
  BY <1>1, <1>2, <1>3, <1>4, <1>5, <1>6 DEF Next, Ended

\* One request changes its status.
LEMMA OneMoves ==
  ASSUME NEW r \in Requests, NEW from, NEW to, stop # "stopped", stop' # "stopped",
         Status(r) = from, Status(r)' = to,
         \A q \in Requests : q # r => Status(q)' = Status(q)
  PROVE  Service!Move(r, from, to)
<1>1. [q \in Requests |-> Status(q)]' = [[q \in Requests |-> Status(q)] EXCEPT ![r] = to]
  OBVIOUS
<1>2. (stop = "stopped")' <=> (stop = "stopped")
  OBVIOUS
<1>3. QED
  BY <1>1, <1>2 DEF Service!Move

\* A step of the client with requests in flight is one of the service.
LEMMA OpenStep ==
  ASSUME IndInv, PlaceInv, StatusMeans, StatusMeans', Effect,
         stop # "stopped", stop' # "stopped"
  PROVE  \/ \E r \in Requests : \/ Service!Accept(r) \/ Service!Answer(r) \/ Service!Retire(r)
                                \/ Service!SetAside(r) \/ Service!Resume(r)
         \/ UNCHANGED pending /\ \A q \in Requests : Status(q)' = Status(q)
<1>1. \A q \in Requests : answers[q] \in Nat /\ (answers[q] > 0 \/ answers[q] = 0)
  BY DEF IndInv, Types
<1>2. answers \in [Requests -> Nat]
  BY DEF IndInv, Types
\* A request whose part in the sets does not change keeps its status.
<1>3. ASSUME NEW q \in Requests, answers'[q] = answers[q],
             q \in Counted' <=> q \in Counted, q \in Accepted' <=> q \in Accepted
      PROVE  Status(q)' = Status(q)
  <2>1. CASE answers[q] > 0
    BY <1>3, <2>1 DEF StatusMeans
  <2>2. CASE answers[q] = 0
    BY <1>3, <2>2 DEF StatusMeans
  <2>3. QED
    BY <1>1, <2>1, <2>2
<1>4. CASE Still
  BY <1>3, <1>4 DEF Still
<1>5. ASSUME NEW r \in Requests, Comes(r)
      PROVE  Service!Accept(r) \/ Service!Resume(r)
  <2>1. /\ r \notin Counted /\ answers[r] = 0 /\ answers' = answers /\ pending' = pending + 1
        /\ Accepted' = Accepted \cup {r} /\ Counted' = Counted \cup {r}
    BY <1>5 DEF Comes
  <2>2. \A q \in Requests : q # r => Status(q)' = Status(q)
    BY <1>3, <2>1
  <2>3. Status(r)' = "pending"
    BY <2>1 DEF StatusMeans
  <2>4. CASE r \in Accepted
    <3>1. Status(r) = "retry"
      BY <2>1, <2>4 DEF StatusMeans
    <3>2. Service!Move(r, "retry", "pending")
      BY <2>2, <2>3, <3>1, OneMoves
    <3>3. QED
      BY <2>1, <3>2 DEF Service!Resume
  <2>5. CASE r \notin Accepted
    <3>1. Status(r) = "fresh"
      BY <2>1, <2>5 DEF StatusMeans
    <3>2. Service!Move(r, "fresh", "pending")
      BY <2>2, <2>3, <3>1, OneMoves
    <3>3. QED
      BY <2>1, <3>2 DEF Service!Accept
  <2>6. QED
    BY <2>4, <2>5
<1>6. ASSUME NEW r \in Requests, Replies(r)
      PROVE  Service!Answer(r)
  <2>1. /\ r \in Counted /\ answers[r] = 0 /\ answers' = [answers EXCEPT ![r] = answers[r] + 1]
        /\ pending' = pending /\ Accepted' = Accepted /\ Counted' = Counted
    BY <1>6 DEF Replies
  <2>2. answers'[r] > 0 /\ \A q \in Requests : q # r => answers'[q] = answers[q]
    BY <1>2, <2>1
  <2>3. \A q \in Requests : q # r => Status(q)' = Status(q)
    BY <1>3, <2>1, <2>2
  <2>4. Status(r) = "pending" /\ Status(r)' = "answered"
    BY <2>1, <2>2 DEF StatusMeans
  <2>5. Service!Move(r, "pending", "answered")
    BY <2>3, <2>4, OneMoves
  <2>6. QED
    BY <2>1, <2>5 DEF Service!Answer
<1>7. ASSUME NEW r \in Requests, Retires(r)
      PROVE  Service!Retire(r)
  <2>1. /\ r \in Counted /\ answers' = answers /\ pending' = pending - 1
        /\ Accepted' = Accepted /\ Counted' = Counted \ {r}
    BY <1>7 DEF Retires
  <2>2. answers[r] > 0
    BY <1>7, Nested DEF Retires, PlaceInv, Fates
  <2>3. \A q \in Requests : q # r => Status(q)' = Status(q)
    BY <1>3, <2>1
  <2>4. Status(r) = "answered" /\ Status(r)' = "done"
    BY <2>1, <2>2 DEF StatusMeans
  <2>5. Service!Move(r, "answered", "done")
    BY <2>3, <2>4, OneMoves
  <2>6. QED
    BY <2>1, <2>5 DEF Service!Retire
<1>8. ASSUME NEW r \in Requests, IsSetAside(r)
      PROVE  Service!SetAside(r)
  <2>1. /\ MaxFailures > 0 /\ r \in Counted /\ answers[r] = 0 /\ answers' = answers
        /\ pending' = pending - 1 /\ Accepted' = Accepted /\ Counted' = Counted \ {r}
    BY <1>8 DEF IsSetAside
  <2>2. r \in Accepted
    BY <2>1, Nested DEF PlaceInv, Fates
  <2>3. \A q \in Requests : q # r => Status(q)' = Status(q)
    BY <1>3, <2>1
  <2>4. Status(r) = "pending" /\ Status(r)' = "retry"
    BY <2>1, <2>2 DEF StatusMeans
  <2>5. Service!Move(r, "pending", "retry")
    BY <2>3, <2>4, OneMoves
  <2>6. QED
    BY <2>1, <2>5 DEF Service!SetAside
<1>9. ~Closes
  BY DEF Closes
<1>10. QED
  BY <1>4, <1>5, <1>6, <1>7, <1>8, <1>9 DEF Effect, Still

\* The end of Stop.
LEMMA CloseStep ==
  ASSUME IndInv, PlaceInv, StatusMeans, StatusMeans', Closes
  PROVE  Service!Close
<1>1. /\ stop # "stopped" /\ stop' = "stopped" /\ Counted' = {}
      /\ UNCHANGED <<answers, pending, issued>>
      /\ Counted = Anywhere /\ Ripe = {}
      /\ Accepted = {r \in Requests : r[2] <= issued[r[1]]}
  BY DEF Closes
<1>2. ASSUME NEW q \in Requests
      PROVE  Status(q)' = IF Status(q) \in {"pending", "retry"} THEN "dropped" ELSE Status(q)
  <2>1. answers[q] > 0 \/ answers[q] = 0
    BY DEF IndInv, Types
  <2>2. CASE answers[q] > 0
    <3>1. q \notin Counted
      BY <1>1, <2>2 DEF PlaceInv, Fates
    <3>2. Status(q) = "done" /\ Status(q)' = "done"
      BY <1>1, <2>2, <3>1 DEF StatusMeans
    <3>3. QED
      BY <3>2
  <2>3. CASE answers[q] = 0 /\ q \in Accepted
    <3>1. Status(q) \in {"pending", "retry"}
      BY <1>1, <2>3 DEF StatusMeans
    <3>2. Status(q)' = "dropped"
      BY <1>1, <2>3 DEF StatusMeans
    <3>3. QED
      BY <3>1, <3>2
  <2>4. CASE answers[q] = 0 /\ q \notin Accepted
    <3>1. q \notin Counted
      BY <2>4, Nested DEF PlaceInv, Fates
    <3>2. Status(q) = "fresh" /\ Status(q)' = "fresh"
      BY <1>1, <2>4, <3>1 DEF StatusMeans
    <3>3. QED
      BY <3>2
  <2>5. QED
    BY <2>1, <2>2, <2>3, <2>4
<1>3. [q \in Requests |-> Status(q)]' =
         [q \in Requests |-> IF [p \in Requests |-> Status(p)][q] \in {"pending", "retry"}
                             THEN "dropped" ELSE [p \in Requests |-> Status(p)][q]]
  BY <1>2
<1>4. QED
  BY <1>1, <1>3 DEF Service!Close

LEMMA ServiceStep ==
  ASSUME IndInv, PlaceInv, StatusMeans, StatusMeans', [Next]_vars
  PROVE  [Service!ServiceNext]_<<[r \in Requests |-> Status(r)], pending, stop = "stopped">>
<1>1. CASE stop = "stopped"
  <2>1. UNCHANGED vars
    BY <1>1, StoppedRests
  <2>2. UNCHANGED <<queue, batch, cst, load, todo, answers, pending, stop, issued>>
    BY <2>1 DEF vars, queueVars, callerVars, senderVars, callVars, endVars, tallyVars
  <2>3. \A q \in Requests : Status(q)' = Status(q)
    BY <2>2 DEF Status, Counted, Retrying, Elements
  <2>4. QED
    BY <2>2, <2>3
<1>2. CASE StopJoin
  <2>1. Closes
    BY <1>2, StopJoinPlaces
  <2>2. QED
    BY <2>1, CloseStep DEF Service!ServiceNext
<1>3. CASE stop # "stopped" /\ ~StopJoin
  <2>1. Effect /\ stop' # "stopped"
    BY <1>3, Places, OnlyJoinStops DEF Placed
  <2>2. CASE UNCHANGED pending /\ \A q \in Requests : Status(q)' = Status(q)
    BY <1>3, <2>1, <2>2
  <2>3. CASE \E r \in Requests : \/ Service!Accept(r) \/ Service!Answer(r) \/ Service!Retire(r)
                                 \/ Service!SetAside(r) \/ Service!Resume(r)
    BY <2>3 DEF Service!ServiceNext
  <2>4. QED
    BY <1>3, <2>1, <2>2, <2>3, OpenStep
<1>4. QED
  BY <1>1, <1>2, <1>3

\* Refinement: the client is the service of EvalService.  Whatever threads,
\* batches, failures and a stop do, each request is answered at most once,
\* get_pending moves with the requests, and only Stop drops any.
THEOREM ClientIsService == Spec => Refinement
<1>1. Init => Service!ServiceInit
  <2>1. SUFFICES ASSUME Init
                 PROVE  /\ [r \in Requests |-> Status(r)] = [r \in Requests |-> "fresh"]
                        /\ pending = 0 /\ ~(stop = "stopped")
    BY DEF Service!ServiceInit
  <2>2. pending = 0 /\ stop = "off" /\ answers = [r \in Requests |-> 0]
    BY <2>1 DEF Init
  <2>3. queue = <<>> /\ (\A s \in Senders : batch[s] = <<>>)
        /\ \A k \in CallIds : cst[k] = "free" /\ todo[k] = <<>>
    BY <2>1 DEF Init
  <2>4. Counted = {} /\ Retrying = {}
    <3>1. Counted = {}
      BY <2>3, EmptyBatch, CountedIs
    <3>2. Retrying = {}
      BY <2>3 DEF Retrying
    <3>3. QED
      BY <3>1, <3>2
  <2>5. \A r \in Requests : Status(r) = "fresh"
    BY <2>2, <2>4 DEF Status
  <2>6. QED
    BY <2>2, <2>5
<1>2. IndInv /\ PlaceInv => StatusMeans
  BY StatusIs
<1>3. IndInv /\ PlaceInv /\ StatusMeans /\ StatusMeans' /\ [Next]_vars =>
         [Service!ServiceNext]_<<[r \in Requests |-> Status(r)], pending, stop = "stopped">>
  BY ServiceStep
<1>4. QED
  BY <1>1, <1>2, <1>3, IndInvAlways, RequestsArePlaced, PTL
     DEF Spec, Refinement, Service!ServiceSpec, Service!evars

------------------------------------------------------------------------------
(* Stop's loop ends                                                         *)

\* The empty boards of Stop that no sender has taken.
StopperWaits ==
    {r \in Elements(queue) : r[1] = Stopper}
        \cup {r \in {<<Stopper, issued[Stopper]>>} : put[Stopper] \in {"slot", "push"}}

\* Once eval_terminate is set, a sender that pops goes to its drain loop before
\* it could pop again: each sender that will not pop any more has taken at most
\* a batch of Stop's boards.
MayPop == {s \in Senders : spc[s] \in {"permit", "peek", "take", "pop"}}
StopperBound ==
    issued[Stopper] - Cardinality(StopperWaits)
        <= BatchSize * (Cardinality(Senders) - Cardinality(MayPop))

StopInv ==
    /\ stop = "off" => issued[Stopper] = 0
    /\ stop # "off" => terminate
    /\ stop = "look" => Len(queue) <= seen.most
    /\ stop \in {"size", "look"} => StopperBound

LEMMA BatchCount ==
  ASSUME NEW q \in Seq(Requests)
  PROVE  IsFiniteSet(Elements(q)) /\ Cardinality(Elements(q)) <= Len(q)
<1>1. Len(q) \in Nat /\ DOMAIN q = 1..Len(q)
  BY LenProperties
<1>2. IsFiniteSet(1..Len(q)) /\ Cardinality(1..Len(q)) = Len(q)
  BY <1>1, FS_Interval
<1> DEFINE f == [i \in 1..Len(q) |-> q[i]]
<1>3. f \in Surjection(1..Len(q), Elements(q))
  BY <1>1 DEF Elements, Surjection
<1>4. QED
  BY <1>2, <1>3, FS_Surjection

\* A product as a sum, and its growth.
LEMMA BatchesGrow ==
  ASSUME NEW b \in Nat, NEW m \in Nat, NEW n \in Nat, m <= n
  PROVE  b * m <= b * n /\ b * (m + 1) = b * m + b
<1>1. PICK d \in Nat : n = m + d
  <2>1. n - m \in Nat /\ n = m + (n - m)
    OBVIOUS
  <2>2. QED
    BY <2>1
<1>2. b * d \in Nat /\ b * n = b * m + b * d
  BY <1>1
<1>3. QED
  BY <1>2

\* The sets are finite.
LEMMA StopCounts ==
  ASSUME Types
  PROVE  /\ IsFiniteSet(StopperWaits) /\ Cardinality(StopperWaits) \in Nat
         /\ IsFiniteSet(MayPop) /\ Cardinality(MayPop) \in Nat
         /\ Cardinality(MayPop) <= Cardinality(Senders) /\ Cardinality(Senders) \in Nat
         /\ issued[Stopper] \in Nat
<1>1. IsFiniteSet(Elements(queue) \cup {<<Stopper, issued[Stopper]>>})
  BY BatchCount, FS_AddElement DEF Types
<1>2. StopperWaits \in SUBSET (Elements(queue) \cup {<<Stopper, issued[Stopper]>>})
  BY DEF StopperWaits
<1>3. IsFiniteSet(StopperWaits)
  BY <1>1, <1>2, FS_Subset
<1>4. IsFiniteSet(Senders) /\ MayPop \in SUBSET Senders
  BY ClientAssumption DEF MayPop
<1>5. issued[Stopper] \in Nat
  BY DEF Types, Clients
<1>6. QED
  BY <1>3, <1>4, <1>5, FS_Subset, FS_CardinalityType

LEMMA StopCountsAfter ==
  ASSUME Types'
  PROVE  /\ IsFiniteSet(StopperWaits') /\ Cardinality(StopperWaits') \in Nat
         /\ IsFiniteSet(MayPop') /\ Cardinality(MayPop') \in Nat
         /\ Cardinality(MayPop') <= Cardinality(Senders)
         /\ issued'[Stopper] \in Nat
<1>0. queue' \in Seq(Requests)
  BY DEF Types
<1>1. IsFiniteSet(Elements(queue') \cup {<<Stopper, issued'[Stopper]>>})
  BY <1>0, BatchCount, FS_AddElement
<1>2. StopperWaits' \in SUBSET (Elements(queue') \cup {<<Stopper, issued'[Stopper]>>})
  BY DEF StopperWaits, Elements
<1>3. IsFiniteSet(StopperWaits')
  BY <1>1, <1>2, FS_Subset
<1>4. IsFiniteSet(Senders) /\ MayPop' \in SUBSET Senders
  BY ClientAssumption DEF MayPop
<1>5. issued'[Stopper] \in Nat
  BY DEF Types, Clients
<1>6. QED
  BY <1>3, <1>4, <1>5, FS_Subset, FS_CardinalityType

\* A step that takes no board of Stop and sends no sender to pop.
LEMMA BoundKept ==
  ASSUME Types, Types', StopperBound, issued'[Stopper] = issued[Stopper],
         StopperWaits \subseteq StopperWaits', MayPop' \subseteq MayPop
  PROVE  StopperBound'
<1> DEFINE w == Cardinality(StopperWaits)
           v == Cardinality(StopperWaits')
           m == Cardinality(MayPop)
           n == Cardinality(MayPop')
           c == Cardinality(Senders)
<1>1. w \in Nat /\ v \in Nat /\ m \in Nat /\ n \in Nat /\ c \in Nat /\ m <= c /\ n <= c
      /\ issued[Stopper] \in Nat
  BY StopCounts, StopCountsAfter
<1>2. w <= v
  BY StopCountsAfter, FS_Subset
<1>3. n <= m
  BY StopCounts, FS_Subset
<1>4. issued[Stopper] - w <= BatchSize * (c - m)
  BY DEF StopperBound
<1> HIDE DEF w, v, m, n, c
<1>5. BatchSize \in Nat /\ c - m \in Nat /\ c - n \in Nat /\ c - m <= c - n
  BY <1>1, <1>3, ClientAssumption
<1>6. BatchSize * (c - m) <= BatchSize * (c - n)
  BY <1>5, BatchesGrow
<1> DEFINE x == BatchSize * (c - m)
           y == BatchSize * (c - n)
<1>7. x \in Nat /\ y \in Nat
  BY <1>5
<1>8. issued[Stopper] - w <= x /\ x <= y
  BY <1>4, <1>6
<1> HIDE DEF x, y
<1>9. issued[Stopper] - v <= y
  BY <1>1, <1>2, <1>7, <1>8
<1>10. QED
  BY <1>9 DEF StopperBound, v, n, c, y

\* A sender that pops takes at most a batch, and does not pop again.
LEMMA PopBound ==
  ASSUME IndInv, Types', StopperBound, NEW s \in Senders, Pop(s)
  PROVE  StopperBound'
<1> DEFINE n == fetch[s]
           q == SubSeq(queue, 1, n)
           w == Cardinality(StopperWaits)
           v == Cardinality(StopperWaits')
           m == Cardinality(MayPop)
           c == Cardinality(Senders)
           i == issued[Stopper]
<1>1. /\ spc[s] = "pop" /\ queue' = SubSeq(queue, n + 1, Len(queue))
      /\ spc' = [spc EXCEPT ![s] = "release"] /\ issued' = issued /\ put' = put
  BY DEF Pop, Popped, callerVars
<1>a. fetch[s] \in 0..BatchSize /\ BatchSize \in Nat
  BY ClientAssumption DEF IndInv, Types
<1>2. n \in Nat /\ n <= Len(queue) /\ n <= BatchSize
  BY <1>1, <1>a, PopFits
<1>3. queue \in Seq(Requests)
  BY DEF IndInv, Types
<1>4. Elements(queue) = Elements(q) \cup Elements(queue')
  BY <1>1, <1>2, <1>3, SplitElements
<1>5. q \in Seq(Requests) /\ Len(q) = n
  BY <1>2, <1>3, SubSeqProperties
<1>6. IsFiniteSet(Elements(q)) /\ Cardinality(Elements(q)) <= n /\ Cardinality(Elements(q)) \in Nat
  BY <1>5, BatchCount, FS_CardinalityType
<1>7. StopperWaits \subseteq StopperWaits' \cup Elements(q)
  BY <1>1, <1>4 DEF StopperWaits, Elements
<1>8. /\ w \in Nat /\ v \in Nat /\ m \in Nat /\ c \in Nat /\ m <= c /\ i \in Nat
      /\ IsFiniteSet(StopperWaits) /\ IsFiniteSet(StopperWaits') /\ IsFiniteSet(MayPop)
      /\ Cardinality(MayPop') \in Nat /\ Cardinality(MayPop') <= c
  BY StopCounts, StopCountsAfter DEF IndInv
<1>9. w <= v + Cardinality(Elements(q))
  <2>1. /\ IsFiniteSet(StopperWaits' \cup Elements(q))
        /\ IsFiniteSet(StopperWaits' \cap Elements(q))
        /\ Cardinality(StopperWaits' \cup Elements(q)) =
              v + Cardinality(Elements(q)) - Cardinality(StopperWaits' \cap Elements(q))
    BY <1>6, <1>8, FS_Union, FS_Intersection
  <2>2. w <= Cardinality(StopperWaits' \cup Elements(q))
    BY <1>7, <2>1, FS_Subset
  <2>3. Cardinality(StopperWaits' \cap Elements(q)) \in Nat
    BY <2>1, FS_CardinalityType
  <2>4. QED
    BY <1>6, <1>8, <2>1, <2>2, <2>3
<1>10. Cardinality(MayPop') = m - 1
  <2>1. s \in MayPop
    BY <1>1 DEF MayPop
  <2>2. spc \in [Senders -> SenderSteps]
    BY DEF IndInv, Types
  <2>3. MayPop' = MayPop \ {s}
    <3>1. \A t \in Senders : t # s => spc'[t] = spc[t]
      BY <1>1, <2>2
    <3>2. spc'[s] = "release"
      BY <1>1, <2>2
    <3>3. QED
      BY <3>1, <3>2 DEF MayPop
  <2>4. QED
    BY <1>8, <2>1, <2>3, FS_RemoveElement
<1>11. i - w <= BatchSize * (c - m)
  BY DEF StopperBound
<1> DEFINE x == BatchSize * (c - m)
           y == BatchSize * (c - (m - 1))
<1>12. BatchSize \in Nat /\ c - m \in Nat
  BY <1>8, ClientAssumption
<1>13. x \in Nat /\ y = x + BatchSize
  <2>1. c - (m - 1) = (c - m) + 1
    BY <1>8
  <2>2. BatchSize * ((c - m) + 1) = BatchSize * (c - m) + BatchSize
    BY <1>12, BatchesGrow
  <2>3. QED
    BY <1>12, <2>1, <2>2
<1>14. i - w <= x
  BY <1>11
<1>15. i' = i
  BY <1>1
<1> HIDE DEF x, y, w, v, q, n, i
<1>16. i - v <= y
  BY <1>2, <1>6, <1>8, <1>9, <1>12, <1>13, <1>14
<1>17. QED
  BY <1>10, <1>15, <1>16 DEF StopperBound, v, y, i

\* The board that Stop hands to Eval waits for its slot.
LEMMA EvalBound ==
  ASSUME IndInv, PlaceInv, Types', StopperBound, StopEval
  PROVE  StopperBound'
<1> DEFINE i == issued[Stopper]
           r == <<Stopper, i + 1>>
           w == Cardinality(StopperWaits)
           v == Cardinality(StopperWaits')
           y == BatchSize * (Cardinality(Senders) - Cardinality(MayPop))
<1>1. /\ stop = "look" /\ put[Stopper] = "no" /\ put' = [put EXCEPT ![Stopper] = "slot"]
      /\ issued' = [issued EXCEPT ![Stopper] = issued[Stopper] + 1]
      /\ queue' = queue /\ spc' = spc
  BY DEF StopEval, EvalCall, senderVars
<1>2. Stopper \in Clients /\ Stopper \in Putters
  BY DEF Clients, Putters
<1>3. issued'[Stopper] = i + 1 /\ put'[Stopper] = "slot" /\ i \in Nat
  BY <1>1, <1>2 DEF IndInv, Types
<1>4. StopperWaits' = StopperWaits \cup {r}
  BY <1>1, <1>3 DEF StopperWaits, Elements
<1>5. r \notin StopperWaits
  <2>1. SUFFICES ASSUME r \in Elements(queue) PROVE FALSE
    BY <1>1 DEF StopperWaits
  <2>2. r \in Accepted
    BY <2>1, HolderKinds, HolderValues DEF PlaceInv, Fates, Anywhere, Everything
  <2>3. i + 1 <= i
    BY <2>2 DEF Accepted
  <2>4. QED
    BY <1>3, <2>3
<1>6. v = w + 1 /\ w \in Nat
  BY <1>4, <1>5, StopCounts, FS_AddElement DEF IndInv
<1>7. MayPop' = MayPop
  BY <1>1 DEF MayPop
<1>8. i - w <= y
  BY DEF StopperBound
<1>9. y \in Int
  <2>1. Cardinality(Senders) - Cardinality(MayPop) \in Int
    BY StopCounts DEF IndInv
  <2>2. QED
    BY <2>1, ClientAssumption
<1> HIDE DEF i, w, v, y, r
<1>10. (i + 1) - v <= y
  BY <1>3, <1>6, <1>8, <1>9
<1>11. QED
  BY <1>3, <1>7, <1>10 DEF StopperBound, v, y

\* The steps that take no board of Stop.
LEMMA PuttingWaits ==
  ASSUME IndInv, NEW p \in Putters, Putting(p)
  PROVE  StopperWaits \subseteq StopperWaits' /\ issued' = issued /\ spc' = spc
<1>1. issued' = issued /\ spc' = spc
  BY DEF Putting, TakeSlot, SleepOnFull, Push, Signal, callerVars, senderVars
<1>2. put \in [Putters -> {"no", "slot", "push", "signal"}] /\ queue \in Seq(Requests)
  BY DEF IndInv, Types
<1>3. CASE TakeSlot(p)
  <2>1. queue' = queue /\ put[p] = "slot" /\ put' = [put EXCEPT ![p] = "push"]
    BY <1>3 DEF TakeSlot
  <2>2. put[Stopper] \in {"slot", "push"} => put'[Stopper] \in {"slot", "push"}
    BY <1>2, <2>1 DEF Clients, Putters
  <2>3. QED
    BY <1>1, <2>1, <2>2 DEF StopperWaits, Elements
<1>4. CASE SleepOnFull(p)
  <2>1. queue' = queue /\ put' = put
    BY <1>4 DEF SleepOnFull, callerVars
  <2>2. QED
    BY <1>1, <2>1 DEF StopperWaits, Elements
<1>5. CASE Push(p)
  <2>1. /\ put[p] = "push" /\ queue' = Append(queue, Item(p))
        /\ put' = [put EXCEPT ![p] = "signal"]
    BY <1>5 DEF Push
  <2>2. Item(p) \in Requests
    BY <2>1, ClientItem DEF IndInv
  <2>3. Elements(queue') = Elements(queue) \cup {Item(p)}
    BY <1>2, <2>1, <2>2, AppendElements
  <2>4. \A r : r \in Elements(queue) => r \in Elements(queue')
    BY <2>3
  <2>5. CASE p = Stopper
    <3>1. Item(p) = <<Stopper, issued[Stopper]>>
      BY <2>5, Owner DEF Item, Clients
    <3>2. <<Stopper, issued[Stopper]>> \in Elements(queue')
      BY <2>3, <3>1
    <3>3. \A q \in StopperWaits : q \in Elements(queue') /\ q[1] = Stopper
      BY <2>4, <3>2 DEF StopperWaits
    <3>4. \A q : q \in Elements(queue') /\ q[1] = Stopper => q \in StopperWaits'
      BY DEF StopperWaits, Elements
    <3>5. StopperWaits \subseteq StopperWaits'
      BY <3>3, <3>4
    <3>6. QED
      BY <1>1, <3>5
  <2>6. CASE p # Stopper
    <3>1. put'[Stopper] = put[Stopper]
      BY <2>1, <2>6
    <3>2. QED
      BY <1>1, <2>4, <3>1 DEF StopperWaits, Elements
  <2>7. QED
    BY <2>5, <2>6
<1>6. CASE Signal(p)
  <2>1. queue' = queue /\ put[p] = "signal"
    BY <1>6 DEF Signal
  <2>2. put[Stopper] \in {"slot", "push"} => put'[Stopper] = put[Stopper]
    <3>1. SUFFICES ASSUME put[Stopper] \in {"slot", "push"} PROVE put'[Stopper] = put[Stopper]
      OBVIOUS
    <3>2. p # Stopper /\ Stopper \in Putters
      BY <2>1, <3>1 DEF Clients, Putters
    <3>3. QED
      BY <1>2, <1>6, <3>2 DEF Signal
  <2>3. QED
    BY <1>1, <2>1, <2>2 DEF StopperWaits, Elements
<1>7. QED
  BY <1>1, <1>3, <1>4, <1>5, <1>6 DEF Putting

LEMMA SendingWaits ==
  ASSUME IndInv, terminate, NEW s \in Senders, Sending(s), ~Pop(s)
  PROVE  StopperWaits' = StopperWaits /\ issued' = issued /\ MayPop' \subseteq MayPop
<1>1. queue' = queue /\ put' = put /\ issued' = issued
  BY DEF Sending, LoopTest, TakePermit, SendDummy, SeeRequests, TakeTokens, Pop,
     ReleaseSlots, SendAsyn, SendSync, SyncThrows, SyncAnswer, SyncCount, Drained, queueVars,
     callerVars
<1>2. spc \in [Senders -> SenderSteps]
  BY DEF IndInv, Types
<1>3. \A t \in Senders : t # s => spc'[t] = spc[t]
  BY <1>2 DEF Sending, LoopTest, TakePermit, SendDummy, SeeRequests, TakeTokens, Pop,
     ReleaseSlots, SendAsyn, SendSync, SyncThrows, SyncAnswer, SyncCount, Drained, senderVars,
     BeginCall
<1>4. spc'[s] \in {"permit", "peek", "take", "pop"} => spc[s] \in {"permit", "peek", "take", "pop"}
  BY <1>2 DEF Sending, LoopTest, TakePermit, SendDummy, SeeRequests, TakeTokens, StopSeen,
     ReleaseSlots, SendAsyn, SendSync, SyncThrows, SyncAnswer, SyncCount, Drained, senderVars,
     BeginCall
<1>5. MayPop' \subseteq MayPop
  BY <1>3, <1>4 DEF MayPop
<1>6. StopperWaits' = StopperWaits
  BY <1>1 DEF StopperWaits, Elements
<1>7. QED
  BY <1>1, <1>5, <1>6

LEMMA CallingBackWaits ==
  ASSUME IndInv, NEW k \in CallIds, CallingBack(k)
  PROVE  StopperWaits' = StopperWaits /\ issued' = issued /\ spc' = spc /\ queue' = queue
<1>1. queue' = queue /\ issued' = issued /\ spc' = spc
  BY DEF CallingBack, Deliver, Answer, Count, Fail, FailCount, ReleasePermit, queueVars,
     callerVars, senderVars
<1>2. put'[Stopper] = put[Stopper]
  <2>1. k # Stopper /\ Stopper \in Putters
    BY Owner DEF Clients, Putters
  <2>2. put \in [Putters -> {"no", "slot", "push", "signal"}]
    BY DEF IndInv, Types
  <2>3. QED
    BY <2>1, <2>2 DEF CallingBack, Deliver, Answer, Count, Fail, FailCount, ReleasePermit,
       callerVars
<1>3. QED
  BY <1>1, <1>2 DEF StopperWaits, Elements

LEMMA PuttingStopInv ==
  ASSUME IndInv, IndInv', StopInv, NEW p \in Putters, Putting(p)
  PROVE  StopInv'
<1>1. UNCHANGED <<stop, terminate>> /\ issued' = issued /\ spc' = spc
  BY PuttingWaits DEF Putting, TakeSlot, SleepOnFull, Push, Signal, endVars
<1>2. stop = "look" => Len(queue') <= seen'.most
  <2>1. SUFFICES ASSUME stop = "look" PROVE Len(queue') <= seen'.most
    OBVIOUS
  <2>2. Len(queue) <= seen.most /\ queue \in Seq(Requests) /\ seen.most \in Int
    BY <2>1 DEF StopInv, IndInv, Types
  <2>3. CASE Push(p)
    <3>1. put[p] = "push" /\ queue' = Append(queue, Item(p)) /\ seen'.most = seen.most + 1
      BY <2>1, <2>3 DEF Push, Seen
    <3>2. Item(p) \in Requests
      BY <3>1, ClientItem DEF IndInv
    <3>3. Len(queue') = Len(queue) + 1 /\ Len(queue) \in Nat
      BY <2>2, <3>1, <3>2, AppendProperties
    <3>4. QED
      BY <2>2, <3>1, <3>3
  <2>4. CASE ~Push(p)
    <3>1. queue' = queue /\ seen' = seen
      BY <2>4 DEF Putting, TakeSlot, SleepOnFull, Signal
    <3>2. QED
      BY <2>2, <3>1
  <2>5. QED
    BY <2>3, <2>4
<1>3. StopperBound => StopperBound'
  <2>1. MayPop' = MayPop
    BY <1>1 DEF MayPop
  <2>2. QED
    BY <1>1, <2>1, PuttingWaits, BoundKept DEF IndInv
<1>4. QED
  BY <1>1, <1>2, <1>3 DEF StopInv

LEMMA CallingStopInv ==
  ASSUME IndInv, IndInv', StopInv, NEW c \in Callers, Calling(c)
  PROVE  StopInv'
<1>1. /\ UNCHANGED <<stop, terminate, queue, seen, spc>>
  BY DEF Calling, CallerEval, CallerBreak, CallerOver, endVars, queueVars, senderVars
<1>2. c # Stopper /\ c \in Clients /\ Stopper \in Clients /\ Stopper \in Putters
  BY ClientAssumption DEF Clients, Putters
<1>3. /\ issued \in [Clients -> Nat] /\ put \in [Putters -> {"no", "slot", "push", "signal"}]
  BY DEF IndInv, Types
<1>4. issued'[Stopper] = issued[Stopper] /\ put'[Stopper] = put[Stopper]
  BY <1>2, <1>3 DEF Calling, CallerEval, CallerBreak, CallerOver, EvalCall, callerVars
<1>5. StopperBound => StopperBound'
  <2>1. MayPop' = MayPop
    BY <1>1 DEF MayPop
  <2>2. StopperWaits' = StopperWaits
    BY <1>1, <1>4 DEF StopperWaits, Elements
  <2>3. QED
    BY <1>4, <2>1, <2>2, BoundKept DEF IndInv
<1>6. QED
  BY <1>1, <1>4, <1>5 DEF StopInv

LEMMA SendingStopInv ==
  ASSUME IndInv, IndInv', StopInv, NEW s \in Senders, Sending(s)
  PROVE  StopInv'
<1>1. UNCHANGED <<stop, terminate, issued>>
  BY DEF Sending, LoopTest, TakePermit, SendDummy, SeeRequests, TakeTokens, Pop,
     ReleaseSlots, SendAsyn, SendSync, SyncThrows, SyncAnswer, SyncCount, Drained, endVars,
     callerVars
<1>2. queue \in Seq(Requests) /\ seen.most \in Int /\ seen.least \in Int /\ Len(queue) \in Nat
  BY DEF IndInv, Types
<1>3. stop = "look" => Len(queue') <= seen'.most
  <2>1. SUFFICES ASSUME stop = "look" PROVE Len(queue') <= seen'.most
    OBVIOUS
  <2>2. Len(queue) <= seen.most
    BY <2>1 DEF StopInv
  <2>3. CASE Pop(s)
    <3>1. /\ spc[s] = "pop" /\ queue' = SubSeq(queue, fetch[s] + 1, Len(queue))
          /\ seen'.most = seen.most + 0
      BY <2>1, <2>3 DEF Pop, Popped, Seen
    <3>2. fetch[s] \in Nat /\ fetch[s] <= Len(queue)
      BY <3>1, PopFits
    <3>3. Len(queue') = Len(queue) - fetch[s]
      BY <1>2, <3>1, <3>2, SubSeqProperties
    <3>4. QED
      BY <1>2, <2>2, <3>1, <3>2, <3>3
  <2>4. CASE ~Pop(s)
    <3>1. queue' = queue /\ seen' = seen
      BY <2>4 DEF Sending, LoopTest, TakePermit, SendDummy, SeeRequests, TakeTokens,
         ReleaseSlots, SendAsyn, SendSync, SyncThrows, SyncAnswer, SyncCount, Drained, queueVars
    <3>2. QED
      BY <2>2, <3>1
  <2>5. QED
    BY <2>3, <2>4
<1>4. stop \in {"size", "look"} => StopperBound'
  <2>1. SUFFICES ASSUME stop \in {"size", "look"} PROVE StopperBound'
    OBVIOUS
  <2>2. StopperBound /\ terminate
    BY <2>1 DEF StopInv
  <2>3. CASE Pop(s)
    BY <2>2, <2>3, PopBound DEF IndInv
  <2>4. CASE ~Pop(s)
    BY <1>1, <2>2, <2>4, SendingWaits, BoundKept DEF IndInv
  <2>5. QED
    BY <2>3, <2>4
<1>5. QED
  BY <1>1, <1>3, <1>4 DEF StopInv

LEMMA CallingBackStopInv ==
  ASSUME IndInv, IndInv', StopInv, NEW k \in CallIds, CallingBack(k)
  PROVE  StopInv'
<1>1. UNCHANGED <<stop, terminate, seen>>
  BY DEF CallingBack, Deliver, Answer, Count, Fail, FailCount, ReleasePermit, endVars, queueVars
<1>2. StopperWaits' = StopperWaits /\ issued' = issued /\ spc' = spc /\ queue' = queue
  BY CallingBackWaits
<1>3. MayPop' = MayPop
  BY <1>2 DEF MayPop
<1>4. StopperBound => StopperBound'
  BY <1>2, <1>3, BoundKept DEF IndInv
<1>5. QED
  BY <1>1, <1>2, <1>4 DEF StopInv

LEMMA StoppingStopInv ==
  ASSUME IndInv, PlaceInv, IndInv', StopInv, Stopping
  PROVE  StopInv'
<1>1. CASE StopBegin
  <2>1. /\ stop = "off" /\ stop' = "size" /\ terminate' = TRUE /\ UNCHANGED <<queue, issued, spc, put>>
    BY <1>1 DEF StopBegin, queueVars, callerVars, senderVars
  <2>2. issued'[Stopper] = 0
    BY <2>1 DEF StopInv
  <2>3. StopperBound'
    <3> DEFINE w == Cardinality(StopperWaits')
               m == Cardinality(MayPop')
               c == Cardinality(Senders)
    <3>1. w \in Nat /\ m \in Nat /\ c \in Nat /\ m <= c /\ BatchSize \in Nat
      BY StopCountsAfter, StopCounts, ClientAssumption DEF IndInv
    <3> HIDE DEF w, m, c
    <3>2. BatchSize * (c - m) \in Nat
      BY <3>1
    <3>3. 0 - w <= BatchSize * (c - m)
      BY <3>1, <3>2
    <3>4. QED
      BY <2>2, <3>3 DEF StopperBound, w, m, c
  <2>4. QED
    BY <2>1, <2>3 DEF StopInv
<1>2. CASE StopLook
  <2>1. /\ stop = "size" /\ stop' = "look" /\ terminate' = terminate
        /\ UNCHANGED <<queue, issued, spc, put>> /\ seen'.most = Len(queue)
    BY <1>2 DEF StopLook, callerVars, senderVars
  <2>2. StopperBound /\ terminate
    BY <2>1 DEF StopInv
  <2>3. StopperWaits' = StopperWaits /\ MayPop' = MayPop
    BY <2>1 DEF StopperWaits, Elements, MayPop
  <2>4. StopperBound'
    BY <2>1, <2>2, <2>3, BoundKept DEF IndInv
  <2>5. Len(queue) \in Nat
    BY DEF IndInv, Types
  <2>6. QED
    BY <2>1, <2>2, <2>4, <2>5 DEF StopInv
<1>3. CASE StopEval
  <2>1. stop = "look" /\ stop' = "size" /\ terminate' = terminate
    BY <1>3 DEF StopEval
  <2>2. StopperBound'
    BY <1>3, <2>1, EvalBound DEF StopInv, IndInv
  <2>3. QED
    BY <2>1, <2>2 DEF StopInv
<1>4. CASE StopWakeDone \/ StopJoin
  BY <1>4 DEF StopWakeDone, StopJoin, StopInv
<1>5. QED
  BY <1>1, <1>2, <1>3, <1>4 DEF Stopping

LEMMA StopInvStep ==
  ASSUME IndInv, PlaceInv, StopInv, [Next]_vars
  PROVE  StopInv'
<1>1. IndInv'
  BY IndInvStep
<1>2. CASE UNCHANGED vars
  <2>1. UNCHANGED <<queue, seen, issued, put, spc, stop, terminate>>
    BY <1>2 DEF vars, queueVars, callerVars, senderVars, endVars
  <2>2. StopperBound => StopperBound'
    BY <2>1 DEF StopperBound, StopperWaits, MayPop, Elements
  <2>3. QED
    BY <2>1, <2>2 DEF StopInv
<1>3. QED
  BY <1>1, <1>2, PuttingStopInv, CallingStopInv, SendingStopInv, CallingBackStopInv,
     StoppingStopInv DEF Next, Ended

\* When Stop finds the queue empty it has not yet used up its boards.
LEMMA PushesSuffice ==
  ASSUME IndInv, StopInv
  PROVE  StopPushesSuffice
<1>1. SUFFICES ASSUME stop = "look", seen = Unread
               PROVE  issued[Stopper] < Limit(Stopper)
  BY DEF StopPushesSuffice
<1>2. queue = <<>>
  <2>1. Len(queue) <= 0 /\ queue \in Seq(Requests)
    BY <1>1 DEF StopInv, Unread, IndInv, Types
  <2>2. QED
    BY <2>1, EmptySeq
<1>3. put[Stopper] = "no"
  BY <1>1 DEF IndInv, Shape, ClientShape
<1>4. StopperWaits = {}
  BY <1>2, <1>3 DEF StopperWaits, Elements
<1> DEFINE m == Cardinality(MayPop)
           c == Cardinality(Senders)
           i == issued[Stopper]
<1>5. i - 0 <= BatchSize * (c - m)
  BY <1>1, <1>4, FS_EmptySet DEF StopInv, StopperBound
<1>6. m \in Nat /\ c \in Nat /\ m <= c /\ i \in Nat /\ BatchSize \in Nat
  BY StopCounts, ClientAssumption DEF IndInv
<1>7. Limit(Stopper) = c * BatchSize + 1
  BY DEF Limit
<1> HIDE DEF m, c, i
<1>8. BatchSize * (c - m) <= BatchSize * c
  BY <1>6, BatchesGrow
<1> DEFINE x == BatchSize * (c - m)
           y == BatchSize * c
<1>9. x \in Int /\ y \in Int /\ c * BatchSize = y
  BY <1>6
<1>10. i - 0 <= x /\ x <= y
  BY <1>5, <1>8
<1> HIDE DEF x, y
<1>11. i < y + 1
  BY <1>6, <1>9, <1>10
<1>12. QED
  BY <1>7, <1>9, <1>11 DEF i

\* StopPushesSuffice: Stop's loop evaluates at most BatchSize empty boards for
\* each sender and one, whatever the senders take meanwhile.
THEOREM StopPushesAreEnough == Spec => []StopPushesSuffice
<1>1. Init => StopInv
  BY DEF Init, StopInv, Clients
<1>2. IndInv /\ PlaceInv /\ StopInv /\ [Next]_vars => StopInv'
  BY StopInvStep
<1>3. IndInv /\ StopInv => StopPushesSuffice
  BY PushesSuffice
<1>4. QED
  BY <1>1, <1>2, <1>3, IndInvAlways, RequestsArePlaced, PTL DEF Spec
==============================================================================
