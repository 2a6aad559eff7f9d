------------------------------ MODULE EvalClient ------------------------------
(***************************************************************************)
(* The evaluator client (src/PolicyValueEvaluatorClient.cpp and its        *)
(* header).  Search threads put positions into a bounded queue, sender     *)
(* threads take them out in batches and send them to evaluation servers,   *)
(* threads of the Ice client pool run the callbacks of the responses, and  *)
(* Stop brings the senders down.                                           *)
(*                                                                         *)
(* The semaphore full_ counts free slots.  ReleaseSlots gives several at   *)
(* once but wakes one sleeper, so its sleepers are kept in "asleep".       *)
(* empty_ and the permits remain_can_send are given one unit at a time:    *)
(* Semaphore.tla shows that no free unit then stays beside sleepers only,  *)
(* and a wait on them is here an action enabled when the count is not 0.   *)
(*                                                                         *)
(* External, after how the source uses it: the Ice run time (a bounded     *)
(* pool runs one callback per response, in any order, and a response may   *)
(* fail) and the evaluation servers.                                       *)
(***************************************************************************)
EXTENDS Integers, Sequences, FiniteSets

CONSTANTS Callers,      \* search threads, inside MCTSPlayer::rollout
          Stopper,      \* the thread that destroys the client
          Senders,      \* threads in ProcessEval (server_send_thread)
          QueueSize,    \* queue_size
          BatchSize,    \* batch_size
          OnceSend,     \* asyn_once_send
          IsAsyn,       \* use_asyn_request
          ProxyNumber,  \* proxy_number
          BadProxies,   \* proxies whose checkedCast gave a null proxy
          IceThreads,   \* threads of the Ice client pool
          PerCaller,    \* bound: positions each caller asks to evaluate
          MaxFailures   \* bound: responses that fail

CallIds == Senders \X (1..OnceSend)
Clients == Callers \cup {Stopper}
Putters == Clients \cup CallIds

ASSUME ClientAssumption ==
    /\ IsFiniteSet(Callers) /\ IsFiniteSet(Senders) /\ Senders # {}
    /\ Stopper \notin Callers /\ Clients \cap CallIds = {}
    /\ QueueSize \in Nat \ {0} /\ BatchSize \in Nat \ {0} /\ OnceSend \in Nat \ {0}
    /\ IsAsyn \in BOOLEAN
    /\ ProxyNumber \in Nat \ {0} /\ BadProxies \subseteq 0..(ProxyNumber - 1)
    /\ IceThreads \in Nat \ {0} /\ PerCaller \in Nat /\ MaxFailures \in Nat

\* Stop needs at most one empty board more than the senders can take in one
\* fetch each (StopPushesSuffice).
Limit(x)     == IF x = Stopper THEN Cardinality(Senders) * BatchSize + 1 ELSE PerCaller
RequestsOf(x) == {x} \X (1..Limit(x))
Requests     == UNION {RequestsOf(x) : x \in Clients}

VARIABLES
    queue,      \* send_queue_
    full,       \* full_->count
    asleep,     \* who sleeps in full_->wait
    empty,      \* empty_->count
    pending,    \* pending_
    seen,       \* the sizes of send_queue_ that Stop may read
    terminate,  \* eval_terminate
    cpc,        \* callers: in the rollout loop, polling get_pending, over
    issued,     \* how many requests each client has passed to Eval
    put,        \* where each putter is in Eval or EvalByHistory
    spc,        \* where each sender is in ProcessEval
    fetch,      \* ProcessEval's fetch, until its slots are given back
    batch,      \* ProcessEval's request_cache with its callbacks
    proxy,      \* proxy_count % proxy_number_
    permits,    \* each sender's remain_can_send->count
    cst,        \* where each asynchronous call is
    load,       \* the batch each call carries
    todo,       \* the part of it that the present loop has still to treat
    stop,       \* where the stopper is in Stop
    failures,   \* responses failed so far
    answers,    \* how often the callback of each request has run
    aborted     \* std::terminate ended the process

queueVars  == <<queue, full, asleep, empty, pending, seen>>
callerVars == <<cpc, issued, put>>
senderVars == <<spc, fetch, batch, proxy>>
callVars   == <<cst, load, todo>>
endVars    == <<terminate, stop, aborted>>
tallyVars  == <<failures, answers>>
vars == <<queueVars, callerVars, senderVars, permits, callVars, endVars, tallyVars>>

Least(a, b) == IF a < b THEN a ELSE b
Elements(q) == {q[i] : i \in DOMAIN q}

\* The request a putter is putting: a call puts back the head of what it has
\* left, a client its latest position.
Item(p) == IF p \in CallIds THEN Head(todo[p]) ELSE <<p, issued[p]>>

\* pending_++ and pending_--.
NotCounted  == UNCHANGED pending
PendingUp   == pending' = pending + 1
PendingDown == pending' = pending - 1

\* Stop reads send_queue_.size() without eval_mutex_: the pops and the pushes
\* that fall between the reads of its two ends make the size it gets smaller
\* or larger, each on its own.
Unread == [least |-> 0, most |-> 0]
Seen(pops, pushes) ==
    seen' = IF stop = "look"
            THEN [least |-> seen.least - pops, most |-> seen.most + pushes]
            ELSE seen

BusyCalls == {k \in CallIds : cst[k] \in {"answer", "count", "fail", "resend", "release"}}
PoolHasThread == Cardinality(BusyCalls) < IceThreads

Init ==
    /\ queue = <<>> /\ full = QueueSize /\ asleep = {} /\ empty = 0 /\ pending = 0
    /\ seen = Unread
    /\ terminate = FALSE /\ stop = "off" /\ aborted = FALSE
    /\ cpc = [c \in Callers |-> "run"]
    /\ issued = [x \in Clients |-> 0]
    /\ put = [p \in Putters |-> "no"]
    /\ spc = [s \in Senders |-> "top"]
    /\ fetch = [s \in Senders |-> 0]
    /\ batch = [s \in Senders |-> <<>>]
    /\ proxy = [s \in Senders |-> 0]
    /\ permits = [s \in Senders |-> OnceSend]
    /\ cst = [k \in CallIds |-> "free"]
    /\ load = [k \in CallIds |-> <<>>]
    /\ todo = [k \in CallIds |-> <<>>]
    /\ failures = 0
    /\ answers = [r \in Requests |-> 0]

------------------------------------------------------------------------------
(* Eval and EvalByHistory, by whoever runs them                             *)

\* A client calls Eval.
EvalCall(x) ==
    /\ put[x] = "no"
    /\ issued[x] < Limit(x)
    /\ put' = [put EXCEPT ![x] = "slot"]
    /\ issued' = [issued EXCEPT ![x] = @ + 1]

\* full_->wait() finds a free slot.
TakeSlot(p) ==
    /\ put[p] = "slot" /\ p \notin asleep
    /\ full > 0
    /\ full' = full - 1
    /\ put' = [put EXCEPT ![p] = "push"]
    /\ UNCHANGED <<queue, asleep, empty, pending, seen, cpc, issued>>
    /\ UNCHANGED <<senderVars, permits, callVars, endVars, tallyVars>>

\* full_->wait() finds none and blocks.
SleepOnFull(p) ==
    /\ put[p] = "slot" /\ p \notin asleep
    /\ full = 0
    /\ asleep' = asleep \cup {p}
    /\ UNCHANGED <<queue, full, empty, pending, seen, callerVars, senderVars, permits, callVars, endVars, tallyVars>>

\* Under eval_mutex_: the request is counted and queued.
Push(p) ==
    /\ put[p] = "push"
    /\ PendingUp
    /\ queue' = Append(queue, Item(p)) /\ Seen(0, 1)
    /\ put' = [put EXCEPT ![p] = "signal"]
    /\ UNCHANGED <<full, asleep, empty, cpc, issued, senderVars, permits, callVars, endVars, tallyVars>>

\* empty_->notify(), and Eval returns.  The failed callback of a call goes on
\* with the next request of its batch.
Signal(p) ==
    /\ put[p] = "signal"
    /\ empty' = empty + 1
    /\ \/ /\ p \in Clients
          /\ put' = [put EXCEPT ![p] = "no"]
          /\ UNCHANGED <<cst, todo>>
       \/ /\ p \in CallIds
          /\ todo' = [todo EXCEPT ![p] = Tail(@)]
          /\ \/ Len(todo[p]) > 1 /\ put' = [put EXCEPT ![p] = "slot"] /\ UNCHANGED cst
             \/ /\ Len(todo[p]) = 1
                /\ put' = [put EXCEPT ![p] = "no"]
                /\ cst' = [cst EXCEPT ![p] = "release"]
    /\ UNCHANGED <<queue, full, asleep, pending, seen, cpc, issued, load, senderVars, permits, endVars, tallyVars>>

------------------------------------------------------------------------------
(* A search thread: rollout, then on_server_rollout_loop_over               *)

\* The loop has a leaf to evaluate.
CallerEval(c) ==
    /\ cpc[c] = "run"
    /\ EvalCall(c)
    /\ UNCHANGED <<queueVars, cpc, senderVars, permits, callVars, endVars, tallyVars>>

\* The loop breaks on its time or its number of rollouts.
CallerBreak(c) ==
    /\ cpc[c] = "run" /\ put[c] = "no"
    /\ cpc' = [cpc EXCEPT ![c] = "poll"]
    /\ UNCHANGED <<queueVars, issued, put, senderVars, permits, callVars, endVars, tallyVars>>

\* get_pending() is no longer above 0.
CallerOver(c) ==
    /\ cpc[c] = "poll"
    /\ ~(pending > 0)
    /\ cpc' = [cpc EXCEPT ![c] = "over"]
    /\ UNCHANGED <<queueVars, issued, put, senderVars, permits, callVars, endVars, tallyVars>>

------------------------------------------------------------------------------
(* A sender: ProcessEval                                                    *)

\* The loop test, and the fault of a loop that does not look.
StopIgnored == FALSE
StopSeen == terminate

LoopTest(s) ==
    /\ spc[s] = "top"
    /\ spc' = [spc EXCEPT ![s] = IF StopSeen THEN "drain"
                                 ELSE IF IsAsyn THEN "permit" ELSE "take"]
    /\ UNCHANGED <<queueVars, callerVars, fetch, batch, proxy, permits, callVars, endVars, tallyVars>>

\* remain_can_send->wait().
TakePermit(s) ==
    /\ spc[s] = "permit"
    /\ permits[s] > 0
    /\ permits' = [permits EXCEPT ![s] = @ - 1]
    /\ spc' = [spc EXCEPT ![s] = "peek"]
    /\ UNCHANGED <<queueVars, callerVars, fetch, batch, proxy, callVars, endVars, tallyVars>>

\* The sender starts asynchronous call k with the requests q; a null proxy
\* throws, and the requests and the permit are lost.  sleep_interval is left out.
BeginCall(s, q) ==
    LET k == <<s, CHOOSE i \in 1..OnceSend : cst[<<s, i>>] = "free">>
    IN  /\ cst' = [cst EXCEPT ![k] = IF proxy[s] \in BadProxies THEN "lost" ELSE "flying"]
        /\ load' = [load EXCEPT ![k] = q]
        /\ todo' = [todo EXCEPT ![k] = q]
        /\ proxy' = [proxy EXCEPT ![s] = (@ + 1) % ProxyNumber]
        /\ spc' = [spc EXCEPT ![s] = "top"]

\* empty_->get() is 0: a batch without requests keeps the server awake.
SendDummy(s) ==
    /\ spc[s] = "peek"
    /\ empty = 0
    /\ BeginCall(s, <<>>)
    /\ UNCHANGED <<queueVars, callerVars, fetch, batch, permits, endVars, tallyVars>>

\* empty_->get() is not 0.
SeeRequests(s) ==
    /\ spc[s] = "peek"
    /\ empty # 0
    /\ spc' = [spc EXCEPT ![s] = "take"]
    /\ UNCHANGED <<queueVars, callerVars, fetch, batch, proxy, permits, callVars, endVars, tallyVars>>

\* fetch = empty_->wait(request_batch_size_): what there is, at most a batch;
\* the fault takes a batch.
FullBatch == BatchSize
Wanted == Least(BatchSize, empty)

TakeTokens(s) ==
    /\ spc[s] = "take"
    /\ empty > 0
    /\ fetch' = [fetch EXCEPT ![s] = Wanted]
    /\ empty' = empty - Wanted
    /\ spc' = [spc EXCEPT ![s] = "pop"]
    /\ UNCHANGED <<queue, full, asleep, pending, seen, callerVars, batch, proxy>>
    /\ UNCHANGED <<permits, callVars, endVars, tallyVars>>

\* Under eval_mutex_: take fetch items off the queue; the fault takes one.
OnePopped(s) == 1
Popped(s) == fetch[s]

Pop(s) ==
    /\ spc[s] = "pop"
    /\ batch' = [batch EXCEPT ![s] = SubSeq(queue, 1, Popped(s))]
    /\ queue' = SubSeq(queue, Popped(s) + 1, Len(queue)) /\ Seen(Popped(s), 0)
    /\ spc' = [spc EXCEPT ![s] = "release"]
    /\ UNCHANGED <<full, asleep, empty, pending, callerVars, fetch, proxy>>
    /\ UNCHANGED <<permits, callVars, endVars, tallyVars>>

\* full_->notify(fetch): one sleeper is woken, however many slots are given.
\* The faults: notify with its default argument, and no wake-up.
OneGiven(s) == 1
Given(s) == fetch[s]
WakeNone == UNCHANGED asleep
WakeOne ==
    \/ asleep = {} /\ UNCHANGED asleep
    \/ \E p \in asleep : asleep' = asleep \ {p}

ReleaseSlots(s) ==
    /\ spc[s] = "release"
    /\ full' = full + Given(s)
    /\ fetch' = [fetch EXCEPT ![s] = 0]
    /\ WakeOne
    /\ spc' = [spc EXCEPT ![s] = "send"]
    /\ UNCHANGED <<queue, empty, pending, seen, callerVars, batch, proxy, permits, callVars, endVars, tallyVars>>

\* AsynRequest.
SendAsyn(s) ==
    /\ spc[s] = "send" /\ IsAsyn
    /\ BeginCall(s, batch[s])
    /\ batch' = [batch EXCEPT ![s] = <<>>]
    /\ UNCHANGED <<queueVars, callerVars, fetch, permits, endVars, tallyVars>>

\* SyncRequest: evaluate returns the replies.
SendSync(s) ==
    /\ spc[s] = "send" /\ ~IsAsyn
    /\ proxy[s] \notin BadProxies
    /\ spc' = [spc EXCEPT ![s] = "answer"]
    /\ UNCHANGED <<queueVars, callerVars, fetch, batch, proxy, permits, callVars, endVars, tallyVars>>

\* SyncRequest: evaluate throws, nobody catches, std::terminate.
SyncThrows(s) ==
    /\ spc[s] = "send" /\ ~IsAsyn
    /\ \/ proxy[s] \in BadProxies /\ UNCHANGED failures
       \/ failures < MaxFailures /\ failures' = failures + 1
    /\ aborted' = TRUE
    /\ UNCHANGED <<queueVars, callerVars, senderVars, permits, callVars, terminate, stop, answers>>

\* SyncRequest: a callback runs, then pending_--.  The reply is the server's: it
\* has an entry for each position of the batch.
SyncAnswer(s) ==
    /\ spc[s] = "answer"
    /\ answers' = [answers EXCEPT ![Head(batch[s])] = @ + 1]
    /\ spc' = [spc EXCEPT ![s] = "count"]
    /\ UNCHANGED <<queueVars, callerVars, fetch, batch, proxy, permits, callVars, endVars, failures>>

SyncCount(s) ==
    /\ spc[s] = "count"
    /\ PendingDown
    /\ batch' = [batch EXCEPT ![s] = Tail(@)]
    /\ \/ Len(batch[s]) > 1 /\ spc' = [spc EXCEPT ![s] = "answer"] /\ UNCHANGED proxy
       \/ /\ Len(batch[s]) = 1
          /\ spc' = [spc EXCEPT ![s] = "top"]
          /\ proxy' = [proxy EXCEPT ![s] = (@ + 1) % ProxyNumber]
    /\ UNCHANGED <<queue, full, asleep, empty, seen, callerVars, fetch, permits, callVars, endVars, tallyVars>>

\* The drain loop ends when every permit is back; the fault does not wait.
NotAwaited(s) == TRUE
AllBack(s) == permits[s] >= OnceSend

Drained(s) ==
    /\ spc[s] = "drain"
    /\ AllBack(s)
    /\ spc' = [spc EXCEPT ![s] = "done"]
    /\ UNCHANGED <<queueVars, callerVars, fetch, batch, proxy, permits, callVars, endVars, tallyVars>>

------------------------------------------------------------------------------
(* A call: the callbacks that threads of the Ice pool run                   *)

\* evaluate_cb starts on the response of a call.
Deliver(k) ==
    /\ cst[k] = "flying"
    /\ PoolHasThread
    /\ cst' = [cst EXCEPT ![k] = IF todo[k] = <<>> THEN "release" ELSE "answer"]
    /\ UNCHANGED <<queueVars, callerVars, senderVars, permits, load, todo, endVars, tallyVars>>

\* A callback runs.
Answer(k) ==
    /\ cst[k] = "answer"
    /\ answers' = [answers EXCEPT ![Head(todo[k])] = @ + 1]
    /\ cst' = [cst EXCEPT ![k] = "count"]
    /\ UNCHANGED <<queueVars, callerVars, senderVars, permits, load, todo, endVars, failures>>

\* pending-- after the callback.
Count(k) ==
    /\ cst[k] = "count"
    /\ PendingDown
    /\ todo' = [todo EXCEPT ![k] = Tail(@)]
    /\ cst' = [cst EXCEPT ![k] = IF Len(todo[k]) > 1 THEN "answer" ELSE "release"]
    /\ UNCHANGED <<queue, full, asleep, empty, seen, callerVars, senderVars, permits, load, endVars, tallyVars>>

\* failure_cb starts on a failed response.
Fail(k) ==
    /\ cst[k] = "flying"
    /\ PoolHasThread
    /\ failures < MaxFailures
    /\ failures' = failures + 1
    /\ cst' = [cst EXCEPT ![k] = IF todo[k] = <<>> THEN "release" ELSE "fail"]
    /\ UNCHANGED <<queueVars, callerVars, senderVars, permits, load, todo, endVars, answers>>

\* pending-- for each callback of the batch; after the last one the failed
\* callback puts the whole batch back through EvalByHistory.
FailCount(k) ==
    /\ cst[k] = "fail"
    /\ PendingDown
    /\ \/ Len(todo[k]) > 1 /\ todo' = [todo EXCEPT ![k] = Tail(@)] /\ UNCHANGED <<cst, put>>
       \/ /\ Len(todo[k]) = 1
          /\ todo' = [todo EXCEPT ![k] = load[k]]
          /\ cst' = [cst EXCEPT ![k] = "resend"]
          /\ put' = [put EXCEPT ![k] = "slot"]
    /\ UNCHANGED <<queue, full, asleep, empty, seen, cpc, issued, senderVars, permits, load, endVars, tallyVars>>

\* remain_can_send->notify(), the end of either callback; the fault forgets it.
PermitForgotten(k) == UNCHANGED permits
PermitBack(k) == permits' = [permits EXCEPT ![k[1]] = @ + 1]

ReleasePermit(k) ==
    /\ cst[k] = "release"
    /\ PermitBack(k)
    /\ cst' = [cst EXCEPT ![k] = "free"]
    /\ load' = [load EXCEPT ![k] = <<>>]
    /\ UNCHANGED <<queueVars, callerVars, senderVars, todo, endVars, tallyVars>>

------------------------------------------------------------------------------
(* Stop                                                                     *)

\* The destructor runs when the rollouts are over.
StopBegin ==
    /\ stop = "off"
    /\ \A c \in Callers : cpc[c] = "over"
    /\ terminate' = TRUE
    /\ stop' = "size"
    /\ UNCHANGED <<queueVars, callerVars, senderVars, permits, callVars, aborted, tallyVars>>

\* Stop begins to read send_queue_.size().
StopLook ==
    /\ stop = "size" /\ put[Stopper] = "no"
    /\ seen' = [least |-> Len(queue), most |-> Len(queue)]
    /\ stop' = "look"
    /\ UNCHANGED <<queue, full, asleep, empty, pending, callerVars, senderVars>>
    /\ UNCHANGED <<permits, callVars, terminate, aborted, tallyVars>>

\* The fault does not look.
NotLooked   == TRUE
LooksFilled == seen # Unread
LooksEmpty  == seen.least <= 0 /\ 0 <= seen.most

\* The queue looks empty: Eval an empty board to wake a sender.
StopEval ==
    /\ stop = "look"
    /\ LooksEmpty
    /\ EvalCall(Stopper)
    /\ stop' = "size" /\ seen' = Unread
    /\ UNCHANGED <<queue, full, asleep, empty, pending, cpc, senderVars, permits, callVars>>
    /\ UNCHANGED <<terminate, aborted, tallyVars>>

\* The size is not 0; an unsigned size is never below.
StopWakeDone ==
    /\ stop = "look"
    /\ LooksFilled
    /\ stop' = "join" /\ seen' = Unread
    /\ UNCHANGED <<queue, full, asleep, empty, pending, callerVars, senderVars, permits, callVars>>
    /\ UNCHANGED <<terminate, aborted, tallyVars>>

\* Every sender is joined, then the queue is emptied.
StopJoin ==
    /\ stop = "join"
    /\ \A s \in Senders : spc[s] = "done"
    /\ queue' = <<>>
    /\ stop' = "stopped"
    /\ UNCHANGED <<full, asleep, empty, pending, seen, callerVars, senderVars, permits, callVars>>
    /\ UNCHANGED <<terminate, aborted, tallyVars>>

------------------------------------------------------------------------------
Putting(p) == TakeSlot(p) \/ SleepOnFull(p) \/ Push(p) \/ Signal(p)

Calling(c) == CallerEval(c) \/ CallerBreak(c) \/ CallerOver(c)

Sending(s) ==
    \/ LoopTest(s) \/ TakePermit(s) \/ SendDummy(s) \/ SeeRequests(s)
    \/ TakeTokens(s) \/ Pop(s) \/ ReleaseSlots(s)
    \/ SendAsyn(s) \/ SendSync(s) \/ SyncThrows(s) \/ SyncAnswer(s) \/ SyncCount(s)
    \/ Drained(s)

CallingBack(k) ==
    \/ Deliver(k) \/ Answer(k) \/ Count(k)
    \/ Fail(k) \/ FailCount(k) \/ ReleasePermit(k)

Stopping == StopBegin \/ StopLook \/ StopEval \/ StopWakeDone \/ StopJoin

\* The process has ended, or the client is stopped.
Ended == (aborted \/ stop = "stopped") /\ UNCHANGED vars

Next ==
    \/ /\ ~aborted
       /\ \/ \E p \in Putters : Putting(p)
          \/ \E c \in Callers : Calling(c)
          \/ \E s \in Senders : Sending(s)
          \/ \E k \in CallIds : CallingBack(k)
          \/ Stopping
    \/ Ended

Spec == Init /\ [][Next]_vars

\* Every thread that can run does run, and a rollout breaks on its time-out.
\* The pool serves every connection in turn, so no response waits for ever
\* while others are served.  Nothing is assumed of the order of waiters.
Fairness ==
    /\ \A p \in Putters : WF_vars(~aborted /\ Putting(p))
    /\ \A c \in Callers : WF_vars(~aborted /\ (CallerBreak(c) \/ CallerOver(c)))
    /\ \A s \in Senders : WF_vars(~aborted /\ Sending(s))
    /\ \A k \in CallIds : /\ WF_vars(~aborted /\ CallingBack(k))
                          /\ SF_vars(~aborted /\ (Deliver(k) \/ Fail(k)))
    /\ WF_vars(~aborted /\ Stopping)

LiveSpec == Spec /\ Fairness

------------------------------------------------------------------------------
(* Properties                                                               *)

TypeOK ==
    /\ queue \in Seq(Requests) /\ full \in 0..QueueSize
    /\ asleep \subseteq Putters /\ empty \in 0..QueueSize
    /\ pending \in Int /\ seen \in [least : Int, most : Int]
    /\ terminate \in BOOLEAN /\ aborted \in BOOLEAN
    /\ stop \in {"off", "size", "look", "join", "stopped"}
    /\ cpc \in [Callers -> {"run", "poll", "over"}]
    /\ issued \in [Clients -> Nat]
    /\ put \in [Putters -> {"no", "slot", "push", "signal"}]
    /\ spc \in [Senders -> {"top", "permit", "peek", "take", "pop", "release",
                            "send", "answer", "count", "drain", "done"}]
    /\ fetch \in [Senders -> 0..BatchSize] /\ batch \in [Senders -> Seq(Requests)]
    /\ proxy \in [Senders -> 0..(ProxyNumber - 1)]
    /\ permits \in [Senders -> 0..OnceSend]
    /\ cst \in [CallIds -> {"free", "flying", "lost", "answer", "count",
                            "fail", "resend", "release"}]
    /\ load \in [CallIds -> Seq(Requests)] /\ todo \in [CallIds -> Seq(Requests)]
    /\ failures \in Nat /\ answers \in [Requests -> Nat]

\* Slots not in full_: a putter has one between full_->wait and its push, a
\* sender has fetch of them between its pop and full_->notify.
Fetched(step) ==
    {x \in Senders \X (1..BatchSize) : spc[x[1]] = step /\ x[2] <= fetch[x[1]]}
PushHolders == {p \in Putters : put[p] = "push"}
Unreleased  == Fetched("release")

\* The slots in full_, those held and those of queued requests are queue_size
\* in all: neither a failed batch put back by a pool thread nor a short fetch
\* gives or eats a slot (full_ in ProcessEval and Eval).
SlotAccounting ==
    stop # "stopped" =>
        full + Cardinality(PushHolders) + Cardinality(Unreleased) + Len(queue) = QueueSize

\* Tokens not in empty_: a putter that has pushed owes one, a sender has fetch
\* of them between empty_->wait and its pop.
SignalOwers == {p \in Putters : put[p] = "signal"}
Unpopped    == Fetched("pop")

\* Each queued request has one token, free or taken: several senders that take
\* tokens and pop under two different locks never pop an empty queue and leave
\* no request without a token (ProcessEval:114-124).
TokenAccounting ==
    stop # "stopped" =>
        empty + Cardinality(SignalOwers) + Cardinality(Unpopped) = Len(queue)

\* A thread asleep on full_ has not been forgotten although ReleaseSlots wakes
\* one sleeper for several slots: somebody is on the way to giving a slot back
\* and waking the next (Utils.h:52 with ProcessEval:125).
WillRelease ==
    \/ \E p \in Putters \ asleep : put[p] # "no"
    \/ \E s \in Senders : spc[s] \in {"pop", "release"}
    \/ queue # <<>>
NobodyForgotten == asleep # {} /\ stop # "stopped" => WillRelease

\* Each permit of a sender is in remain_can_send or with one call that will
\* give it back, or a null proxy has lost it: so the drain loop of ProcessEval
\* waits for every response that will come, and for nothing else.
CallsOf(s)  == {k \in {s} \X (1..OnceSend) : cst[k] # "free"}
HasPermit(s) == IsAsyn /\ spc[s] \in {"peek", "take", "pop", "release", "send"}
PermitAccounting ==
    \A s \in Senders :
        permits[s] + Cardinality(CallsOf(s)) + (IF HasPermit(s) THEN 1 ELSE 0) = OnceSend

\* When Stop has returned the semaphores are deleted: nobody may still be
\* inside Eval, ProcessEval or a callback that uses them (dtor:53-55).
StoppedIsQuiet ==
    stop = "stopped" =>
        /\ \A p \in Putters : put[p] = "no"
        /\ \A s \in Senders : spc[s] = "done"
        /\ \A k \in CallIds : cst[k] = "free"

\* A rollout that has waited for get_pending to be 0 has all its answers, so
\* no callback uses the locals of rollout after it returns
\* (MCTSPlayer.cpp:253-255, "wait request over").
OverMeansAnswered ==
    \A c \in Callers : cpc[c] = "over" =>
        \A i \in 1..issued[c] : answers[<<c, i>>] > 0

\* Stop's loop evaluates at most one empty board more than the senders take in
\* one fetch each: after eval_terminate is set a sender takes requests at most
\* once, so what Stop pushes comes to stay in the queue and its loop ends.
StopPushesSuffice ==
    stop = "look" /\ seen = Unread => issued[Stopper] < Limit(Stopper)

\* The client as a service, see EvalService.  The status of a request follows
\* from where it is.
Counted ==
    Elements(queue)
        \cup (UNION {Elements(batch[s]) : s \in Senders})
        \cup (UNION {Elements(todo[k]) : k \in {l \in CallIds : cst[l] # "resend"}})
Retrying ==
    UNION {Elements(load[k]) : k \in {l \in CallIds : cst[l] \in {"fail", "resend"}}}
Status(r) ==
    CASE answers[r] > 0 /\ r \in Counted    -> "answered"
      [] answers[r] > 0 /\ r \notin Counted -> "done"
      [] answers[r] = 0 /\ r \in Counted    -> "pending"
      [] answers[r] = 0 /\ r \notin Counted ->
            IF r \in Retrying THEN "retry"
            ELSE IF stop = "stopped" /\ r[2] <= issued[r[1]] THEN "dropped" ELSE "fresh"

\* Each request is answered at most once whatever is resent, get_pending moves
\* with the requests, and only Stop drops requests.
Service == INSTANCE EvalService WITH
    MayFail <- MaxFailures > 0,
    status <- [r \in Requests |-> Status(r)],
    outstanding <- pending,
    closed <- stop = "stopped"
Refinement == Service!ServiceSpec

\* Every position a rollout hands to Eval is evaluated, unless Stop drops it.
EveryRequestAnswered ==
    \A c \in Callers : \A i \in 1..PerCaller :
        issued[c] >= i ~> (answers[<<c, i>>] > 0 \/ stop = "stopped" \/ aborted)

\* Stop returns: it wakes the senders it has to, and they drain.
StopReturns == stop = "size" ~> (stop = "stopped" \/ aborted)

\* "dynamic_timeout: Time out for each move, break rollout loop when time
\* exceeeded" (MCTSPlayer.h): every rollout leaves its loop.
RolloutBreaks == \A c \in Callers : <>(cpc[c] # "run" \/ aborted)
==============================================================================
