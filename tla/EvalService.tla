----------------------------- MODULE EvalService -----------------------------
(***************************************************************************)
(* What the evaluator client (PolicyValueEvaluatorClient) promises to the  *)
(* search threads: each position handed to Eval is evaluated, its callback *)
(* runs at most once, and the number get_pending reports moves with the    *)
(* requests.  A failed response takes its requests out of that number      *)
(* until they are queued again.  When the client stops, what is still      *)
(* queued is dropped.                                                      *)
(***************************************************************************)
EXTENDS Integers

CONSTANTS Requests,  \* the positions the threads ask to evaluate
          MayFail    \* whether responses may fail

VARIABLES status,      \* what has become of each request
          outstanding, \* what get_pending reports
          closed       \* Stop has returned

evars == <<status, outstanding, closed>>

ServiceInit ==
    /\ status = [r \in Requests |-> "fresh"]
    /\ outstanding = 0
    /\ closed = FALSE

Move(r, from, to) ==
    /\ status[r] = from
    /\ status' = [status EXCEPT ![r] = to]
    /\ UNCHANGED closed

\* Eval queues a request.
Accept(r) == Move(r, "fresh", "pending") /\ outstanding' = outstanding + 1

\* Its callback runs; only then does it leave the count.
Answer(r) == Move(r, "pending", "answered") /\ UNCHANGED outstanding
Retire(r) == Move(r, "answered", "done") /\ outstanding' = outstanding - 1

\* A failed response sets the request aside; it is queued again later.
SetAside(r) == MayFail /\ Move(r, "pending", "retry") /\ outstanding' = outstanding - 1
Resume(r)   == Move(r, "retry", "pending") /\ outstanding' = outstanding + 1

\* Stop drops what is still queued and leaves the count as it is.
Close ==
    /\ ~closed
    /\ closed' = TRUE
    /\ status' = [r \in Requests |->
                    IF status[r] \in {"pending", "retry"} THEN "dropped" ELSE status[r]]
    /\ UNCHANGED outstanding

ServiceNext ==
    \/ \E r \in Requests : \/ Accept(r) \/ Answer(r) \/ Retire(r)
                           \/ SetAside(r) \/ Resume(r)
    \/ Close

ServiceSpec == ServiceInit /\ [][ServiceNext]_evars
==============================================================================
