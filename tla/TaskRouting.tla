----------------------------- MODULE TaskRouting -----------------------------
(***************************************************************************)
(* Tasks: handle_message() of node.py, failover between the candidates of  *)
(* a key (cluster/cluster_router.py), forwarding with retries and circuit  *)
(* breakers (cluster/peer_client.py, resilience/), admission control and   *)
(* the worker pool (compute/).                                             *)
(*                                                                         *)
(* Time is a flag per request: its deadline has expired.  The deadline a   *)
(* peer derives from the remaining time is rounded down and starts later,  *)
(* so it is independent.  The candidates are those of the ring when the    *)
(* request arrives.  A request that reaches a peer after its sender gave   *)
(* up is modelled as having reached it before.                             *)
(***************************************************************************)
EXTENDS CircuitBreaker, Sequences, FiniteSets, Functions

CONSTANTS
  Nodes, Requests,
  Origin,        \* the node each request is sent to
  Walk,          \* the owners of the ring's points, clockwise from its routing key
  Keyed,         \* the requests with a routing key; the others stay local
  CpuTasks,      \* the requests whose task is of the class CPU
  MaxAttempts,   \* RetryPolicy.max_attempts
  Capacity,      \* of the BackpressureController
  Burst,         \* of the TokenBucketRateLimiter
  MaxPending, MaxWorkers,
  Fragile        \* the nodes whose worker processes may die

ASSUME RoutingAssumption ==
  /\ IsFiniteSet(Nodes) /\ IsFiniteSet(Requests)
  /\ Origin \in [Requests -> Nodes] /\ Walk \in [Requests -> Seq(Nodes) \ {<<>>}]
  /\ Keyed \subseteq Requests /\ CpuTasks \subseteq Requests
  /\ {MaxAttempts, Capacity, Burst, MaxPending, MaxWorkers} \subseteq Nat \ {0}

\* The answers to a request.
Codes == {"OK", "INTERNAL_ERROR", "TIMEOUT", "OVERLOADED", "RATE_LIMITED",
          "PEER_UNAVAILABLE", "NONE"}

VARIABLES
  req,        \* each request at its origin: what it does, whether its deadline has
              \* expired, its candidate, the attempts made there, the state of the
              \* breaker at the start of the attempt, the answer
  tokens,     \* the tokens of a node's rate limiter
  breaker,    \* the breaker a node keeps for a peer
  admitted,   \* BackpressureController._in_flight
  pending,    \* _PendingLimiter._in_flight
  broken,     \* the nodes whose process pool is broken
  execs,      \* executions: their job, and the handler that awaits it
  started,    \* executions begun for each request (history)
  lost        \* exchanges that failed after the peer had begun to execute (history)

vars == <<req, tokens, breaker, admitted, pending, broken, execs, started, lost>>
slots == <<admitted, pending, broken, execs, started>>

Pcs == {"new", "route", "forward", "sent", "remote", "replied", "local", "done"}

\* ring.candidates(): each owner once, in the order of its first point.
FirstOwners(walk) ==
  LET found[i \in 0..Len(walk)] ==
        IF i = 0 THEN <<>>
        ELSE IF walk[i] \in Range(found[i - 1]) THEN found[i - 1]
                                                ELSE Append(found[i - 1], walk[i])
  IN  found[Len(walk)]

\* A request without a key stays where it is.
Candidates ==
  [r \in Requests |-> IF r \in Keyed THEN FirstOwners(Walk[r]) ELSE <<Origin[r]>>]
Candidate(r) == Candidates[r][req[r].cand]
Link(r) == <<Origin[r], Candidate(r)>>

Received == [pc |-> "new", late |-> FALSE, cand |-> 1, tries |-> 0,
             start |-> "CLOSED", code |-> "NONE"]

Init ==
  /\ req = [r \in Requests |-> Received]
  /\ tokens = [n \in Nodes |-> Burst]
  /\ breaker = [l \in Nodes \X Nodes |-> NewBreaker]
  /\ admitted = [n \in Nodes |-> 0]
  /\ pending = [n \in Nodes |-> 0]
  /\ broken = {}
  /\ execs = {}
  /\ started = [r \in Requests |-> 0]
  /\ lost = [r \in Requests |-> 0]

\* The request ends with this answer, or goes on to its next candidate.
Finish(r, code) ==
  req' = [req EXCEPT ![r] = [Received EXCEPT !.pc = "done", !.code = code]]
NextCandidate(r) ==
  req' = [req EXCEPT ![r] = [Received EXCEPT !.pc = "route", !.late = req[r].late,
                                          !.cand = req[r].cand + 1]]
-----------------------------------------------------------------------------
(* Execution at a node *)

\* The slots of the pool that a task takes: only tasks of the class CPU use it.
Slots(r) == IF r \in CpuTasks THEN 1 ELSE 0

\* The limits that refuse an execution at n before it suspends.
Refusal(r, n) ==
  CASE admitted[n] >= Capacity                          -> "OVERLOADED"
    [] admitted[n] < Capacity /\ r \in CpuTasks
         /\ pending[n] >= MaxPending                    -> "OVERLOADED"
    [] admitted[n] < Capacity /\ r \in CpuTasks
         /\ pending[n] < MaxPending /\ n \in broken     -> "INTERNAL_ERROR"
    [] OTHER                                            -> "NONE"

\* The counters of the BackpressureController and of the _PendingLimiter, which
\* does not go below zero.
AcquireAdmission(n) == admitted' = [admitted EXCEPT ![n] = @ + 1]
AcquirePending(n, count) == pending' = [pending EXCEPT ![n] = @ + count]
ReleaseAdmission(n) == admitted' = [admitted EXCEPT ![n] = @ - 1]
ReleasePending(n, count) == pending' = [pending EXCEPT ![n] = IF @ < count THEN 0 ELSE @ - count]

\* _execute_local() up to its suspension: admission, pending slot and submit.
Execute(r, n, remote) ==
  /\ AcquireAdmission(n) /\ AcquirePending(n, Slots(r))
  /\ execs' = execs \cup {[req |-> r, node |-> n, no |-> started[r] + 1,
                           job |-> IF r \in CpuTasks THEN "queued" ELSE "running",
                           remote |-> remote, waiting |-> TRUE]}
  /\ started' = [started EXCEPT ![r] = @ + 1]
  /\ UNCHANGED broken

JobDone(e) == e.job \in {"OK", "INTERNAL_ERROR"}

\* Executions of which neither the job nor the handler is left are forgotten.
Update(e, new) ==
  execs' = (execs \ {e}) \cup {f \in {new} : ~JobDone(f) \/ f.waiting}

\* A worker takes a job.
JobStarts(e) ==
  /\ e.job = "queued"
  /\ Cardinality({f \in execs : f.node = e.node /\ f.req \in CpuTasks
                                /\ f.job = "running"}) < MaxWorkers
  /\ Update(e, [e EXCEPT !.job = "running"])
  /\ UNCHANGED <<req, tokens, breaker, admitted, pending, broken, started, lost>>

\* The task returns or raises; the callback of its future frees the slot.
JobEnds(e) ==
  /\ e.job = "running"
  /\ \E result \in {"OK", "INTERNAL_ERROR"} : Update(e, [e EXCEPT !.job = result])
  /\ ReleasePending(e.node, Slots(e.req))
  /\ UNCHANGED <<req, tokens, breaker, admitted, broken, started, lost>>

\* A worker process dies: every future of the pool fails and none is accepted
\* any more.
PoolBreaks(n) ==
  LET hit == {e \in execs : e.node = n /\ e.req \in CpuTasks /\ ~JobDone(e)}
  IN  /\ n \in Fragile \ broken /\ \E e \in hit : e.job = "running"
      /\ broken' = broken \cup {n}
      /\ ReleasePending(n, Cardinality(hit))
      /\ execs' = (execs \ hit) \cup {[e EXCEPT !.job = "INTERNAL_ERROR"] :
                                        e \in {f \in hit : f.waiting}}
      /\ UNCHANGED <<req, tokens, breaker, admitted, started, lost>>

\* What the handler of an execution does with its result: the admission is
\* released in any case, and the answer reaches whoever still waits for it.
Answer(e, code) ==
  /\ ReleaseAdmission(e.node)
  /\ CASE ~e.remote      -> Finish(e.req, code)
       [] e.remote /\ req[e.req].pc = "remote" /\ started[e.req] = e.no ->
            req' = [req EXCEPT ![e.req].pc = "replied", ![e.req].code = code]
       [] OTHER           -> UNCHANGED req
  /\ UNCHANGED <<tokens, breaker, broken, started, lost>>

ExecutionReturns(e) ==
  /\ e.waiting /\ JobDone(e)
  /\ Answer(e, e.job)
  /\ Update(e, [e EXCEPT !.waiting = FALSE])
  /\ UNCHANGED pending

\* Mutant: the slot is given back though the worker is still busy.
ExecutionTimesOutFreely(e) ==
  /\ e.waiting /\ ~JobDone(e)
  /\ e.remote \/ req[e.req].late
  /\ Answer(e, "TIMEOUT")
  /\ ReleasePending(e.node, Slots(e.req))
  /\ IF e.req \in CpuTasks /\ e.job = "running"
     THEN Update(e, [e EXCEPT !.waiting = FALSE])
     ELSE execs' = execs \ {e}

\* Deadline.run() gives up.  That cancels a coroutine and a job that is queued;
\* a job that a worker runs goes on and keeps its slot.
ExecutionTimesOut(e) ==
  /\ e.waiting /\ ~JobDone(e)
  /\ e.remote \/ req[e.req].late
  /\ Answer(e, "TIMEOUT")
  /\ IF e.req \in CpuTasks /\ e.job = "running"
     THEN Update(e, [e EXCEPT !.waiting = FALSE]) /\ UNCHANGED pending
     ELSE /\ execs' = execs \ {e}
          /\ ReleasePending(e.node, Slots(e.req))
-----------------------------------------------------------------------------
(* A request at its origin *)

Expire(r) ==
  /\ req[r].pc \notin {"new", "done"} /\ ~req[r].late
  /\ req' = [req EXCEPT ![r].late = TRUE]
  /\ UNCHANGED <<tokens, breaker, slots, lost>>

\* Time brings another token, which matters while a request is still to come.
Refill(n) ==
  /\ tokens[n] < Burst /\ \E r \in Requests : Origin[r] = n /\ req[r].pc = "new"
  /\ tokens' = [tokens EXCEPT ![n] = @ + 1]
  /\ UNCHANGED <<req, breaker, slots, lost>>

\* allow(): a request takes a token, if there is one.
Allow(n) == tokens[n] > 0 /\ tokens' = [tokens EXCEPT ![n] = @ - 1]

Receive(r) ==
  /\ req[r].pc = "new"
  /\ \/ Allow(Origin[r]) /\ req' = [req EXCEPT ![r].pc = "route"]
     \/ tokens[Origin[r]] = 0 /\ Finish(r, "RATE_LIMITED") /\ UNCHANGED tokens
  /\ UNCHANGED <<breaker, slots, lost>>

\* One iteration of ClusterRouter.execute() that does not execute locally.
Route(r) ==
  /\ req[r].pc = "route"
  /\ CASE req[r].cand > Len(Candidates[r]) -> Finish(r, "PEER_UNAVAILABLE")
       [] req[r].cand <= Len(Candidates[r]) /\ req[r].late -> Finish(r, "TIMEOUT")
       [] OTHER -> /\ Candidate(r) # Origin[r]
                   /\ req' = [req EXCEPT ![r].pc = "forward"]
  /\ UNCHANGED <<tokens, breaker, slots, lost>>

\* The candidate is the node itself, or the request has no key.  Overload is
\* failed over only for a key.
RouteLocally(r) ==
  LET refusal == Refusal(r, Origin[r])
  IN  /\ req[r].pc = "route" /\ ~req[r].late
      /\ req[r].cand <= Len(Candidates[r]) /\ Candidate(r) = Origin[r]
      /\ \/ /\ refusal = "NONE"
            /\ req' = [req EXCEPT ![r].pc = "local"]
            /\ Execute(r, Origin[r], FALSE)
         \/ /\ refusal # "NONE"
            /\ IF refusal = "OVERLOADED" /\ r \in Keyed THEN NextCandidate(r)
                                                       ELSE Finish(r, refusal)
            /\ UNCHANGED slots
      /\ UNCHANGED <<tokens, breaker, lost>>

\* attempt() of forward_task() up to the exchange.
Attempt(r) ==
  /\ req[r].pc = "forward"
  /\ \/ /\ req[r].late
        /\ Finish(r, "TIMEOUT")
        /\ UNCHANGED breaker
     \/ /\ ~req[r].late /\ ~Admits(breaker[Link(r)])
        /\ NextCandidate(r)
        /\ UNCHANGED breaker
     \/ /\ ~req[r].late /\ Admits(breaker[Link(r)])
        /\ LET b == BeforeCall(breaker[Link(r)])
           IN  /\ breaker' = [breaker EXCEPT ![Link(r)] = b]
               /\ req' = [req EXCEPT ![r].pc = "sent", ![r].tries = @ + 1, ![r].start = b.state]
  /\ UNCHANGED <<tokens, slots, lost>>

\* The peer handles a FORWARDED_REQUEST.
Deliver(r) ==
  LET refusal == Refusal(r, Candidate(r))
  IN  /\ req[r].pc = "sent"
      /\ \/ /\ refusal = "NONE"
            /\ req' = [req EXCEPT ![r].pc = "remote"]
            /\ Execute(r, Candidate(r), TRUE)
         \/ /\ refusal # "NONE"
            /\ req' = [req EXCEPT ![r].pc = "replied", ![r].code = refusal]
            /\ UNCHANGED slots
      /\ UNCHANGED <<tokens, breaker, lost>>

\* retry_async() after an attempt that failed with one of _RETRYABLE.  The backoff
\* it draws may be longer than the time that is left.
AfterFailure(r) ==
  \/ req[r].tries = MaxAttempts /\ NextCandidate(r)
  \/ req[r].tries < MaxAttempts /\ Finish(r, "TIMEOUT")
  \/ /\ req[r].tries < MaxAttempts /\ ~req[r].late
     /\ req' = [req EXCEPT ![r].pc = "forward", ![r].start = "CLOSED", ![r].code = "NONE"]

\* An exchange ends without an answer.
NoAnswer(r) ==
  /\ req[r].pc \in {"sent", "remote", "replied"}
  /\ breaker' = [breaker EXCEPT ![Link(r)] = RecordFailure(@, req[r].start)]
  /\ lost' = IF req[r].pc = "sent" \/ (req[r].pc = "replied" /\ req[r].code = "OVERLOADED")
             THEN lost ELSE [lost EXCEPT ![r] = @ + 1]
  /\ UNCHANGED <<tokens, slots>>

ExchangeFails(r) == NoAnswer(r) /\ AfterFailure(r)

ConnectionLost(r) == ExchangeFails(r)

\* The peer closes the connection: IncompleteReadError is an EOFError, which neither
\* retry_async() nor the router expects, and ends the request.
ConnectionClosed(r) == NoAnswer(r) /\ Finish(r, "INTERNAL_ERROR")

\* Mutant: a peer that has taken the request is waited for.
ExchangeTimesOutBefore(r) == req[r].pc = "sent" /\ req[r].late /\ ExchangeFails(r)

\* The timeout of an exchange is the time that is left to the request.
ExchangeTimesOut(r) == req[r].late /\ ExchangeFails(r)

\* Mutant: any error of a peer is failed over.
ExchangeReturnsRetryAll(r) ==
  /\ req[r].pc = "replied"
  /\ breaker' = [breaker EXCEPT ![Link(r)] = RecordSuccess(@, req[r].start)]
  /\ IF req[r].code # "OK" THEN NextCandidate(r) ELSE Finish(r, req[r].code)
  /\ UNCHANGED <<tokens, slots, lost>>

\* An answer, whatever it says, is a success of the breaker.
ExchangeReturns(r) ==
  /\ req[r].pc = "replied"
  /\ breaker' = [breaker EXCEPT ![Link(r)] = RecordSuccess(@, req[r].start)]
  /\ IF req[r].code = "OVERLOADED" THEN NextCandidate(r) ELSE Finish(r, req[r].code)
  /\ UNCHANGED <<tokens, slots, lost>>

CoolDown(l) ==
  /\ breaker[l].state = "OPEN" /\ ~breaker[l].cooled
  /\ breaker' = [breaker EXCEPT ![l] = Cooled(@)]
  /\ UNCHANGED <<req, tokens, slots, lost>>
-----------------------------------------------------------------------------
\* What the origin does for a request without the help of a peer or a worker.
OriginStep(r) ==
  \/ Expire(r) \/ Route(r) \/ RouteLocally(r) \/ Attempt(r)
  \/ ExchangeTimesOut(r) \/ ExchangeReturns(r)
  \/ \E e \in execs : /\ e.req = r /\ ~e.remote
                      /\ ExecutionReturns(e) \/ ExecutionTimesOut(e)

Next ==
  \/ \E r \in Requests : Receive(r) \/ OriginStep(r) \/ Deliver(r)
                         \/ ConnectionLost(r) \/ ConnectionClosed(r)
  \/ \E e \in execs :
       \/ JobStarts(e) \/ JobEnds(e)
       \/ e.remote /\ (ExecutionReturns(e) \/ ExecutionTimesOut(e))
  \/ \E n \in Nodes : PoolBreaks(n) \/ Refill(n)
  \/ \E l \in Nodes \X Nodes : CoolDown(l)

Spec == Init /\ [][Next]_vars

\* Time passes and the event loop of the origin runs.  Nothing is assumed of
\* peers, connections and workers.
FairSpec == Spec /\ \A r \in Requests : WF_vars(OriginStep(r))
-----------------------------------------------------------------------------
(* Properties *)

Request ==
  [pc : Pcs, late : BOOLEAN, cand : Nat, tries : 0..MaxAttempts, start : CircuitState,
   code : Codes]

Execution ==
  [req : Requests, node : Nodes, no : Nat, remote : BOOLEAN,
   job : {"queued", "running", "OK", "INTERNAL_ERROR"}, waiting : BOOLEAN]

TypeOK ==
  /\ req \in [Requests -> Request]
  /\ tokens \in [Nodes -> 0..Burst]
  /\ breaker \in [Nodes \X Nodes -> Breaker]
  /\ admitted \in [Nodes -> 0..Capacity]
  /\ pending \in [Nodes -> 0..MaxPending]
  /\ broken \subseteq Nodes
  /\ execs \subseteq Execution
  /\ started \in [Requests -> Nat] /\ lost \in [Requests -> Nat]

\* No slot leaks and none is freed twice, whether a task returns, raises, times
\* out while queued or running, or its pool breaks: admission counts the handlers
\* that await an execution, and the limiter counts the jobs the pool holds,
\* those nobody waits for any more included.  Neither exceeds its limit.
SlotsExact ==
  \A n \in Nodes :
    /\ admitted[n] <= Capacity /\ pending[n] <= MaxPending
    /\ admitted[n] = Cardinality({e \in execs : e.node = n /\ e.waiting})
    /\ pending[n] = Cardinality({e \in execs : e.node = n /\ e.req \in CpuTasks /\ ~JobDone(e)})

\* The executions of a request that its present step or its answer stands for.
Accounted(r) ==
  \/ req[r].pc \in {"local", "remote"}
  \/ req[r].pc \in {"replied", "done"} /\ req[r].code \in {"OK", "INTERNAL_ERROR", "TIMEOUT"}

\* Retries and failover execute a task again only after an exchange that the
\* peer had begun to work on was lost.  In particular a request that is refused
\* was executed no more often than that.
RepeatsNeedLoss ==
  \A r \in Requests : started[r] <= lost[r] + (IF Accounted(r) THEN 1 ELSE 0)

\* The probes of a half-open breaker that are under way.
ProbesUnderWay(l) ==
  {r \in Requests : /\ req[r].pc \in {"sent", "remote", "replied"}
                    /\ Link(r) = l /\ req[r].start = "HALF_OPEN"}

\* A half-open breaker never refuses on account of a probe that is over, also
\* when late results of earlier calls moved it in between: a slot that is taken
\* belongs to an exchange that is under way, and so will be given back.
ProbeSlotsHeld ==
  \A l \in Nodes \X Nodes :
    breaker[l].state = "HALF_OPEN" => breaker[l].probes <= Cardinality(ProbesUnderWay(l))

\* Every request that is received is answered, whatever peers, connections and
\* workers do: deadlines bound each wait.
RequestsAnswered == \A r \in Requests : req[r].pc # "new" ~> req[r].pc = "done"
=============================================================================
