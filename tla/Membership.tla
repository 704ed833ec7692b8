----------------------------- MODULE Membership -----------------------------
(***************************************************************************)
(* The SWIM-style membership of cluster/: the table of membership.py, the  *)
(* probes of failure_detector.py, the gossip of gossip.py, and bootstrap,  *)
(* control messages and ring of service.py and consistent_hash.py.         *)
(*                                                                         *)
(* Durations are left out: a running suspicion or retention timer may      *)
(* expire in any iteration of the failure detector.  A timer runs exactly  *)
(* while the status of its record says so, so timers need no state.  An    *)
(* exchange that succeeds is one step.  It fails when the path to the peer *)
(* is cut or the peer is down; a peer that is up may have merged it.  A    *)
(* peer that ends may close the connection before it answers: then         *)
(* IncompleteReadError, which nobody expects, ends the task that waits.    *)
(* The indirect probes that follow a failed probe are steps of their own.  *)
(* The ring is not a variable: sync_ring() follows every change of the     *)
(* table and waits for nothing but a lock that is never held for long, so  *)
(* that what routing uses are the members of the table that are ALIVE.     *)
(***************************************************************************)
EXTENDS Integers, FiniteSets

CONSTANTS
  Nodes,
  Seeds,            \* the seeds configured at each node; none for the root
  IndirectProbes,   \* CLUSTER_INDIRECT_PROBE_COUNT
  Formed,           \* the nodes that are up in the beginning
  Crashable,        \* the nodes that may crash
  Cuttable,         \* the paths <<from, to>> that may be cut
  MaxFaults,        \* bound: crashes and cuts
  MaxIncarnation,   \* bound: incarnations reached by probing along cut paths
  Absent, NoProbe, NoAck

ASSUME MembershipAssumption ==
  /\ Seeds \in [Nodes -> SUBSET Nodes]
  /\ Formed \subseteq Nodes /\ Crashable \subseteq Nodes
  /\ Cuttable \subseteq Nodes \X Nodes
  /\ IndirectProbes \in Nat /\ MaxFaults \in Nat /\ MaxIncarnation \in Nat

ALIVE == 1
SUSPECT == 2
DEAD == 3

Record == [status : {ALIVE, SUSPECT, DEAD}, incarnation : Nat]

\* _members of a MembershipTable, an ACK, and an iteration of the failure
\* detector whose direct probe has failed.
Table == [Nodes -> Record \cup {Absent}]
AckMessage == [success : BOOLEAN, target : Nodes, gossip : Table]
Iteration == [target : Nodes, snapshot : Table, helpers : SUBSET Nodes,
              answer : AckMessage \cup {NoAck}]

ASSUME NullAssumption ==
  Absent \notin Record /\ NoAck \notin AckMessage /\ NoProbe \notin Iteration

VARIABLES
  mode,      \* "down", "joining" (bound, trying its seeds), "up", or "closing",
             \* while connections end without an answer
  table,     \* MembershipTable._members of each node
  loops,     \* the background tasks of each node that have not ended
  untried,   \* the seeds a joining node has not tried
  born,      \* the incarnation of local_member, which a node starts and joins with
  probe,     \* the iteration of the failure detector of each node
  cut,       \* the paths that are cut
  faults     \* crashes and cuts so far

vars == <<mode, table, loops, untried, born, probe, cut, faults>>

Alive(i) == [status |-> ALIVE, incarnation |-> i]

Alone(n, i) == [k \in Nodes |-> IF k = n THEN Alive(i) ELSE Absent]

Known(t, S) == {k \in Nodes : t[k] # Absent /\ t[k].status \in S}

\* The modes in which a node answers, and whether a control message from m to n is
\* answered.
Serving(n) == mode[n] \in {"joining", "up"}
Reachable(m, n) == Serving(n) /\ <<m, n>> \notin cut

\* n ends while m waits for its answer.
Breaks(m, n) == mode[n] = "closing" /\ <<m, n>> \notin cut
-----------------------------------------------------------------------------
(* The table *)

\* Mutant: an older incarnation is not ignored.
SupersedesAnyway(incoming, current) ==
  \/ incoming.incarnation # current.incarnation
  \/ incoming.incarnation = current.incarnation /\ incoming.status > current.status

Supersedes(incoming, current) ==
  \/ incoming.incarnation > current.incarnation
  \/ incoming.incarnation = current.incarnation /\ incoming.status > current.status


\* A node answers a suspicion of itself with a newer incarnation.
Refuted(current, incoming) ==
  IF incoming.status # ALIVE /\ incoming.incarnation >= current.incarnation
  THEN Alive(incoming.incarnation + 1)
  ELSE current

\* _merge_one_locked(): the record of k at node n after the record `incoming`.
MergeOne(n, k, current, incoming) ==
  CASE incoming = Absent                                     -> current
    [] incoming # Absent /\ k = n                            -> Refuted(current, incoming)
    [] incoming # Absent /\ k # n /\ current = Absent        -> incoming
    [] incoming # Absent /\ k # n /\ current # Absent ->
         IF Supersedes(incoming, current) THEN incoming ELSE current

Merge(n, t, records) == [k \in Nodes |-> MergeOne(n, k, t[k], records[k])]

\* mark_suspect(), whatever incarnation the member has by now.
MarkSuspect(t, k) ==
  IF t[k] # Absent /\ t[k].status = ALIVE THEN [t EXCEPT ![k].status = SUSPECT] ELSE t

\* Mutant: declaring a member dead makes up an incarnation.
AdvanceTimeoutsAndPurgeNewer(t, expired, purged) ==
  [k \in Nodes |->
     CASE k \in expired -> [status |-> DEAD, incarnation |-> t[k].incarnation + 1]
       [] k \in purged  -> Absent
       [] OTHER         -> t[k]]

\* advance_timeouts_and_purge(): these suspicions and tombstones have run out.
AdvanceTimeoutsAndPurge(t, expired, purged) ==
  [k \in Nodes |->
     CASE k \in expired -> [t[k] EXCEPT !.status = DEAD]
       [] k \in purged  -> Absent
       [] OTHER         -> t[k]]

\* The members that rebuild() puts on the ring.
RingOf(t) == Known(t, {ALIVE})

\* Node n changes its table; so do nodes n and p in one exchange.
Install(n, t) == table' = [table EXCEPT ![n] = t]

InstallBoth(n, t, p, u) == table' = [table EXCEPT ![n] = t, ![p] = u]
-----------------------------------------------------------------------------
(* Control messages: handle_control() and the exchanges of peer_client.py.    *)
(* What a handler answers with, as gossip, is its table when it is done.      *)

Ack(success, target, gossip) == [success |-> success, target |-> target, gossip |-> gossip]

Confirms(ack, target) == ack # NoAck /\ ack.success /\ ack.target = target

\* JOIN_REQUEST: the table of s once it knows the new member, which it answers with.
HandleJoin(s, joining) == Merge(s, table[s], joining)

HandlePing(p, incoming) == Ack(TRUE, p, Merge(p, table[p], incoming))

HandleGossip(p, incoming) == Ack(TRUE, p, Merge(p, table[p], incoming))

\* ping(): the answer of p to m, if there is one.
Ping(m, p, gossip) == IF Reachable(m, p) THEN HandlePing(p, gossip) ELSE NoAck

\* PING_REQ: the helper merges the gossip and pings the target with the result.
\* It merges what the target answers, and says whether the target did.
HandlePingReq(h, target, incoming) ==
  LET heard == Merge(h, table[h], incoming)
      ack == Ping(h, target, heard)
  IN  IF Confirms(ack, target)
      THEN Ack(TRUE, target, Merge(h, heard, ack.gossip))
      ELSE Ack(FALSE, target, heard)

\* ping_request(): the answer of helper h to n.
PingRequest(n, h, target, gossip) ==
  IF Reachable(n, h) THEN HandlePingReq(h, target, gossip) ELSE NoAck
-----------------------------------------------------------------------------
(* Start, bootstrap and faults *)

\* _background_tasks, which start() creates and nobody looks after.
Loops == {"detector", "gossip"}

\* Some nodes have formed a cluster and the others have not started.
Init ==
  /\ mode = [n \in Nodes |-> IF n \in Formed THEN "up" ELSE "down"]
  /\ table = [n \in Nodes |-> IF n \in Formed
                              THEN [k \in Nodes |-> IF k \in Formed THEN Alive(1) ELSE Absent]
                              ELSE Alone(n, 0)]
  /\ loops = [n \in Nodes |-> IF n \in Formed THEN Loops ELSE {}]
  /\ untried = [n \in Nodes |-> {}]
  /\ born = [n \in Nodes |-> IF n \in Formed THEN 1 ELSE 0]
  /\ probe = [n \in Nodes |-> NoProbe]
  /\ cut = {}
  /\ faults = 0

\* A node starts with a fresh incarnation.  Without seeds it is up at once.
Start(n) ==
  LET i == table[n][n].incarnation + 1
  IN  /\ mode[n] = "down" /\ i <= MaxIncarnation
      /\ table' = [table EXCEPT ![n] = Alone(n, i)]
      /\ loops' = [loops EXCEPT ![n] = IF Seeds[n] = {} THEN Loops ELSE {}]
      /\ born' = [born EXCEPT ![n] = i]
      /\ mode' = [mode EXCEPT ![n] = IF Seeds[n] = {} THEN "up" ELSE "joining"]
      /\ untried' = [untried EXCEPT ![n] = Seeds[n] \ {n}]
      /\ UNCHANGED <<probe, cut, faults>>

\* bootstrap(): a seed answers with its table, which the new member merges.
Join(n, s) ==
  /\ mode[n] = "joining" /\ s \in untried[n]
  /\ Reachable(n, s)
  /\ LET answer == HandleJoin(s, Alone(n, born[n]))
     IN  InstallBoth(s, answer, n, Merge(n, table[n], answer))
  /\ mode' = [mode EXCEPT ![n] = "up"]
  /\ loops' = [loops EXCEPT ![n] = Loops]
  /\ untried' = [untried EXCEPT ![n] = {}]
  /\ UNCHANGED <<born, probe, cut, faults>>

\* A request may have been handled though its answer is lost.
JoinFails(n, s) ==
  /\ mode[n] = "joining" /\ s \in untried[n]
  /\ ~Reachable(n, s)
  /\ \/ Serving(s) /\ Install(s, HandleJoin(s, Alone(n, born[n])))
     \/ UNCHANGED table
  /\ untried' = [untried EXCEPT ![n] = @ \ {s}]
  /\ UNCHANGED <<mode, loops, born, probe, cut, faults>>

\* A node ends; nothing of its membership is persistent.
Forget(n) ==
  /\ mode' = [mode EXCEPT ![n] = "closing"]
  /\ table' = [table EXCEPT ![n] = Alone(n, @[n].incarnation)]
  /\ loops' = [loops EXCEPT ![n] = {}]
  /\ untried' = [untried EXCEPT ![n] = {}]
  /\ born' = [born EXCEPT ![n] = 0]
  /\ probe' = [probe EXCEPT ![n] = NoProbe]

\* The process is gone.
Closed(n) ==
  /\ mode[n] = "closing"
  /\ mode' = [mode EXCEPT ![n] = "down"]
  /\ UNCHANGED <<table, loops, untried, born, probe, cut, faults>>

\* No seed answered: ClusterBootstrapError ends the start of the node.  So does a seed
\* that closes the connection, though others are untried.
BootstrapFails(n) ==
  /\ mode[n] = "joining"
  /\ untried[n] = {} \/ \E s \in untried[n] : Breaks(n, s)
  /\ Forget(n)
  /\ UNCHANGED <<cut, faults>>

Crash(n) ==
  /\ n \in Crashable /\ Serving(n) /\ faults < MaxFaults
  /\ Forget(n)
  /\ faults' = faults + 1
  /\ UNCHANGED cut

Cut ==
  /\ cut = {} /\ Cuttable # {} /\ faults < MaxFaults
  /\ cut' = Cuttable
  /\ faults' = faults + 1
  /\ UNCHANGED <<mode, table, loops, untried, born, probe>>

Heal ==
  /\ cut # {}
  /\ cut' = {}
  /\ UNCHANGED <<mode, table, loops, untried, born, probe, faults>>
-----------------------------------------------------------------------------
(* The failure detector: run_once() *)

Idle(n) == "detector" \in loops[n] /\ probe[n] = NoProbe

\* What looking at the timers may leave of the table.
AfterTimers(n) ==
  {AdvanceTimeoutsAndPurge(table[n], expired, purged) :
     expired \in SUBSET Known(table[n], {SUSPECT}), purged \in SUBSET Known(table[n], {DEAD})}

\* Timers, then one member is chosen and pinged: it merges the snapshot of the
\* prober, and its answer is merged.
Probe(n, target) ==
  /\ Idle(n)
  /\ \E t \in AfterTimers(n) :
       LET ack == Ping(n, target, t)
       IN  /\ target \in Known(t, {ALIVE, SUSPECT}) \ {n}
           /\ Confirms(ack, target)
           /\ InstallBoth(target, ack.gossip, n, Merge(n, t, ack.gossip))
  /\ UNCHANGED <<mode, loops, untried, born, probe, cut, faults>>

\* No answer, though the ping may have arrived: helpers are chosen among the
\* other members that are ALIVE.  The bound stops the probes along a cut path.
ProbeFails(n, target) ==
  /\ Idle(n) /\ ~Reachable(n, target)
  /\ <<n, target>> \in cut => table[target][target].incarnation < MaxIncarnation
  /\ \E t \in AfterTimers(n) :
       LET others == Known(t, {ALIVE}) \ {n, target}
       IN  /\ target \in Known(t, {ALIVE, SUSPECT}) \ {n}
           /\ \/ Serving(target)
                 /\ InstallBoth(target, HandlePing(target, t).gossip, n, t)
              \/ Install(n, t)
           /\ \E helpers \in SUBSET others :
                /\ \/ Cardinality(helpers) = IndirectProbes
                   \/ helpers = others /\ Cardinality(helpers) < IndirectProbes
                /\ probe' = [probe EXCEPT ![n] = [target |-> target, snapshot |-> t,
                                                  helpers |-> helpers, answer |-> NoAck]]
  /\ UNCHANGED <<mode, loops, untried, born, cut, faults>>

\* The target closes the connection, and the failure detector ends.
ProbeRaises(n, target) ==
  /\ Idle(n) /\ Breaks(n, target)
  /\ \E t \in AfterTimers(n) : target \in Known(t, {ALIVE, SUSPECT}) \ {n} /\ Install(n, t)
  /\ loops' = [loops EXCEPT ![n] = @ \ {"detector"}]
  /\ UNCHANGED <<mode, untried, born, probe, cut, faults>>

\* An iteration that only looks at the timers, for want of a candidate.
NothingToProbe(n) ==
  /\ Idle(n)
  /\ \E t \in AfterTimers(n) : Known(t, {ALIVE, SUSPECT}) = {n} /\ Install(n, t)
  /\ UNCHANGED <<mode, loops, untried, born, probe, cut, faults>>

\* A helper reaches the target and its answer reaches the prober, which in the end
\* merges one of the answers: the first one in the order of its helpers.
IndirectProbe(n, h) ==
  LET p == probe[n]
      ack == PingRequest(n, h, p.target, p.snapshot)
      heard == Merge(h, table[h], p.snapshot)
  IN  /\ p # NoProbe /\ h \in p.helpers
      /\ Confirms(ack, p.target)
      /\ InstallBoth(h, ack.gossip, p.target, HandlePing(p.target, heard).gossip)
      /\ \E answer \in {ack, p.answer} \ {NoAck} :
           probe' = [probe EXCEPT ![n].helpers = @ \ {h}, ![n].answer = answer]
      /\ UNCHANGED <<mode, loops, untried, born, cut, faults>>

\* It does not, though the request may have arrived and, after it, the ping.
IndirectProbeFails(n, h) ==
  LET p == probe[n]
      heard == Merge(h, table[h], p.snapshot)
  IN  /\ p # NoProbe /\ h \in p.helpers
      /\ ~Confirms(PingRequest(n, h, p.target, p.snapshot), p.target)
      /\ \E arrived \in {{}, {h}, {h, p.target}} :
           /\ \A x \in arrived : Serving(x)
           /\ Reachable(n, h) => h \in arrived
           /\ LET t == IF h \in arrived THEN heard ELSE table[h]
                  u == IF p.target \in arrived THEN HandlePing(p.target, heard).gossip
                                               ELSE table[p.target]
              IN  InstallBoth(h, t, p.target, u)
      /\ probe' = [probe EXCEPT ![n].helpers = @ \ {h}]
      /\ UNCHANGED <<mode, loops, untried, born, cut, faults>>

\* The helper closes the connection, or the target closes that of the helper, whose
\* handler then closes its own.  The failure detector ends, the requests to the other
\* helpers go on.
IndirectProbeRaises(n, h) ==
  LET p == probe[n]
  IN  /\ p # NoProbe /\ h \in p.helpers
      /\ \/ Breaks(n, h) /\ UNCHANGED table
         \/ /\ Reachable(n, h) /\ Breaks(h, p.target)
            /\ Install(h, Merge(h, table[h], p.snapshot))
      /\ loops' = [loops EXCEPT ![n] = @ \ {"detector"}]
      /\ probe' = [probe EXCEPT ![n].helpers = @ \ {h}]
      /\ UNCHANGED <<mode, untried, born, cut, faults>>

\* When all helpers are done, an answer is merged; without any, the target is
\* suspected; and if the failure detector has ended, nothing is done.
ProbeEnds(n) ==
  LET p == probe[n]
  IN  /\ p # NoProbe /\ p.helpers = {}
      /\ Install(n, CASE "detector" \notin loops[n]      -> table[n]
                      [] "detector" \in loops[n] /\ Confirms(p.answer, p.target) ->
                           Merge(n, table[n], p.answer.gossip)
                      [] OTHER -> MarkSuspect(table[n], p.target))
      /\ probe' = [probe EXCEPT ![n] = NoProbe]
      /\ UNCHANGED <<mode, loops, untried, born, cut, faults>>
-----------------------------------------------------------------------------
(* Gossip *)

\* run_once() of the gossip loop: one exchange with a member that is ALIVE.
Gossip(n, p) ==
  LET u == HandleGossip(p, table[n]).gossip
  IN  /\ "gossip" \in loops[n] /\ p \in Known(table[n], {ALIVE}) \ {n}
      /\ \/ Reachable(n, p) /\ InstallBoth(p, u, n, Merge(n, table[n], u))
         \/ ~Reachable(n, p) /\ Serving(p) /\ Install(p, u)
      /\ UNCHANGED <<mode, loops, untried, born, probe, cut, faults>>

\* The member closes the connection, and the gossip loop ends.
GossipRaises(n, p) ==
  /\ "gossip" \in loops[n] /\ p \in Known(table[n], {ALIVE}) \ {n} /\ Breaks(n, p)
  /\ loops' = [loops EXCEPT ![n] = @ \ {"gossip"}]
  /\ UNCHANGED <<mode, table, untried, born, probe, cut, faults>>

\* What a node goes on to do by itself: its join, or the probe under way.
Continue(n) ==
  \/ BootstrapFails(n) \/ Closed(n) \/ ProbeEnds(n)
  \/ \E p \in Nodes : \/ Join(n, p) \/ JoinFails(n, p) \/ IndirectProbe(n, p)
                      \/ IndirectProbeFails(n, p) \/ IndirectProbeRaises(n, p)

Iterate(n, p) == Probe(n, p) \/ ProbeFails(n, p) \/ ProbeRaises(n, p)

Next ==
  \/ Cut \/ Heal
  \/ \E n \in Nodes :
       \/ Start(n) \/ Crash(n) \/ NothingToProbe(n) \/ Continue(n)
       \/ \E p \in Nodes : Iterate(n, p) \/ Gossip(n, p) \/ GossipRaises(n, p)

Spec == Init /\ [][Next]_vars

\* Exchanges time out, the member to probe is drawn at random, and paths that
\* were cut are restored.
Fairness ==
  /\ WF_vars(Heal)
  /\ \A n \in Nodes : WF_vars(Continue(n))
  /\ \A n \in Nodes : \A p \in Nodes \ {n} : SF_vars(Iterate(n, p))

FairSpec == Spec /\ Fairness
-----------------------------------------------------------------------------
(* Properties *)

TypeOK ==
  /\ mode \in [Nodes -> {"down", "joining", "up", "closing"}]
  /\ table \in [Nodes -> Table]
  /\ loops \in [Nodes -> SUBSET Loops]
  /\ untried \in [Nodes -> SUBSET Nodes]
  /\ born \in [Nodes -> Nat]
  /\ probe \in [Nodes -> Iteration \cup {NoProbe}]
  /\ cut \in {{}, Cuttable}
  /\ faults \in 0..MaxFaults

\* Only a node creates its incarnations: no table and no message holds a newer
\* one than the node has reached.  Hence a refutation or a restart always wins
\* over everything that is said about the node.
IncarnationsAreOwn ==
  \A n, k \in Nodes :
    /\ table[n][k] # Absent => table[n][k].incarnation <= table[k][k].incarnation
    /\ probe[n] # NoProbe =>
         \A r \in {probe[n].snapshot[k]} \cup
                  (IF probe[n].answer = NoAck THEN {} ELSE {probe[n].answer.gossip[k]}) :
           r # Absent => r.incarnation <= table[k][k].incarnation

\* Late gossip and late probe results never take a record back: it moves to a
\* newer incarnation or to a worse status, unless it was a tombstone whose
\* retention has run out.
RecordsAdvance ==
  [][\A n, k \in Nodes :
       LET old == table[n][k]
           new == table'[n][k]
       IN  (old # Absent /\ new # Absent /\ new # old)
             => Supersedes(new, old) \/ (old.status = DEAD /\ Idle(n))]_vars

\* The running nodes whose failure detector has not ended.
Probing == {n \in Nodes : mode[n] = "up" /\ "detector" \in loops[n]}

\* Once crashes and cuts are over, the running nodes that still probe find each other
\* ALIVE and keep each other in their rings.  If all running nodes still probe, their
\* rings hold no other node.
MembershipConverges ==
  <>[](/\ \A n, k \in Probing : k \in RingOf(table[n])
       /\ {n \in Nodes : mode[n] = "up"} = Probing => \A n \in Probing : RingOf(table[n]) = Probing)
=============================================================================
