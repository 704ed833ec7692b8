--------------------------- MODULE CausalCluster ----------------------------
(***************************************************************************)
(* The replicas of a CRDT key space and their clients: requests at any     *)
(* replica, the causal check of crdt_service.py, the targeted repair of    *)
(* replication/causal_repair.py, the state-based replication of mutations, *)
(* and client sessions that carry a causal token from answer to request.   *)
(*                                                                         *)
(* The ring does not change: a key has its replicas, and a request that    *)
(* reaches another node is forwarded to the first of them.  A replica is   *)
(* the durable store that DurableReplica describes in detail.  There a     *)
(* mutation or a merge takes several steps; it is one step here, a step of *)
(* AtomicReplica, which both modules implement.  The suspension points     *)
(* that matter between nodes are kept: between the causal check and the    *)
(* mutation, between the answers of a repair, and, in the answer to a      *)
(* fetch, between reading the entry and reading the clock, which waits for *)
(* a transaction that is under way.                                        *)
(***************************************************************************)
EXTENDS CausalEntries

CONSTANTS
  Sessions,    \* clients, each with one request at a time
  Preference,  \* the replicas of each key, in the order of the ring
  Routers,     \* nodes that replicate no key
  NoRequest,   \* a session that waits for no answer
  MaxWrites    \* bound: mutations by each node

Nodes == Actors

Request == [kind: {"read", "write", "remove"}, node: Nodes, key: Keys, token: Vector]

ASSUME ClusterAssumption ==
  /\ NoRequest \notin Request
  /\ Preference \in [Keys -> Seq(Nodes) \ {<<>>}]
  /\ MaxWrites \in Nat

VARIABLES
  written,    \* history: the keys of the mutations of each node, in order
  store,      \* the entries of each node
  frontier,   \* the causal clock of each node
  sent,       \* the snapshots handed to replication: each may arrive at any
              \* replica, late, more than once, or never
  token,      \* the causal token of each session
  seen,       \* history: the mutations of each key whose effect a session was shown
  request,    \* the request of each session
  pc,         \* where its handler is: idle, fetch, merge, mutate or answer
  found,      \* the entry that the causal check returned or the mutation made
  fetched,    \* the entries that peers have read and not yet answered with
  answers,    \* the answers of peers that are not yet merged
  gathered    \* merged_version: what the repair has proof of

nodeVars == <<written, store, frontier, sent>>
sessionVars == <<token, seen>>
repairVars == <<fetched, answers, gathered>>
vars == <<written, store, frontier, sent, token, seen, request, pc, found,
          fetched, answers, gathered>>

Init ==
  /\ written = [n \in Nodes |-> <<>>]
  /\ store = [n \in Nodes |-> [k \in Keys |-> NoEntry]]
  /\ frontier = [n \in Nodes |-> Zero]
  /\ sent = {}
  /\ token = [s \in Sessions |-> Zero]
  /\ seen = [s \in Sessions |-> [k \in Keys |-> NoEntry.dots]]
  /\ request = [s \in Sessions |-> NoRequest]
  /\ pc = [s \in Sessions |-> "idle"]
  /\ found = [s \in Sessions |-> NoEntry]
  /\ fetched = [s \in Sessions |-> {}]
  /\ answers = [s \in Sessions |-> {}]
  /\ gathered = [s \in Sessions |-> Zero]

\* Mutant: the clock does not observe what is merged.
MergeAtUnobserved(n, k, e) ==
  /\ store' = [store EXCEPT ![n][k] = MergeEntries(@, e)]
  /\ UNCHANGED frontier

\* merge_entry() and, for a context alone, merge_metadata(): the clock observes
\* the context of the result.
MergeAt(n, k, e) ==
  /\ store' = [store EXCEPT ![n][k] = MergeEntries(@, e)]
  /\ frontier' = [frontier EXCEPT
                    ![n] = Merge(@, MergeEntries(store[n][k], e).context)]
-----------------------------------------------------------------------------
(* Requests and the causal check *)

\* ReplicaSelector.replicas()
ReplicasOf(k) == {Preference[k][i] : i \in DOMAIN Preference[k]}

\* _route_mutation(), _route_read(): where a request that reaches node c is served.
\* The answer of the replica is passed on as it is; the clock of c is not involved.
Route(c, k) == IF c \in ReplicasOf(k) THEN c ELSE Preference[k][1]

\* _ensure_causal(): the context of the key covers the token or, for a key that
\* the node does not have, its clock does.
Covered(kind, n, k, v) ==
  \/ Dominates(store[n][k].context, v)
  \/ /\ store[n][k] = NoEntry
     /\ kind = "write" \/ ReplicasOf(k) = {n}
     /\ Dominates(frontier[n], v)

\* The causal check has passed, with entry e.
Pass(s, kind, e) ==
  /\ pc' = [pc EXCEPT ![s] = IF kind = "read" THEN "answer" ELSE "mutate"]
  /\ found' = [found EXCEPT ![s] = e]

\* A token is sent as its version vector; the request of a session carries it.
TokenToProto(v) == [version |-> VersionToProto(v)]
TokenFromProto(p) == VersionFromProto(p.version)
EncodeRequest(kind, k, v) == [kind |-> kind, key |-> k, causal_token |-> TokenToProto(v)]
DecodeRequest(n, m) ==
  [kind |-> m.kind, node |-> n, key |-> m.key, token |-> TokenFromProto(m.causal_token)]

\* A request reaches node n, a replica of its key.  A read of an absent key
\* without a token is answered KEY_NOT_FOUND at once.
Begin(s, kind, n, k) ==
  /\ pc[s] = "idle"
  /\ request' = [request EXCEPT ![s] = DecodeRequest(n, EncodeRequest(kind, k, token[s]))]
  /\ kind = "read" => store[n][k] # NoEntry \/ request'[s].token # Zero
  /\ IF Covered(kind, n, k, request'[s].token)
     THEN /\ Pass(s, kind, store[n][k])
          /\ UNCHANGED gathered
     ELSE /\ pc' = [pc EXCEPT ![s] = "fetch"]
          /\ gathered' = [gathered EXCEPT ![s] = store[n][k].context]
          /\ UNCHANGED found
  /\ UNCHANGED <<nodeVars, sessionVars, fetched, answers>>

End(s) ==
  /\ request' = [request EXCEPT ![s] = NoRequest]
  /\ pc' = [pc EXCEPT ![s] = "idle"]
  /\ found' = [found EXCEPT ![s] = NoEntry]
  /\ fetched' = [fetched EXCEPT ![s] = {}]
  /\ answers' = [answers EXCEPT ![s] = {}]
  /\ gathered' = [gathered EXCEPT ![s] = Zero]

\* The client gets an error or nothing: a refused request, a deadline, an absent
\* key, or the answer to a mutation that has been applied and is lost.
Fail(s) ==
  /\ pc[s] # "idle"
  /\ End(s)
  /\ UNCHANGED <<nodeVars, sessionVars>>
-----------------------------------------------------------------------------
(* Causal repair *)

\* _fetch_response(): the peer reads its entry ...
FetchRead(s, p) ==
  /\ pc[s] = "fetch"
  /\ p \in ReplicasOf(request[s].key) \ {request[s].node}
  /\ \A f \in fetched[s] \cup answers[s] : f.peer # p
  /\ fetched' = [fetched EXCEPT ![s] =
                   @ \cup {[peer |-> p, entry |-> store[p][request[s].key]]}]
  /\ UNCHANGED <<nodeVars, sessionVars, request, pc, found, answers, gathered>>

\* ... and answers with it and with what its clock, which observes the entry,
\* holds by then.
FetchAnswer(s, f) ==
  /\ fetched' = [fetched EXCEPT ![s] = @ \ {f}]
  /\ answers' = [answers EXCEPT ![s] =
                   @ \cup {[entry |-> f.entry, peer |-> f.peer,
                            proof |-> Merge(frontier[f.peer], f.entry.context)]}]
  /\ frontier' = [frontier EXCEPT ![f.peer] = Merge(@, f.entry.context)]
  /\ UNCHANGED <<written, store, sent, sessionVars, request, pc, found, gathered>>

\* gather() returns: every peer has answered or failed.
Gather(s) ==
  /\ pc[s] = "fetch"
  /\ pc' = [pc EXCEPT ![s] = "merge"]
  /\ fetched' = [fetched EXCEPT ![s] = {}]
  /\ UNCHANGED <<nodeVars, sessionVars, request, found, answers, gathered>>

\* One answer is merged; an answer without an entry brings only its proof.
MergeAnswer(s, a) ==
  LET n == request[s].node
      k == request[s].key
      merged == MergeEntries(store[n][k], a.entry)
  IN /\ pc[s] = "merge"
     /\ answers' = [answers EXCEPT ![s] = @ \ {a}]
     /\ IF a.entry = NoEntry
        THEN /\ gathered' = [gathered EXCEPT ![s] = Merge(@, a.proof)]
             /\ UNCHANGED <<store, frontier>>
        ELSE /\ gathered' = [gathered EXCEPT ![s] =
                               Merge(Merge(@, a.proof), merged.context)]
             /\ MergeAt(n, k, a.entry)
     /\ UNCHANGED <<written, sent, sessionVars, request, pc, found, fetched>>

\* All answers are merged: the entry, if there is one, takes over all that was
\* proved, and the check is repeated: it passes or is CAUSAL_UNAVAILABLE.
Recheck(s) ==
  LET n == request[s].node
      k == request[s].key
      proved == Merge(gathered[s], store[n][k].context)
  IN /\ pc[s] = "merge"
     /\ answers[s] = {}
     /\ IF store[n][k] = NoEntry
        THEN UNCHANGED <<store, frontier>>
        ELSE MergeAt(n, k, OnlyContext(proved))
     /\ IF Dominates(proved, request[s].token)
        THEN /\ Pass(s, request[s].kind, store'[n][k])
             /\ UNCHANGED <<request, repairVars>>
        ELSE End(s)
     /\ UNCHANGED <<written, sent, sessionVars>>
-----------------------------------------------------------------------------
(* Mutations, answers and replication *)

\* staged_allocation(): the clock, what the key observed, and the token.
Base(n, k, v) == Merge(frontier[n], Merge(store[n][k].context, v))

\* Mutant: the allocation is not committed to the clock.
AllocationDropped(n, base, counter) == base

\* CausalAllocation.frontier, which commit() makes the clock of the node.
Allocation(n, base, counter) == WithDot(base, n, counter)

\* mutate(): the entry is read again under its lock; what the check found is not
\* used.  The snapshot is handed to replication.
Mutate(s) ==
  LET n == request[s].node
      k == request[s].key
      base == Base(n, k, request[s].token)
      counter == base[n] + 1
      new == Mutated(store[n][k], base, n, counter)
  IN /\ pc[s] = "mutate"
     /\ Len(written[n]) < MaxWrites
     /\ written' = [written EXCEPT ![n] = Append(@, k)]
     /\ store' = [store EXCEPT ![n][k] = new]
     /\ frontier' = [frontier EXCEPT ![n] = Allocation(n, base, counter)]
     /\ sent' = sent \cup {[key |-> k, entry |-> new]}
     /\ pc' = [pc EXCEPT ![s] = "answer"]
     /\ found' = [found EXCEPT ![s] = new]
     /\ UNCHANGED <<sessionVars, request, repairVars>>

\* _success(): the clock observes the entry, and the session learns its value and,
\* as its token, what the clock holds by now.
Answer(s) ==
  LET n == request[s].node
      k == request[s].key
      v == Merge(frontier[n], found[s].context)
  IN /\ pc[s] = "answer"
     /\ found[s] # NoEntry
     /\ frontier' = [frontier EXCEPT ![n] = v]
     /\ token' = [token EXCEPT ![s] = Merge(@, v)]
     /\ seen' = [seen EXCEPT ![s][k] = [a \in Actors |-> @[a] \cup found[s].dots[a]]]
     /\ End(s)
     /\ UNCHANGED <<written, store, sent>>

\* _replicate_response(): a snapshot arrives at a replica.
Deliver(n, m) ==
  /\ n \in ReplicasOf(m.key)
  /\ MergeAt(n, m.key, m.entry)
  /\ UNCHANGED <<written, sent, sessionVars, request, pc, found, repairVars>>
-----------------------------------------------------------------------------
SessionStep(s) ==
  \/ \E kind \in {"read", "write", "remove"}, c \in Nodes \cup Routers, k \in Keys :
       Begin(s, kind, Route(c, k), k)
  \/ Fail(s)
  \/ \E p \in Nodes : FetchRead(s, p)
  \/ \E f \in fetched[s] : FetchAnswer(s, f)
  \/ Gather(s)
  \/ \E a \in answers[s] : MergeAnswer(s, a)
  \/ Recheck(s)
  \/ Mutate(s)
  \/ Answer(s)

Next ==
  \/ \E s \in Sessions : SessionStep(s)
  \/ \E n \in Nodes, m \in sent : Deliver(n, m)

Spec == Init /\ [][Next]_vars
-----------------------------------------------------------------------------
(* Properties *)

Message == [key: Keys, entry: Entry]
Fetched == [peer: Nodes, entry: Entry]
Reply == [peer: Nodes, entry: Entry, proof: Vector]

\* The shape of the state; a session has a request exactly while it is not idle.
TypeOK ==
  /\ written \in [Nodes -> Seq(Keys)]
  /\ store \in [Nodes -> [Keys -> Entry]]
  /\ frontier \in [Nodes -> Vector]
  /\ sent \in SUBSET Message
  /\ token \in [Sessions -> Vector]
  /\ seen \in [Sessions -> [Keys -> Dots]]
  /\ request \in [Sessions -> Request \cup {NoRequest}]
  /\ pc \in [Sessions -> {"idle", "fetch", "merge", "mutate", "answer"}]
  /\ found \in [Sessions -> Entry]
  /\ \A s \in Sessions : pc[s] = "idle" <=> request[s] = NoRequest
  /\ fetched \in [Sessions -> SUBSET Fetched]
  /\ answers \in [Sessions -> SUBSET Reply]
  /\ gathered \in [Sessions -> Vector]

\* The entries of key k at the nodes, in replication and in repairs.
EntriesOf(k) ==
  {store[n][k] : n \in Nodes}
    \cup {m.entry : m \in {x \in sent : x.key = k}}
    \cup UNION {{a.entry : a \in fetched[s] \cup answers[s]} :
                   s \in {x \in Sessions : pc[x] # "idle" /\ request[x].key = k}}

\* Digests can be trusted: two entries of a key with equal versions, wherever in
\* the cluster they are, contain the same mutations, and the one with the larger
\* version contains the other.  compare_digest() transfers states on the
\* strength of the versions alone.
VersionsTellStates ==
  \A k \in Keys : \A e, f \in EntriesOf(k) :
    Dominates(e.version, f.version) => \A a \in Actors : f.dots[a] \subseteq e.dots[a]

\* The clock of a node counts exactly its own mutations, and nobody in the
\* cluster, no token and no proof, claims to know of a mutation that was not
\* made: a required frontier can always be satisfied by asking every node.
NoFutureKnowledge ==
  \A n \in Nodes :
    /\ frontier[n][n] = Len(written[n])
    /\ \A p \in Nodes : frontier[p][n] <= Len(written[n])
    /\ \A s \in Sessions : /\ token[s][n] <= Len(written[n])
                           /\ gathered[s][n] <= Len(written[n])
                           /\ \A a \in answers[s] : a.proof[n] <= Len(written[n])

\* What a node has in its entries its clock has observed: a dot it allocates is
\* newer than all it has seen.
ClockCoversStore ==
  \A n \in Nodes, k \in Keys :
    /\ Dominates(frontier[n], store[n][k].context)
    /\ Dominates(store[n][k].context, store[n][k].version)

\* The steps of the cluster are steps of the replica that DurableReplica implements:
\* at every node a mutation or a merge takes effect at once on the entry and the
\* clock, no step does more at a node than one of them, and the observations of
\* _success() and _fetch_response() add nothing to the clock.
Node(n) == INSTANCE AtomicReplica WITH Self <- n, clock <- frontier[n], store <- store[n]
NodesAreAtomic == \A n \in Nodes : Node(n)!Spec

\* "The system provides read-your-writes, monotonic reads/writes ...": the entry
\* that answers a read contains every mutation of the key that the session has
\* made or been shown before.
ReadsAreCausal ==
  \A s \in Sessions : pc[s] = "answer" /\ request[s].kind = "read" =>
    \A a \in Actors : seen[s][request[s].key][a] \subseteq found[s].dots[a]
=============================================================================
