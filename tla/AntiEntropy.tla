---------------------------- MODULE AntiEntropy -----------------------------
(***************************************************************************)
(* The periodic anti-entropy of replication/anti_entropy.py, the digests   *)
(* of replication/digest.py and the peer's side in crdt_service.py.        *)
(*                                                                         *)
(* Every node replicates every key, and keys are numbered in the order in  *)
(* which the code sorts them.  Mutations happen at any node at any time;   *)
(* their fast-path replication may happen or fail.  A round takes its      *)
(* digests first and acts on each key later, on whatever the stores hold   *)
(* by then.  Each message to the peer, and each answer, is a step, and the *)
(* round may fail between any two of them.  A node that restarts compares  *)
(* all its keys with one peer after the other before its rounds go on.     *)
(*                                                                         *)
(* An entry has the type of its mutations.  Entries of different types are *)
(* never merged, and a set of which nothing is known but removals is not   *)
(* decoded by a peer (RefusedIsEmpty of CrdtReplicas).  Either of them     *)
(* raises out of the round, whose other keys are then left.                *)
(***************************************************************************)
EXTENDS CausalEntries, FiniteSets

CONSTANTS
  BatchSize,   \* CRDT_ANTI_ENTROPY_BATCH_SIZE
  NoRound,     \* a node that waits for its next round
  MaxWrites,   \* bound: mutations by each node
  MaxIncidents \* bound: rounds that fail, restarts and causal repairs

Nodes == Actors

ASSUME AntiEntropyAssumption ==
  /\ Keys \subseteq Nat
  /\ BatchSize \in Nat \ {0}
  /\ MaxWrites \in Nat /\ MaxIncidents \in Nat

VARIABLES
  written,   \* the keys of the mutations of each node, in order
  kind,      \* what these mutations do
  store,     \* the entries of each node
  round,     \* the round of each node: its peer, the digests, the keys to do,
             \* where it is, and the entry that it fetched or is to send
  recovering,  \* the peers that a restarted node has yet to compare itself with
  down,        \* the nodes whose start has failed
  incidents    \* the number of rounds that failed, of restarts and of repairs

vars == <<written, kind, store, round, recovering, down, incidents>>

Init ==
  /\ written = [n \in Nodes |-> <<>>]
  /\ store = [n \in Nodes |-> [k \in Keys |-> NoEntry]]
  /\ round = [n \in Nodes |-> NoRound]
  /\ kind = [n \in Nodes |-> <<>>]
  /\ recovering = [n \in Nodes |-> {}]
  /\ down = {}
  /\ incidents = 0

Up == Nodes \ down
-----------------------------------------------------------------------------
(* Types *)

Kinds == {"increment", "add", "remove"}

TypeOfKind(o) == IF o = "increment" THEN "counter" ELSE "set"

KindsOf(e) == UNION {{kind[a][i] : i \in e.dots[a]} : a \in Actors}

\* crdt_type of an entry.
TypeOf(e) ==
  IF KindsOf(e) = {} THEN "none" ELSE TypeOfKind(CHOOSE o \in KindsOf(e) : TRUE)

\* merge_entries() raises for two types.
Mergeable(e, f) == "none" \in {TypeOf(e), TypeOf(f)} \/ TypeOf(e) = TypeOf(f)

\* state_from_proto() raises for the set that is empty.
Decodable(e) == KindsOf(e) # {"remove"}
-----------------------------------------------------------------------------
(* Digests *)

Blank == [type |-> "none", version |-> Zero, context |-> Zero]

DigestEntry(e) == [type |-> TypeOf(e), version |-> e.version, context |-> e.context]

\* The m smallest keys of a set, which is what a slice of a sorted tuple keeps.
First(S, m) == {k \in S : Cardinality({j \in S : j < k}) < m}

\* The digest of the first m entries of a node.
DigestOf(entries, m) ==
  [k \in Keys |-> IF k \in First({j \in Keys : entries[j] # NoEntry}, m)
                  THEN DigestEntry(entries[k]) ELSE Blank]

Listed(d) == {k \in Keys : d[k] # Blank}


\* compare_digest(), which raises for two types.  A key that one side has not listed
\* counts as older there.
CompareDigest(l, r) ==
  CASE "none" \notin {l.type, r.type} /\ l.type # r.type -> "raises"
    [] Compare(l.version, r.version) = "equal" ->
         IF l.context = r.context THEN "equal" ELSE "metadata_only"
    [] Compare(l.version, r.version) = "after"      -> "local_ahead"
    [] Compare(l.version, r.version) = "before"     -> "remote_ahead"
    [] Compare(l.version, r.version) = "concurrent" -> "concurrent"
-----------------------------------------------------------------------------
(* Mutations *)

\* The clock of a node: all that the contexts of its entries cover.
Clock(n) ==
  [a \in Actors |->
     CHOOSE i \in {store[n][k].context[a] : k \in Keys} :
       \A k \in Keys : i >= store[n][k].context[a]]

\* A mutation that is not of the type of the key is refused.
Write(n, k, o) ==
  /\ n \in Up /\ Len(written[n]) < MaxWrites
  /\ TypeOf(store[n][k]) \in {"none", TypeOfKind(o)}
  /\ written' = [written EXCEPT ![n] = Append(@, k)]
  /\ kind' = [kind EXCEPT ![n] = Append(@, o)]
  /\ store' = [store EXCEPT ![n][k] = Mutated(@, Clock(n), n, Clock(n)[n] + 1)]
  /\ UNCHANGED <<round, recovering, down, incidents>>

\* The fast path delivers the newest snapshot of a key and changes the replica.
Replicate(n, p, k) ==
  /\ n # p /\ {n, p} \subseteq Up /\ store[n][k] # NoEntry
  /\ Decodable(store[n][k]) /\ Mergeable(store[p][k], store[n][k])
  /\ store' = [store EXCEPT ![p][k] = MergeEntries(@, store[n][k])]
  /\ store' # store
  /\ UNCHANGED <<written, kind, round, recovering, down, incidents>>

\* A causal repair extends the context of an entry by the clock of a peer, if
\* that has more to say.
ExtendContext(n, p, k) ==
  /\ n # p /\ {n, p} \subseteq Up /\ store[n][k] # NoEntry
  /\ incidents < MaxIncidents
  /\ incidents' = incidents + 1
  /\ store' = [store EXCEPT ![n][k] = MergeEntries(@, OnlyContext(Clock(p)))]
  /\ store' # store
  /\ UNCHANGED <<written, kind, round, recovering, down>>
-----------------------------------------------------------------------------
(* Rounds *)

\* _peers(): the members that a round may choose from.
PeersOf(n) == Nodes \ {n}

\* The rounds of a recovery have no limit.
Limit(recovery) == IF recovery THEN Cardinality(Keys) ELSE BatchSize

\* A round with peer p: its local digest is taken.
Round(n, p, recovery) ==
  [peer |-> p, local |-> DigestOf(store[n], Limit(recovery)),
   remote |-> [k \in Keys |-> Blank], recovery |-> recovery,
   todo |-> {}, stage |-> "digest", held |-> NoEntry]

\* run_once(): a peer is chosen.
BeginRound(n, p) ==
  /\ round[n] = NoRound /\ recovering[n] = {} /\ n \in Up /\ p \in PeersOf(n)
  /\ round' = [round EXCEPT ![n] = Round(n, p, FALSE)]
  /\ UNCHANGED <<written, kind, store, recovering, down, incidents>>

\* The process ends and starts again; its store is durable.  A node without keys
\* has nothing to compare.
Restart(n) ==
  /\ incidents < MaxIncidents
  /\ incidents' = incidents + 1
  /\ round' = [round EXCEPT ![n] = NoRound]
  /\ recovering' = [recovering EXCEPT ![n] =
                      IF \A k \in Keys : store[n][k] = NoEntry THEN {} ELSE PeersOf(n)]
  /\ down' = down \ {n}
  /\ UNCHANGED <<written, kind, store>>

\* RecoveryReconciler.reconcile(): one more peer, and all the keys.  A peer with
\* which it fails is not tried again.
Recover(n, p) ==
  /\ round[n] = NoRound /\ p \in recovering[n]
  /\ recovering' = [recovering EXCEPT ![n] = @ \ {p}]
  /\ round' = [round EXCEPT ![n] = Round(n, p, TRUE)]
  /\ UNCHANGED <<written, kind, store, down, incidents>>

\* _handle_digest(): the entries of peer p after a digest, which extends the
\* context wherever the types and the versions are equal.
HandleDigest(p, digest) ==
  [k \in Keys |-> IF /\ k \in Listed(digest) /\ TypeOf(store[p][k]) = digest[k].type
                     /\ store[p][k].version = digest[k].version
                  THEN MergeEntries(store[p][k], OnlyContext(digest[k].context))
                  ELSE store[p][k]]

\* exchange_digest(): the peer answers with as many digest entries as it received,
\* at least one.  A round without keys ends.
Exchange(n) ==
  LET p == round[n].peer
      local == round[n].local
      limit == IF Listed(local) = {} THEN 1 ELSE Cardinality(Listed(local))
      entries == HandleDigest(p, local)
      remote == DigestOf(entries, limit)
      keys == First(Listed(local) \cup Listed(remote), Limit(round[n].recovery))
  IN /\ round[n] # NoRound
     /\ round[n].stage = "digest" /\ p \in Up
     /\ store' = [store EXCEPT ![p] = entries]
     /\ round' = [round EXCEPT ![n] =
                    IF keys = {} THEN NoRound
                    ELSE [@ EXCEPT !.remote = remote, !.todo = keys, !.stage = "next"]]
     /\ UNCHANGED <<written, kind, recovering, down, incidents>>

\* The round of n is at key k, with this relation between the digests.
At(n, k, stage) == round[n] # NoRound /\ round[n].stage = stage /\ k \in First(round[n].todo, 1)

Relation(n, k) == CompareDigest(round[n].local[k], round[n].remote[k])

\* Key k of the round is dealt with; the round ends with its last key.
Done(n, k) ==
  round' = [round EXCEPT ![n] =
              IF round[n].todo = {k} THEN NoRound
              ELSE [round[n] EXCEPT !.todo = @ \ {k}, !.stage = "next", !.held = NoEntry]]

\* The round goes on with key k, holding entry e.
Hold(n, stage, e) == round' = [round EXCEPT ![n].stage = stage, ![n].held = e]

SkipEqual(n, k) ==
  /\ At(n, k, "next") /\ Relation(n, k) = "equal"
  /\ Done(n, k)
  /\ UNCHANGED <<written, kind, store, recovering, down, incidents>>

\* fetch_state(): the peer answers with its entry.
FetchState(n, k) ==
  /\ At(n, k, "next") /\ Relation(n, k) \in {"remote_ahead", "concurrent"}
  /\ round[n].peer \in Up /\ Decodable(store[round[n].peer][k])
  /\ Hold(n, "merge", store[round[n].peer][k])
  /\ UNCHANGED <<written, kind, store, recovering, down, incidents>>

\* What was fetched is merged and, if the digests were concurrent, the result is
\* to be sent back.
MergeFetched(n, k) ==
  LET merged == MergeEntries(store[n][k], round[n].held)
  IN /\ At(n, k, "merge") /\ Mergeable(store[n][k], round[n].held)
     /\ store' = [store EXCEPT ![n][k] = merged]
     /\ IF Relation(n, k) = "concurrent" THEN Hold(n, "send", merged) ELSE Done(n, k)
     /\ UNCHANGED <<written, kind, recovering, down, incidents>>

\* The entry to send is read from the store.
ReadToSend(n, k) ==
  /\ At(n, k, "next") /\ Relation(n, k) = "local_ahead"
  /\ Hold(n, "send", store[n][k])
  /\ UNCHANGED <<written, kind, store, recovering, down, incidents>>

\* send_state(): the peer merges what was sent.
SendState(n, k) ==
  /\ At(n, k, "send") /\ round[n].peer \in Up
  /\ Decodable(round[n].held) /\ Mergeable(store[round[n].peer][k], round[n].held)
  /\ store' = [store EXCEPT ![round[n].peer][k] = MergeEntries(@, round[n].held)]
  /\ Done(n, k)
  /\ UNCHANGED <<written, kind, recovering, down, incidents>>

\* Equal versions: both contexts are joined, first in the local entry ...
MergeMetadata(n, k) ==
  LET proof == Merge(round[n].local[k].context, round[n].remote[k].context)
      merged == MergeEntries(store[n][k], OnlyContext(proof))
  IN /\ At(n, k, "next") /\ Relation(n, k) = "metadata_only"
     /\ store' = [store EXCEPT ![n][k] = merged]
     /\ Hold(n, "send_metadata", [merged EXCEPT !.context = proof])
     /\ UNCHANGED <<written, kind, recovering, down, incidents>>

\* ... and then, by a digest of this one key with the version that the local entry
\* has now, at the peer.
SendMetadata(n, k) ==
  LET digest == [j \in Keys |-> IF j = k THEN DigestEntry(round[n].held) ELSE Blank]
  IN /\ At(n, k, "send_metadata") /\ round[n].peer \in Up
     /\ store' = [store EXCEPT ![round[n].peer] = HandleDigest(round[n].peer, digest)]
     /\ Done(n, k)
     /\ UNCHANGED <<written, kind, recovering, down, incidents>>

\* At key k: the digests have two types, what the peer holds is not decoded here, it
\* does not merge here, or what is sent is not decoded or does not merge there.
KeyRaises(n, k) ==
  LET p == round[n].peer
  IN \/ At(n, k, "next") /\ Relation(n, k) = "raises"
     \/ /\ At(n, k, "next") /\ Relation(n, k) \in {"remote_ahead", "concurrent"}
        /\ p \in Up /\ ~Decodable(store[p][k])
     \/ At(n, k, "merge") /\ ~Mergeable(store[n][k], round[n].held)
     \/ /\ At(n, k, "send") /\ p \in Up
        /\ ~(Decodable(round[n].held) /\ Mergeable(store[p][k], round[n].held))

\* These are no errors of the connection: _loop() ends the round, and in a recovery
\* start() closes all that it has opened and raises.
RoundRaises(n, k) ==
  /\ KeyRaises(n, k)
  /\ round' = [round EXCEPT ![n] = NoRound]
  /\ IF round[n].recovery
     THEN down' = down \cup {n} /\ recovering' = [recovering EXCEPT ![n] = {}]
     ELSE UNCHANGED <<down, recovering>>
  /\ UNCHANGED <<written, kind, store, incidents>>

\* _exchange_raw(): no connection, no complete answer, or none in time.  A peer that
\* is down never answers.
ExchangeFails(n) ==
  /\ round[n] # NoRound
  /\ IF round[n].peer \in Up THEN incidents < MaxIncidents /\ incidents' = incidents + 1
     ELSE UNCHANGED incidents

\* An exchange with the peer fails and the rest of the round is skipped.
RoundFails(n) ==
  /\ ExchangeFails(n)
  /\ round' = [round EXCEPT ![n] = NoRound]
  /\ UNCHANGED <<written, kind, store, recovering, down>>
-----------------------------------------------------------------------------
\* The turns of the loop of _reconcile_digest(), in the order of the keys.
KeyStep(n, k) ==
  \/ SkipEqual(n, k)
  \/ FetchState(n, k) \/ MergeFetched(n, k)
  \/ ReadToSend(n, k) \/ SendState(n, k)
  \/ MergeMetadata(n, k) \/ SendMetadata(n, k)
  \/ RoundRaises(n, k)

\* The step that a round under way takes next.
Proceed(n) ==
  \/ \E p \in Nodes : Recover(n, p)
  \/ Exchange(n)
  \/ round[n] # NoRound /\ round[n].peer \in down /\ RoundFails(n)
  \/ \E k \in Keys : KeyStep(n, k)

Next ==
  \/ \E n, p \in Nodes : BeginRound(n, p)
  \/ \E n \in Nodes : Proceed(n) \/ RoundFails(n) \/ Restart(n)
  \/ \E n \in Nodes, k \in Keys, o \in Kinds : Write(n, k, o)
  \/ \E n, p \in Nodes, k \in Keys : Replicate(n, p, k) \/ ExtendContext(n, p, k)

Spec == Init /\ [][Next]_vars

\* _loop() starts a round again and again, choosing every peer again and again,
\* and a round proceeds unless it fails, which all exchanges do not do for ever.
Fairness ==
  \A n \in Nodes :
    /\ \A p \in PeersOf(n) : SF_vars(BeginRound(n, p))
    /\ WF_vars(Proceed(n))

FairSpec == Spec /\ Fairness
-----------------------------------------------------------------------------
(* Properties *)

EntryTypes == {"none", "counter", "set"}

Digest == [Keys -> [type: EntryTypes, version: Vector, context: Vector]]

Rounds ==
  [peer: Nodes, local: Digest, remote: Digest, recovery: BOOLEAN,
   todo: SUBSET Keys, stage: {"digest", "next", "merge", "send", "send_metadata"}, held: Entry]

\* The shape of the entries, of the rounds and of what they hold.
TypeOK ==
  /\ written \in [Nodes -> Seq(Keys)]
  /\ kind \in [Nodes -> Seq(Kinds)]
  /\ store \in [Nodes -> [Keys -> Entry]]
  /\ round \in [Nodes -> Rounds \cup {NoRound}]
  /\ recovering \in [Nodes -> SUBSET Nodes]
  /\ down \subseteq Nodes
  /\ incidents \in 0..MaxIncidents

\* A round acts on digests that may be outdated by the time it does; whatever it
\* merges, the version of an entry still tells exactly what the entry contains.
VersionsStayExact ==
  \A n \in Nodes, k \in Keys : Exact(written, k, store[n][k])

\* Rounds never get past key k: the nodes hold it with two types, or they differ and
\* nothing was ever added to the set.
Stuck(k) ==
  \/ \E n, p \in Up : ~Mergeable(store[n][k], store[p][k])
  \/ /\ \E n, p \in Up : store[n][k].version # store[p][k].version
     /\ \A n \in Up : KindsOf(store[n][k]) \subseteq {"remove"}

\* "eventual CRDT convergence for state retained by at least one replica": once
\* the mutations stop, all replicas that run come to hold the same states, of every
\* key that is not stuck and that no stuck key comes before.  A set that some node
\* holds without additions and another with them does converge, although the rounds
\* of the latter fail for ever: those of the former do not.
ReplicasConverge ==
  <>[](\A k \in Keys : (\A j \in Keys : j <= k => ~Stuck(j)) =>
         \A n, p \in Up : store[n][k].dots = store[p][k].dots)
=============================================================================
