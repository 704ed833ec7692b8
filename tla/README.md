# A TLA+ model of the distributed CRDT store

The repository implements a cluster of asyncio nodes that replicate CRDT keys
with causal session guarantees, persist them in SQLite, route compute tasks to
the owners of a key and keep a gossip membership. This directory models these
parts, checks the models with TLC on small instances, and proves their safety
properties with TLAPS for every value of the constants.

## The system

| Part | State | Operations | What is hard about it |
|---|---|---|---|
| Replication outbox (`replication/outbox.py`, `replicator.py`) | slots per (peer, key) with generation, snapshot, flags and reservations; ready queue | reserve, publish, cancel, next_ready, complete, abandon, stop | publishing while an older snapshot is in flight; capacity; cancellation; a worker that dies |
| Causal clock (`causal/`) | frontier, lock held across a transaction | staged_allocation, staged_observe, observe, restore | a dot given out twice; a transaction that fails |
| Durable store (`storage/`, `persistence/`, `recovery/restore.py`) | entries in memory and in SQLite, locks of keys | commit_local, merge_entry, merge_metadata, restore | crash between commit and installation; lost update; lock order |
| CRDT service (`crdt_service.py`, `crdt_client.py`) | session tokens, requests under way | mutate, read, fetch, replicate, digest | a check that is stale when it is used; lost answers |
| Causal repair (`replication/causal_repair.py`) | answers of peers | ensure | partial answers; proofs that are newer than the entry |
| Anti-entropy (`replication/anti_entropy.py`, `digest.py`, `recovery/reconciliation.py`) | digests of a round | run_once, _reconcile_digest, reconcile | outdated digests; failure half-way; batches; a key that ends every round |
| CRDT types and codecs (`crdt/`, `replication/codec.py`, `persistence/codec.py`) | counters, tagged sets, registers | mutations, merges, encoding | order and repetition of merges; defaults dropped on the wire; a state that is not decoded |
| Membership and ring (`cluster/`) | member records, timers, background tasks, ring | bootstrap, merge, probe, gossip, purge, sync_ring | gossip out of order; stale probe results; a task that ends |
| Task routing (`cluster/cluster_router.py`, `peer_client.py`, `compute/`, `resilience/`) | tokens, admission and pending slots, breakers | execute, forward, retry, call, release | failover that executes twice; late results; leaked slots; connections closed by a peer |
| Coordination (`coordination/`) | lease and registration in etcd | grant, register, refresh, lose | a call that timed out and was carried out |
| Node (`node.py`, `health/`, `recovery/`) | recovery phase, readiness, resources | start, stop, serve | serving before recovery; order of shutdown |

The parts interact as follows. A mutation passes the causal check, which may
repair from peers, reserves outbox slots, takes the lock of its key and then the
lock of the clock, commits in SQLite, installs in memory and publishes to the
outbox. Workers send the snapshots; a peer merges them through the same durable
path. Anti-entropy repairs what the workers gave up. A task with a routing key is
tried at one owner of the key after the other, each behind a circuit breaker, and
executed under admission control. The node starts and stops all of this around
its recovery phases.

Asyncio decides what is atomic: a method whose critical section never suspends
is one step. The models keep the real suspension points: network exchanges, the
SQLite thread, the lock of a key and the lock of the clock, process-pool futures.

## Modules

| Module | Models | State and actions |
|---|---|---|
| `ReplicationOutbox` | outbox, handlers, workers | one action per method; `complete()` and `abandon()` share `Settle`; a snapshot is the version number of its key, and from some version on may be too large to encode, which ends the worker that sends it; `published`, `delivered`, `abandoned` are history |
| `LatestValueChannel` | the promise of the outbox | a channel per pair owes the newest offered value until it is settled |
| `VersionVectors`, `CausalEntries` | version vectors; entries | vectors as total functions; a CRDT state is the set of dots of the mutations it contains, so merging is union |
| `DurableReplica` | one node in detail | handlers, locks, transaction, crashes at any point, restore; the other nodes are an environment that may send anything built from what was written and exposed |
| `AtomicReplica` | the promise of the write path | a mutation or a merge changes the entry and the clock of a node in one step |
| `CausalCluster` | nodes and client sessions | a durable mutation or merge is one step; the causal check, each answer of a repair, and the two reads of a fetch are separate steps; `sent` is never emptied, so messages are lost, repeated and reordered |
| `AntiEntropy` | digests, rounds, reconciliation | each exchange about a key is a step; a round may fail between any two; conflicting types and sets without additions raise out of it; a restarted node compares all its keys before its rounds go on, and what raises then ends its start (`down`) |
| `CrdtTypes`, `CrdtCodec` | the four types; wire and storage formats | operators; a dictionary with a default is a total function, a message lists what differs from the default; decoding gives a set, which is empty when the message is refused |
| `CrdtReplicas` | replicas of one key with real contents | mutate, replicate, deliver, fetch, reconcile, restart; `seen` is history |
| `Membership` | table, failure detector, gossip, join, ring | an exchange that succeeds is one step, indirect probes are steps of their own; timers may expire in any iteration; a node that ends is `closing` for a while, and whoever then waits for its answer loses its background task (`loops`); the ring is `RingOf` the table |
| `CircuitBreaker` | breaker as functions | time is one flag, `cooled` |
| `TaskRouting` | requests from arrival to answer | time is one flag per request; executions with their job and the handler that awaits it; pools may break; a connection may be lost, which is retried, or closed by the peer, which ends the request |
| `CoordinationLease` | lease manager against an external etcd | a request that fails at the client may have been carried out, or be carried out later |
| `NodeLifecycle` | start, failure path, stop, connections, recovery phase | every action ends at a suspension point; the migration runs statement by statement; extends `CoordinationLease` |

`MC*` modules hold the constants and symmetry sets of the runs, `*Proofs` the
theorems. Operators marked "Mutant" are deliberately wrong variants of the
definition that follows them. No specification uses them; substituting one shows
that the corresponding property can fail.

## Runs

| Configuration | Shows | Distinct states |
|---|---|---|
| `MCReplicationOutbox` | two handlers and two workers share an outbox too small for three peers: slots, reservations, queue and senders stay consistent, the newest snapshot is kept, and settled unless its worker dies, and the outbox implements `LatestValueChannel` | 213,857 |
| `MCDurableReplica` | nothing is exposed before it is durable, acknowledged mutations survive, versions are exact, the clock is durable, dots are fresh, nothing is lost, every request ends, and the node implements `AtomicReplica` | 317,211 |
| `MCCausalCluster` | no knowledge of the future, clocks cover stores, versions tell states; three replicas and a router | 272,855 |
| `MCAntiEntropy` | versions stay exact, replicas converge in every key that no conflict blocks; all keys fit in a batch | 203,028 |
| `MCMembership` | incarnations are a node's own, records advance, the nodes that still probe find each other | 45,222 |
| `MCTaskRouting` | slots are exact, repeats need a lost exchange, probe slots are held, every request is answered | 247,404 |
| `MCNodeLifecycle` | recovery before service, quiet shutdown, lease order, registration, shutdown and registration complete | 94,669 |
| `MCCrdtReplicas` | values shown are those of the mutations received, versions tell contents, merges agree, only sets without additions are refused; all four types | 161,004 |
| `MCCausalClusterReads` | reads contain what the session has seen | violated |
| `MCAntiEntropyBatch` | replicas converge with more keys than a batch | violated |
| `MCMembershipRoot` | membership converges when the node without seeds restarts | violated |
| `MCNodeLifecycleStop` | termination completes whatever clients do | violated |

Deadlock is not checked where the system may stop: a stopped outbox, answered
requests, a node that has exhausted its starts, a cluster whose background tasks
have ended.

### Where the code and its documents disagree

1. `docs/architecture/phase4-causal-crdt.md:27` promises read-your-writes. For an absent key,
   `_ensure_causal` (`crdt_service.py:262`) accepts the clock of the node as proof. The clock may cover a
   mutation of that key that reached the node only as the context of another key.
   The new entry takes the clock as its context, and a later read of the session
   passes the check and misses its own write.
2. `docs/design/phase4-causal-crdt.md:796` promises eventual convergence. A periodic
   round always compares the first `batch_size` keys (`anti_entropy.py:101`), so a key behind them relies on the fast path.
3. `docs/design/phase3-distributed-cluster.md:868` says that a restarted node
   converges to `ALIVE` at its peers. A node without seeds contacts nobody when it
   starts (`cluster/service.py:122`); once the others have
   declared it dead, nobody contacts it either, since only members that are listed
   and not `DEAD` are probed.
4. `docs/design/phase7-production-delivery.md:134` says that termination ends within
   the grace period. `stop()` (`node.py:375`) awaits
   the server before it closes the accepted connections, and since Python 3.12 that
   waits for every client to hang up.

### What unexpected exceptions do

Several handlers catch fewer exceptions than their calls raise. The models take
each of them as the code does, and the properties say what remains true.

- A counter of 2^64 or more does not fit its protobuf field (`codec.py:118`), and
  the `ValueError` ends the outbox worker (`replicator.py:77`) without `abandon()`:
  its pair stays in flight and keeps its slot. `OneSenderPerPair` and
  `PublishedIsSettled` say that this pair, and no other, is lost, until no worker is
  left.
- Digests of different types (`digest.py:41`) and a set that nothing was added to
  (`codec.py:193`) raise out of a round of anti-entropy, so the keys behind them are
  not compared. `Stuck` in `AntiEntropy` characterises them, and `ReplicasConverge`
  promises convergence of all keys before the first one. A set that one node holds
  without additions and another with them is not stuck: the rounds of the former
  repair it. In the reconciliation of a restarted node the same exceptions end its
  start. `RefusedIsEmpty` shows that no other state is refused.
- A peer that closes the connection before it answers raises `IncompleteReadError`,
  an `EOFError` that `cluster/peer_client.py:56` does not list. It ends the failure
  detector or the gossip loop of the node for good, and a bootstrap although other
  seeds are untried. `MembershipConverges` therefore speaks of the nodes that still
  probe, and of exact rings only when all running nodes do. For a forwarded task it
  means `INTERNAL_ERROR` without retry or failover (`ConnectionClosed`).

### Bounds

Names starting with `Max` bound counters. Two handlers and two workers suffice
for every pairwise race of the outbox; the capacity is below the number of pairs
so that refusals happen. Two mutations of a node allow a dot to be repeated after
a crash. Three nodes let a repair combine two partial answers and let a helper
probe indirectly. One fault of the membership is a crash or a cut, with any number
of timers expiring meanwhile, so that nodes are suspected, declared dead and purged;
a cut ends before it has driven incarnations beyond `MaxIncarnation`. One incident
of anti-entropy is a failed round, a restart or a causal repair. Two keys let knowledge pass from one to the other and, with a
batch of one, let a key starve. With limits of one, a second request meets full
pools, an empty bucket and an open breaker. Two starts let a start follow an
interrupted one. Two mutations of each of two replicas give concurrent additions,
removals and writes; amounts of 0 and 2 with a largest wire integer of 3 reach
both the refused request and the counter that no longer fits. Larger instances
were not checked; only the theorems go beyond the bounds.

### Fairness

- Outbox: a worker that can take a step does; its attempts are bounded by the
  retry policy and the transport's timeout. No fairness is assumed of handlers,
  nor that a send succeeds.
- Durable replica: asyncio locks are first-in first-out, which justifies strong
  fairness for taking them; the SQLite thread returns or fails.
- Anti-entropy: strong fairness of starting a round with each peer (the peer is
  drawn at random), weak fairness of a round's progress; failed exchanges with
  running nodes are bounded. Rounds that raise are not failures in this sense: they
  raise again each time.
- Membership: exchanges time out, the member to probe is drawn at random (strong
  fairness of each choice), and a cut path is restored. Nothing is assumed of gossip,
  nor of the length of a cut compared with the retention of tombstones.
- Routing: time passes and the event loop of the origin runs. Nothing is assumed
  of peers, connections and workers: deadlines end every wait.
- Life cycle: the event loop resumes start, stop, handlers and lease loop, and
  etcd lets leases expire. `OneShotSpec` adds that clients close their side, as the
  repository's clients do; `FairSpec`, without it, is the one that item 4 refutes.
- Cluster and CRDT replicas: safety only, no fairness.

## Proofs

`CausalEntriesProofs` holds lemmas about operators. Each of the other seven
`*Proofs` modules defines an inductive invariant, shows that the initial state
satisfies it, treats the actions one by one for the step, and derives the
properties. The only assumptions are the `ASSUME`s of the modules, which say
that bounds are naturals, that null values are distinct from real ones, and which
sets are finite; TLC evaluates them in the runs.

### `CausalEntriesProofs`: vectors and entries

`merge()` is the join of the pointwise order and obeys the lattice laws
(`MergeIsJoin`, `MergeLaws`), `compare()` decides that order (`CompareIsOrder`),
and the wire format loses nothing (`ProtoRoundTrip`). An entry is *exact* when its
version tells which mutations of its key it contains. Merging keeps entries exact
(`MergeKeepsExact`), so do later writes elsewhere (`WritesKeepExact`), and so does a
mutation with the next counter of its actor, provided that the entry contains the
actor's earlier mutations of the key (`MutationKeepsExact`). This proviso,
`OwnComplete`, is what the next three invariants have to maintain.

### `DurableReplicaProofs`

`TypeOK`, `PersistedBeforeExposed`, `AckedSurvives`, `ExactVersions`,
`ClockIsDurable`, `FreshDot`, and the action property `NothingIsLost`, for any keys,
actors and handlers, with crashes anywhere. The invariant adds who holds which lock
(`LocksOK`), that memory and disk agree except while a handler installs
(`MirrorOK`), that durable entries are exact and contain all the node's own
mutations, which its durable clock counts (`HistoryOK`), and, per handler
(`TaskOK`), that what it has staged is exact with respect to the history there will
be after its commit. The last one is the crux: between allocation and commit the
staged entry refers to a mutation that does not exist yet.

`ReplicaIsAtomic` proves that the node implements `AtomicReplica` by its durable
entries and clock. The commit of a transaction is the step; everything before and
after it, an abort, a crash and a restart leave the abstract state as it is. For
that, `AtomicInv` adds to the invariant that the durable clock counts only
mutations that were made, and that a handler about to commit has staged exactly
what the abstract step would do now (`StagedMutation`): its locks keep the entry
and the clock as they were when it read them.

### `CausalClusterProofs`

`TypeOK`, `NoFutureKnowledge`, `ClockCoversStore` and `VersionsTellStates`, for any
nodes, keys, sessions and preference lists. The invariant says that every entry, in
a store, a message or a repair, is *grounded*: exact, and naming only mutations that
were made. It also says that a node's entries contain its own mutations and that
its clock counts them.

`NodesAreReplicas` proves that every node, seen alone, is an `AtomicReplica`: a
mutation is one at its own node and somebody else's at the others, and each
delivery or repair merges an entry that can be known. It needs that a handler
answers only with what the clock of its node has observed (`ObservedInv`), which
makes the observations of `_success()` and `_fetch_response()` stutter. Together
with `ReplicaIsAtomic` this is why a durable write may be one step of the cluster.

### `AntiEntropyProofs`

`TypeOK` and `VersionsStayExact`, for any nodes, keys and batch size,
whatever types the entries have. What a round remembers, however old, is grounded. The model keeps no clock, so the invariant
adds that some entry of a node names its last mutation, which is what makes the
reconstructed clock allocate fresh counters.

### `ReplicationOutboxProofs`

`TypeOK`, `WithinCapacity`, `ReservationsHonoured`, `NewestIsKept`, `NoSlotLeak`,
`OneSenderPerPair`, `QueueExact`, `SentIsNotNewer`, and the refinement of
`LatestValueChannel`. Beyond the properties, `IndInv` has `SlotShape` (the queued and
the in-flight flag exclude each other, and a snapshot, the newest one published and
not yet settled, is stored exactly while one of them is set), `HistoryOrdered`
(nothing is settled before it is published or published before it is committed) and
`SendShape` (what a worker sends is not settled yet, is no newer than the slot, and
is the slot's snapshot exactly if the generations agree). For the refinement,
publishing maps to offering a newer value, the end of a send to settling what was
sent, and every other action, the death of a worker included, leaves the channel
unchanged. `WithinCapacity` has an
induction of its own on top of the type invariant.

### `CrdtReplicasProofs`

`ValuesExact`, `VersionsTellContents`, `MergesAgree` and `RefusedIsEmpty`, for any nodes,
elements, amounts and bounds. `Content(type, S)` is the state that a set `S` of mutations
stands for, without any order. For each of the four types, mutating adds a
mutation to the set (`ContentsMutate`), merging is the union (`ContentsMerge`), and
the value shown is what the mutations mean (`ContentsMean`). Counters are sums over
sets, whose laws are proved by least counterexample. Merging the counters of two
replicas takes maxima, which is the sum of the union only because one replica has
seen all that the other has seen of a node (`Compatible`). Wire and storage
documents decode to the entry they were made from, unless they are refused, and that
happens to sets without additions only. The invariant says that every
entry, in a store or in a message, is the content of the mutations its node has
seen (`EntryOf`), and that its version tells which ones these are (`Covers`). This
justifies that the other modules take a CRDT state for the set of its mutations.

### `ControlPlaneProofs`

The first part is about `Membership`: `TypeOK`,
`IncarnationsAreOwn` and the action property `RecordsAdvance`, for any nodes, seeds,
faults and helpers. The invariant adds that a node holds itself alive (`TablesOK`),
that what it joins with is not newer than itself (`StartShape`), and that what a
failure detector has under way names no incarnation that its owner has not reached
(`ProbeReached`).

The second part is about `NodeLifecycle`, whose `LifecycleSpec` shares neither
variables nor constants with `Membership`: `LifecycleTypeOK`, `ServesRecovered`,
`ClosedIsQuiet`, `RenewsWhileBound` and `HealthyIsRegistered`, for any connections,
starts and failed requests.
The invariant `LifeIndInv` adds what is held in each phase and in which order it is
released (`HeldOK`), how far the database is (`DbOK`), when readiness is set
(`ServingOK`), and that the manager's lease is the last one granted (`LeaseOK`).

### `TaskRoutingProofs`

`TypeOK`, `SlotsExact`, `RepeatsNeedLoss` and `ProbeSlotsHeld`, for any nodes,
requests and limits. The three properties are nearly inductive; `RequestOK` adds
where a request stands among its candidates and attempts, and `ExecOK` that
executions are told apart by their request and number and that a handler awaits at
most one local execution. The counting lemmas (`SwapCount`, `ChangeCounts`,
`KeyCount`) say how the cardinalities behind the counters move when an execution is
replaced, added or hit by a broken pool. `OwnersInOrder` proves `candidates()`
against its reference definition for every ring: exactly the owners, each once, in
the order of their first points. Its induction is written as a least
counterexample (`LeastNatural`), since the library's induction rules take an
operator as a parameter, which the backends cannot instantiate.

### Only model-checked

- Liveness (`PublishedIsSettled`, `RequestsAreAnswered`, `ReplicasConverge`,
  `MembershipConverges`, `RequestsAnswered`, `StopCompletes`,
  `RegistrationReturns`): fairness and `ENABLED` are outside the prover.
- That `NodesAreAtomic` and `ImplementsAtomic` compose: each is a theorem about its
  own module. `AtomicReplica` describes what is durable at a node. That requests
  are answered from memory, which lags behind the disk between commit and
  installation, is covered by the properties of `DurableReplica`, not by the
  refinement.

## Not modelled

- Framing, TLS, configuration, metrics, tracing, benchmarks: input and output
  without effect on the protocols. The chaos controller drives the cluster from
  outside.
- The hash of the ring, which only orders its points: `Walk` is a constant.
- Integrity check, backups and the authority flag of the repository; the
  configuration without persistence.
- What tasks compute, and cancellation of a call in the breaker, which only
  shutdown does.
- A ring that changes while the CRDT service routes: `CausalCluster` fixes it. In
  `Membership` the ring is derived from the table: `sync_ring()` follows every change
  and waits only for the short lock of the table.
- A merge that `anti_entropy.stop()` cancels while SQLite's thread runs its
  transaction (`persistence/executor.py:46`): it gives up the locks of the key and of
  the clock, and the thread may still commit. In `DurableReplica` locks are held
  until the transaction has ended.
- The answers of the health endpoints. `stop()` never takes readiness back, although
  `docs/design/phase7-production-delivery.md:134` asks for that first; no step of the
  node depends on it.
- Recognition of a repeated mutation: a client that retries after a lost answer
  mutates twice, since mutations carry no identity.
- An etcd that carries out an abandoned registration after a later one is modelled,
  but `HealthyIsRegistered` and `RegistrationReturns` except it (`overtaken`): the
  code does not notice that its key hangs on a lease that nobody renews.
- Real time: timers, deadlines and back-off are nondeterministic events.
