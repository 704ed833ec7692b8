------------------------- MODULE ReplicationOutbox -------------------------
(***************************************************************************)
(* The bounded, coalescing outbox of replication/outbox.py together with   *)
(* its two kinds of users: mutation handlers, which reserve slots before   *)
(* they mutate and publish or cancel afterwards (crdt_service.mutate), and *)
(* the replication workers of replication/replicator.py, which send.       *)
(*                                                                         *)
(* Every method of the outbox runs under a lock whose critical section     *)
(* never suspends, so each method is one atomic step.  A CRDT snapshot is  *)
(* abstracted to its version: snapshots of one key are published in the    *)
(* order they were committed, because nothing suspends between the commit  *)
(* of a snapshot and its publication.  Counters have no bound in memory    *)
(* and 64 bits on the wire: from some version on, the snapshots of a key   *)
(* cannot be encoded.                                                      *)
(***************************************************************************)
EXTENDS Naturals, Sequences, FiniteSets

CONSTANTS
  Peers,          \* ids of the other replicas
  Keys,           \* CRDT keys
  ReplicaSets,    \* the other replicas of a key, as the ring may give them
  Writers,        \* concurrent mutation handlers
  Workers,        \* replication worker tasks
  Capacity,       \* CRDT_REPLICATION_QUEUE_CAPACITY
  MaxAttempts,    \* CRDT_REPLICATION_RETRY_MAX_ATTEMPTS
  MaxVersion,     \* bound: mutations of one key
  NoItem,         \* a worker that waits in next_ready()
  NoReservation   \* a handler that holds no reservation

Pairs == Peers \X Keys

Item == [pair: Pairs, generation: Nat, state: Nat, attempts: Nat]

Reservation == [key: Keys, peers: SUBSET Peers]

ASSUME OutboxAssumption ==
  /\ Capacity \in Nat \ {0}
  /\ MaxAttempts \in Nat \ {0}
  /\ MaxVersion \in Nat
  /\ ReplicaSets \subseteq SUBSET Peers
  /\ NoItem \notin Item
  /\ NoReservation \notin Reservation
  /\ IsFiniteSet(Peers) /\ IsFiniteSet(Keys) /\ IsFiniteSet(Writers)

VARIABLES
  slots,         \* the keys of the dictionary _pending
  generation,    \* _Pending.generation
  state,         \* _Pending.state: a version, 0 stands for None
  queued,        \* the pairs whose _Pending.queued is set
  inFlight,      \* the pairs whose _Pending.in_flight is set
  reservations,  \* _Pending.reservations
  ready,         \* the asyncio queue _ready
  reservation,   \* what each handler holds between reserve and publish/cancel
  version,       \* the newest committed version of each key
  encodable,     \* the newest version of each key whose counters fit 64 bits
  item,          \* what each worker is sending, or was sending when its task ended
  running,       \* the workers whose task has not ended
  stopping,      \* Replicator.stop() has been called
  published,     \* history: the newest version published for a pair
  delivered,     \* history: the newest version the peer acknowledged
  abandoned      \* history: the newest version whose sending was given up

slotVars == <<slots, generation, state, queued, inFlight, reservations, ready>>
history == <<published, delivered, abandoned>>
vars == <<slots, generation, state, queued, inFlight, reservations, ready,
          reservation, version, encodable, item, running, stopping, published, delivered,
          abandoned>>

Larger(m, n) == IF m >= n THEN m ELSE n

\* The pairs of a reservation: one per remote replica of the key.
PairsOf(r) == IF r = NoReservation THEN {} ELSE r.peers \X {r.key}

\* The orders in which the pairs of a finite set can be put on the queue.
Orders(S) ==
  {o \in [1..Cardinality(S) -> S] :
     /\ \A i, j \in 1..Cardinality(S) : o[i] = o[j] => i = j
     /\ \A p \in S : \E i \in 1..Cardinality(S) : o[i] = p}

Init ==
  /\ slots = {}
  /\ generation = [p \in Pairs |-> 0]
  /\ state = [p \in Pairs |-> 0]
  /\ queued = {}
  /\ inFlight = {}
  /\ reservations = [p \in Pairs |-> 0]
  /\ ready = <<>>
  /\ reservation = [w \in Writers |-> NoReservation]
  /\ version = [k \in Keys |-> 0]
  /\ encodable = [k \in Keys |-> 0]
  /\ item = [x \in Workers |-> NoItem]
  /\ running = Workers
  /\ stopping = FALSE
  /\ published = [p \in Pairs |-> 0]
  /\ delivered = [p \in Pairs |-> 0]
  /\ abandoned = [p \in Pairs |-> 0]
-----------------------------------------------------------------------------
(* Mutation handlers *)

\* The admission test of reserve().
\* Mutant: the new pairs are not counted.
FitsWithoutNew(newPairs) == Cardinality(slots) < Capacity \/ newPairs = {}
Fits(newPairs) == Cardinality(slots) + Cardinality(newPairs) <= Capacity

\* reserve(): all pairs get a slot, or the write is refused before it mutates
\* anything.  A new slot is a fresh _Pending(): its fields were zeroed when the
\* pair was last popped.
Reserve(w, k, R) ==
  LET pairs == R \X {k}
      newPairs == pairs \ slots
  IN /\ reservation[w] = NoReservation
     /\ version[k] < MaxVersion
     /\ Fits(newPairs)
     /\ slots' = slots \cup newPairs
     /\ reservations' = [p \in Pairs |-> IF p \in pairs THEN reservations[p] + 1
                                                        ELSE reservations[p]]
     /\ reservation' = [reservation EXCEPT ![w] = [key |-> k, peers |-> R]]
     /\ UNCHANGED <<generation, state, queued, inFlight, ready, version, encodable,
                    item, running, stopping, history>>

\* What publish() does to the fields of the pairs of a reservation.
Bumped(pairs) ==
  [p \in Pairs |-> IF p \in pairs THEN generation[p] + 1 ELSE generation[p]]

Released(pairs) ==
  [p \in Pairs |-> IF p \in pairs THEN reservations[p] - 1 ELSE reservations[p]]

\* Mutant: in_flight is not tested.
AllNotQueued(pairs) == pairs \ queued
ToQueue(pairs) == pairs \ (queued \cup inFlight)

\* The components of a counter only grow: no snapshot fits after one that did not.
StillEncodable(k) ==
  [encodable EXCEPT ![k] = IF @ = version[k] THEN @ + 1 ELSE @]

\* publish(): runs right after the commit of the mutation, under no lock of its
\* own; a pair that is being sent is not queued again, complete() will do that.
Publish(w) ==
  LET pairs == PairsOf(reservation[w])
      key == reservation[w].key
      toQueue == ToQueue(pairs)
  IN /\ reservation[w] # NoReservation
     /\ version[key] < MaxVersion
     /\ version' = [version EXCEPT ![key] = @ + 1]
     /\ encodable' \in {encodable, StillEncodable(key)}
     /\ generation' = Bumped(pairs)
     /\ state' = [p \in Pairs |-> IF p \in pairs THEN version[key] + 1 ELSE state[p]]
     /\ reservations' = Released(pairs)
     /\ queued' = queued \cup toQueue
     /\ \E order \in Orders(toQueue) : ready' = ready \o order
     /\ reservation' = [reservation EXCEPT ![w] = NoReservation]
     /\ published' = [p \in Pairs |-> IF p \in pairs THEN version[key] + 1
                                                     ELSE published[p]]
     /\ UNCHANGED <<slots, inFlight, item, running, stopping, delivered, abandoned>>

\* Mutant: cancel() never pops a slot.
ReleasableNever(p) == FALSE

\* A slot that no reservation, no snapshot and no send needs any more.
Releasable(p) ==
  reservations[p] <= 1 /\ state[p] = 0 /\ p \notin queued /\ p \notin inFlight

\* cancel(): the mutation failed before its commit.
Cancel(w) ==
  LET pairs == PairsOf(reservation[w]) \cap slots
      popped == {p \in pairs : Releasable(p)}
  IN /\ reservation[w] # NoReservation
     /\ slots' = slots \ popped
     /\ generation' = [p \in Pairs |-> IF p \in popped THEN 0 ELSE generation[p]]
     /\ reservations' = [p \in Pairs |-> IF p \in pairs /\ reservations[p] > 0
                                         THEN reservations[p] - 1
                                         ELSE reservations[p]]
     /\ reservation' = [reservation EXCEPT ![w] = NoReservation]
     /\ UNCHANGED <<state, queued, inFlight, ready, version, encodable, item,
                    running, stopping, history>>
-----------------------------------------------------------------------------
(* Replication workers *)

\* Mutant: in_flight is not set.
UnmarkedInFlight(p) == inFlight
MarkedInFlight(p) == inFlight \cup {p}

\* next_ready(): a pair that has nothing to send, or is being sent, is skipped.
NextReady(x) ==
  LET p == Head(ready)
  IN /\ x \in running /\ ~stopping
     /\ item[x] = NoItem
     /\ ready # <<>>
     /\ ready' = Tail(ready)
     /\ IF p \in slots /\ state[p] # 0 /\ p \notin inFlight
        THEN /\ queued' = queued \ {p}
             /\ inFlight' = MarkedInFlight(p)
             /\ item' = [item EXCEPT ![x] = [pair |-> p, generation |-> generation[p],
                                             state |-> state[p], attempts |-> 0]]
        ELSE UNCHANGED <<queued, inFlight, item>>
     /\ UNCHANGED <<slots, generation, state, reservations, reservation, version,
                    encodable, running, stopping, history>>

\* The tests of complete() and abandon(): nothing newer was published while the
\* snapshot was being sent, and no handler is about to publish.
\* Mutant: generations are not compared.
CurrentAlways(p, sent) == TRUE
\* Mutant: a slot that a handler has reserved is sent again.
CurrentUnlessReserved(p, sent) == generation[p] = sent /\ reservations[p] = 0
Current(p, sent) == generation[p] = sent

\* Mutant: reservations are ignored.
UnreservedAlways(p) == TRUE
Unreserved(p) == reservations[p] = 0

Requeued(p) == IF p \in queued THEN ready ELSE Append(ready, p)

\* The common body of complete() and abandon(): the slot is released only when
\* nothing newer was published while its snapshot was being sent.
Settle(p, sent) ==
  IF p \notin slots
  THEN UNCHANGED slotVars
  ELSE /\ inFlight' = inFlight \ {p}
       /\ UNCHANGED reservations
       /\ \/ /\ Current(p, sent)
             /\ Unreserved(p)
             /\ slots' = slots \ {p}
             /\ generation' = [generation EXCEPT ![p] = 0]
             /\ state' = [state EXCEPT ![p] = 0]
             /\ queued' = queued \ {p}
             /\ UNCHANGED ready
          \/ /\ Current(p, sent)
             /\ ~Unreserved(p)
             /\ state' = [state EXCEPT ![p] = 0]
             /\ queued' = queued \ {p}
             /\ UNCHANGED <<slots, generation, ready>>
          \/ /\ ~Current(p, sent)
             /\ queued' = queued \cup {p}
             /\ ready' = Requeued(p)
             /\ UNCHANGED <<slots, generation, state>>

\* Mutant: the attempts are counted from the start again.
RetrySendAnew(x) ==
  /\ x \in running /\ ~stopping
  /\ item[x] # NoItem
  /\ item' = [item EXCEPT ![x].attempts = (@ + 1) % MaxAttempts]
  /\ UNCHANGED <<slotVars, reservation, version, encodable, running, stopping, history>>

\* A retryable transport failure that is not the last attempt.
RetrySend(x) ==
  /\ x \in running /\ ~stopping
  /\ item[x] # NoItem
  /\ item[x].attempts + 1 < MaxAttempts
  /\ item' = [item EXCEPT ![x].attempts = @ + 1]
  /\ UNCHANGED <<slotVars, reservation, version, encodable, running, stopping, history>>

\* state_to_proto() stores every component of a counter in a uint64 field.
Encodable(i) == i.state <= encodable[i.pair[2]]

\* The peer acknowledged the snapshot: complete().
SendAcknowledged(x) ==
  /\ x \in running /\ ~stopping
  /\ item[x] # NoItem /\ Encodable(item[x])
  /\ Settle(item[x].pair, item[x].generation)
  /\ delivered' = [delivered EXCEPT ![item[x].pair] = Larger(@, item[x].state)]
  /\ item' = [item EXCEPT ![x] = NoItem]
  /\ UNCHANGED <<reservation, version, encodable, running, stopping, published, abandoned>>

\* The last attempt failed, or the peer answered with an error that is not
\* retried: abandon().  A peer that is not ALIVE is an attempt that fails before
\* the snapshot is encoded.
SendAbandoned(x) ==
  /\ x \in running /\ ~stopping
  /\ item[x] # NoItem
  /\ Settle(item[x].pair, item[x].generation)
  /\ abandoned' = [abandoned EXCEPT ![item[x].pair] = Larger(@, item[x].state)]
  /\ item' = [item EXCEPT ![x] = NoItem]
  /\ UNCHANGED <<reservation, version, encodable, running, stopping, published, delivered>>

\* The snapshot cannot be encoded.  The ValueError is none of the failures that
\* _worker() expects: the task ends, and the slot stays as the worker left it.
SendRaises(x) ==
  /\ x \in running /\ ~stopping
  /\ item[x] # NoItem /\ ~Encodable(item[x])
  /\ running' = running \ {x}
  /\ UNCHANGED <<slotVars, reservation, version, encodable, item, stopping, history>>

\* Replicator.stop() cancels every task; each one sees the cancellation in its
\* own turn and abandons what it was sending.
Stop ==
  /\ ~stopping
  /\ stopping' = TRUE
  /\ UNCHANGED <<slotVars, reservation, version, encodable, item, running, history>>

WorkerCancelled(x) ==
  /\ stopping /\ x \in running
  /\ running' = running \ {x}
  /\ IF item[x] = NoItem
     THEN UNCHANGED <<slotVars, item, abandoned>>
     ELSE /\ Settle(item[x].pair, item[x].generation)
          /\ abandoned' = [abandoned EXCEPT ![item[x].pair] = Larger(@, item[x].state)]
          /\ item' = [item EXCEPT ![x] = NoItem]
  /\ UNCHANGED <<reservation, version, encodable, stopping, published, delivered>>
-----------------------------------------------------------------------------
WorkerStep(x) ==
  NextReady(x) \/ RetrySend(x) \/ SendAcknowledged(x) \/ SendAbandoned(x) \/ SendRaises(x)

HandlerStep(w) == Publish(w) \/ Cancel(w)

Next ==
  \/ \E w \in Writers, k \in Keys, R \in ReplicaSets : Reserve(w, k, R)
  \/ \E w \in Writers : HandlerStep(w)
  \/ \E x \in Workers : WorkerStep(x)
  \/ Stop
  \/ \E x \in Workers : WorkerCancelled(x)

Spec == Init /\ [][Next]_vars

\* A worker whose task has not ended goes on: its attempts are bounded by its retry
\* policy and by the transport's timeout.
Fairness == \A x \in Workers : WF_vars(WorkerStep(x))

FairSpec == Spec /\ Fairness
-----------------------------------------------------------------------------
(* Properties *)

\* The shape of the fields of _Pending and of the queue; reservations is a count
\* that publish() and cancel() never take below zero.
TypeOK ==
  /\ slots \in SUBSET Pairs
  /\ generation \in [Pairs -> Nat]
  /\ state \in [Pairs -> Nat]
  /\ queued \in SUBSET Pairs
  /\ inFlight \in SUBSET Pairs
  /\ reservations \in [Pairs -> Nat]
  /\ ready \in Seq(Pairs)
  /\ reservation \in [Writers -> Reservation \cup {NoReservation}]
  /\ version \in [Keys -> Nat]
  /\ encodable \in [Keys -> Nat]
  /\ item \in [Workers -> Item \cup {NoItem}]
  /\ running \in SUBSET Workers
  /\ stopping \in BOOLEAN
  /\ published \in [Pairs -> Nat]
  /\ delivered \in [Pairs -> Nat]
  /\ abandoned \in [Pairs -> Nat]

\* The dictionary never outgrows its capacity, whatever handlers reserve,
\* publish and cancel concurrently (the admission test of reserve()).
WithinCapacity == Cardinality(slots) <= Capacity

Holders(p) == {w \in Writers : p \in PairsOf(reservation[w])}

\* Each slot counts exactly the handlers that still owe it a publish or a
\* cancel, so publish() never raises "outbox reservation no longer exists": a
\* reserved slot cannot be popped by a worker that completes an older send.
ReservationsHonoured ==
  \A p \in Pairs :
    /\ reservations[p] = Cardinality(Holders(p))
    /\ Holders(p) # {} => p \in slots

\* Coalescing loses nothing: the newest snapshot published for a pair has been
\* acknowledged or given up, or it is the one stored in the slot and the slot is
\* waiting to be sent or being sent.
NewestIsKept ==
  \A p \in Pairs :
    \/ published[p] <= Larger(delivered[p], abandoned[p])
    \/ p \in slots /\ state[p] = published[p] /\ p \in queued \cup inFlight

\* A slot nobody has reserved is queued or some worker has taken it: publish(),
\* cancel(), complete() and abandon() leave no slot behind.  The capacity is used up
\* for ever only by the slots of workers that died.
NoSlotLeak ==
  \A p \in slots : reservations[p] = 0 => p \in queued \cup inFlight

\* Two workers never send the same pair at once, also when one of them dies: in_flight
\* is set exactly for what a worker is sending and for what a worker was sending when
\* an unexpected exception ended its task, and nobody sends the latter again
\* (next_ready() and complete() against _worker()).
OneSenderPerPair ==
  /\ \A x, y \in Workers : item[x] # NoItem /\ item[y] # NoItem
                             /\ item[x].pair = item[y].pair => x = y
  /\ inFlight = {p \in Pairs : \E x \in Workers : item[x] # NoItem /\ item[x].pair = p}

\* The sequence q lists the elements of S, each exactly once.
Lists(q, S) ==
  /\ \A i, j \in 1..Len(q) : q[i] = q[j] => i = j
  /\ \A p \in Pairs : p \in S <=> \E i \in 1..Len(q) : q[i] = p

\* The asyncio queue holds each queued pair exactly once and nothing else, so
\* next_ready() never skips an element and no queued pair is forgotten.
QueueExact ==
  /\ Lists(ready, queued)
  /\ \A p \in queued : p \in slots /\ state[p] # 0 /\ p \notin inFlight

\* A worker is sending the newest snapshot of its slot or an older one, and the
\* generation tells which: complete() releases the slot only in the first case.
SentIsNotNewer ==
  \A x \in Workers : item[x] # NoItem =>
    LET p == item[x].pair
    IN /\ p \in slots
       /\ item[x].generation <= generation[p]
       /\ (item[x].generation = generation[p]) <=> (item[x].state = state[p])
       /\ item[x].state <= state[p]

\* The slot of the pair belongs to a worker whose task has ended.
Orphaned(p) ==
  \E x \in Workers \ running : item[x] # NoItem /\ item[x].pair = p

\* Once published, a snapshot is delivered or given up, unless the node stops, the
\* worker that sends its pair dies, or no worker is left: a worker that dies takes
\* its own pair with it and no other, as long as one worker survives (_worker()).
PublishedIsSettled ==
  \A p \in Pairs, v \in 1..MaxVersion :
    (published[p] = v) ~>
      (Larger(delivered[p], abandoned[p]) >= v \/ stopping \/ Orphaned(p) \/ running = {})

\* The outbox implements the abstract channel: the debt is the snapshot of a slot
\* that is queued or being sent, and a snapshot is settled by complete() or
\* abandon().  Coalescing, generations and requeueing never drop the newest
\* snapshot, never settle a snapshot twice and never go back to an older one.
Channel == INSTANCE LatestValueChannel WITH
  owed <- [p \in Pairs |-> IF p \in queued \cup inFlight THEN state[p] ELSE 0],
  settled <- [p \in Pairs |-> Larger(delivered[p], abandoned[p])]

ImplementsChannel == Channel!Spec
=============================================================================
