------------------------ MODULE LatestValueChannel -------------------------
(***************************************************************************)
(* What the replication outbox promises to the mutation path, with no      *)
(* slots, queues, workers or generations: for each (peer, key) pair it     *)
(* owes the peer at most one snapshot, the newest one offered, and it is   *)
(* released from that debt only by settling that very snapshot.            *)
(***************************************************************************)
EXTENDS Naturals

CONSTANTS Pairs, MaxVersion

VARIABLES
  owed,     \* the snapshot the peer is still owed, 0 if none
  settled   \* the newest snapshot that was acknowledged or given up

vars == <<owed, settled>>

Init ==
  /\ owed = [p \in Pairs |-> 0]
  /\ settled = [p \in Pairs |-> 0]

\* A newer snapshot replaces the one that is owed.
Offer(S, v) ==
  /\ \A p \in S : owed[p] < v /\ settled[p] < v
  /\ owed' = [p \in Pairs |-> IF p \in S THEN v ELSE owed[p]]
  /\ UNCHANGED settled

\* Snapshots are settled in increasing order, each at most once, and settling an
\* older snapshot does not cancel the debt of a newer one.
Settle(p, v) ==
  /\ settled[p] < v /\ v <= owed[p]
  /\ settled' = [settled EXCEPT ![p] = v]
  /\ owed' = [owed EXCEPT ![p] = IF @ = v THEN 0 ELSE @]

Next ==
  \/ \E S \in SUBSET Pairs, v \in 1..MaxVersion : Offer(S, v)
  \/ \E p \in Pairs, v \in 1..MaxVersion : Settle(p, v)

Spec == Init /\ [][Next]_vars
=============================================================================
