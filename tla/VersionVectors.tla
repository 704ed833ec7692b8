--------------------------- MODULE VersionVectors ---------------------------
(***************************************************************************)
(* The version vectors of causal/version_vector.py.  A vector maps every   *)
(* actor to a counter; the actors the code leaves out of its dictionary    *)
(* have counter 0, which is what get() returns for them.                   *)
(***************************************************************************)
EXTENDS Naturals

CONSTANT Actors

Vector == [Actors -> Nat]

Zero == [a \in Actors |-> 0]

MaxOf(m, n) == IF m >= n THEN m ELSE n

\* merge(): the pointwise maximum.
Merge(v, w) == [a \in Actors |-> MaxOf(v[a], w[a])]

\* with_dot(): the dot's counter never lowers an entry.
WithDot(v, actor, counter) == [v EXCEPT ![actor] = MaxOf(@, counter)]

Less(v, w) == \E a \in Actors : v[a] < w[a]

\* compare(): the four relations of two vectors.
Compare(v, w) ==
  CASE Less(v, w) /\ Less(w, v)   -> "concurrent"
    [] Less(v, w) /\ ~Less(w, v)  -> "before"
    [] ~Less(v, w) /\ Less(w, v)  -> "after"
    [] ~Less(v, w) /\ ~Less(w, v) -> "equal"

Dominates(v, w) == Compare(v, w) \in {"after", "equal"}

\* version_to_proto(), version_from_proto(): the message lists the counters that
\* are not 0.
VersionToProto(v) == {[actor |-> a, counter |-> v[a]] : a \in {b \in Actors : v[b] > 0}}
VersionFromProto(p) ==
  [a \in Actors |-> IF \E i \in p : i.actor = a THEN (CHOOSE i \in p : i.actor = a).counter ELSE 0]
=============================================================================
