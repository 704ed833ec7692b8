--------------------------- MODULE AtomicReplica ----------------------------
(***************************************************************************)
(* What the durable write path of a node promises to the protocols above   *)
(* it, with no handlers, locks, memory, transactions or crashes: a         *)
(* mutation and a merge take effect at once, on the entry of the key and   *)
(* on the clock together, and nothing else changes either.  CausalCluster  *)
(* takes these steps at each of its nodes.                                 *)
(***************************************************************************)
EXTENDS CausalEntries

CONSTANT Self   \* the causal actor of the node

VARIABLES
  written,  \* history: the keys of the mutations of each actor, in order
  clock,    \* the causal clock of the node
  store     \* the entry of each key

vars == <<written, clock, store>>

Init ==
  /\ written = [a \in Actors |-> <<>>]
  /\ clock = Zero
  /\ store = [k \in Keys |-> NoEntry]

\* What can be known of the mutations there are: nobody has heard of one that has
\* not happened.
Known ==
  {v \in [Actors -> UNION {0..Len(written[a]) : a \in Actors}] :
     \A a \in Actors : v[a] <= Len(written[a])}

\* The entry of key k that the mutations up to version v give rise to.
KnownEntry(k, v, c) == [dots |-> DotsUpTo(written, k, v), version |-> v, context |-> c]

\* The dot of a mutation is allocated on top of the clock, of what the entry has
\* observed and of the token of the request.
Mutate(k) ==
  /\ written' = [written EXCEPT ![Self] = Append(@, k)]
  /\ \E token \in Known :
       LET base == Merge(clock, Merge(store[k].context, token))
           counter == base[Self] + 1
       IN /\ store' = [store EXCEPT ![k] = Mutated(@, base, Self, counter)]
          /\ clock' = WithDot(base, Self, counter)

\* Something is merged that is not known here yet, and the clock observes it.
MergeIn(k) ==
  /\ UNCHANGED written
  /\ <<clock, store>>' # <<clock, store>>
  /\ \E v, c \in Known :
       LET e == KnownEntry(k, v, c)
       IN /\ store' = [store EXCEPT ![k] = MergeEntries(@, e)]
          /\ clock' = Merge(clock, MergeEntries(store[k], e).context)

OtherWrites(o, k) ==
  /\ written' = [written EXCEPT ![o] = Append(@, k)]
  /\ UNCHANGED <<clock, store>>

Next ==
  \E k \in Keys :
    Mutate(k) \/ MergeIn(k) \/ \E o \in Actors \ {Self} : OtherWrites(o, k)

Spec == Init /\ [][Next]_vars
=============================================================================
