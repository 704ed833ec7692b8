--------------------------- MODULE CausalEntries ----------------------------
(***************************************************************************)
(* The entries of storage/models.py and how storage/crdt_store.py and      *)
(* crdt_service.py combine them.                                           *)
(*                                                                         *)
(* A CRDT state is abstracted to the mutations it contains: for each actor *)
(* the counters of its dots.  Merging states is then the union.  An absent *)
(* key is the entry that contains nothing, and a token or a causal context *)
(* on its own is an entry that has nothing but a context.                  *)
(***************************************************************************)
EXTENDS VersionVectors, Sequences

CONSTANT Keys

Dots == [Actors -> SUBSET Nat]

Entry == [dots: Dots, version: Vector, context: Vector]

NoEntry == [dots |-> [a \in Actors |-> {}], version |-> Zero, context |-> Zero]

OnlyContext(v) == [NoEntry EXCEPT !.context = v]

\* Mutant: the merged entry keeps the version it had.
MergeEntriesOldVersion(e, f) ==
  [dots |-> [a \in Actors |-> e.dots[a] \cup f.dots[a]],
   version |-> e.version,
   context |-> Merge(e.context, f.context)]

\* merge_entries(), and with_context() when one side is only a context.
MergeEntries(e, f) ==
  [dots |-> [a \in Actors |-> e.dots[a] \cup f.dots[a]],
   version |-> Merge(e.version, f.version),
   context |-> Merge(e.context, f.context)]

\* Mutant: the version of the entry is not advanced.
MutatedSameVersion(e, base, actor, counter) ==
  [dots |-> [e.dots EXCEPT ![actor] = @ \cup {counter}],
   version |-> e.version,
   context |-> WithDot(Merge(e.context, base), actor, counter)]

\* next_entry: the state, version and context after one more mutation, whose dot
\* was allocated on top of the frontier base.
Mutated(e, base, actor, counter) ==
  [dots |-> [e.dots EXCEPT ![actor] = @ \cup {counter}],
   version |-> WithDot(e.version, actor, counter),
   context |-> WithDot(Merge(e.context, base), actor, counter)]

\* The mutations of key k that vector v covers, if the actors wrote to the keys
\* that written lists.
DotsUpTo(written, k, v) ==
  [a \in Actors |-> {i \in 1..Len(written[a]) : i <= v[a] /\ written[a][i] = k}]

\* The version of an entry tells exactly which mutations its state contains.
Exact(written, k, e) == e.dots = DotsUpTo(written, k, e.version)
=============================================================================
