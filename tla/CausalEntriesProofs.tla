------------------------ MODULE CausalEntriesProofs -------------------------
(***************************************************************************)
(* Facts about version vectors and entries that hold for all actors and    *)
(* keys: vectors form a lattice, and the version of an entry goes on       *)
(* telling which mutations its state contains when entries are merged or   *)
(* mutated and when others write.                                          *)
(***************************************************************************)
EXTENDS CausalEntries, TLAPS

Leq(v, w) == \A a \in Actors : v[a] <= w[a]

\* e has nothing that f lacks.
EntryLeq(e, f) ==
  /\ Leq(e.version, f.version) /\ Leq(e.context, f.context)
  /\ \A a \in Actors : e.dots[a] \subseteq f.dots[a]

\* v refers to nothing beyond what the actors wrote to the keys that w lists.
Within(w, v) == \A a \in Actors : v[a] <= Len(w[a])

\* w2 lists all that w lists, in the same places.
Extends(w, w2) ==
  \A a \in Actors : /\ Len(w[a]) <= Len(w2[a])
                    /\ \A i \in 1..Len(w[a]) : w2[a][i] = w[a][i]

Histories == [Actors -> Seq(Keys)]
-----------------------------------------------------------------------------
(* Vectors *)

\* merge() of version_vector.py is the least upper bound of two vectors.
THEOREM MergeIsJoin ==
  ASSUME NEW v \in Vector, NEW w \in Vector
  PROVE  /\ Merge(v, w) \in Vector
         /\ Leq(v, Merge(v, w)) /\ Leq(w, Merge(v, w))
         /\ \A u \in Vector : Leq(v, u) /\ Leq(w, u) => Leq(Merge(v, w), u)
BY DEF Vector, Merge, MaxOf, Leq

\* It is commutative, associative and idempotent, so the order in which contexts
\* and versions arrive, and how often, makes no difference.
THEOREM MergeLaws ==
  ASSUME NEW u \in Vector, NEW v \in Vector, NEW w \in Vector
  PROVE  /\ Merge(v, w) = Merge(w, v)
         /\ Merge(u, Merge(v, w)) = Merge(Merge(u, v), w)
         /\ Merge(v, v) = v
<1>1. Merge(v, w) = Merge(w, v)
  BY DEF Vector, Merge, MaxOf
<1>2. Merge(v, v) = v
  BY Zenon DEF Vector, Merge, MaxOf
<1>3. ASSUME NEW a \in Actors
      PROVE  Merge(u, Merge(v, w))[a] = Merge(Merge(u, v), w)[a]
  BY DEF Vector, Merge, MaxOf
<1>4. Merge(u, Merge(v, w)) = Merge(Merge(u, v), w)
  BY <1>3, Zenon DEF Merge
<1> QED BY <1>1, <1>2, <1>4, Zenon

\* compare() decides the order: "equal" means equality, and dominates() means that
\* every counter is at least as large.
THEOREM CompareIsOrder ==
  ASSUME NEW v \in Vector, NEW w \in Vector
  PROVE  /\ Compare(v, w) = "equal" <=> v = w
         /\ Dominates(v, w) <=> Leq(w, v)
<1>1. Less(v, w) \in BOOLEAN /\ Less(w, v) \in BOOLEAN
  BY Zenon DEF Less
<1>2. ~Less(v, w) <=> Leq(w, v)
  BY DEF Less, Leq, Vector
<1>3. ~Less(w, v) <=> Leq(v, w)
  BY DEF Less, Leq, Vector
<1>4. Leq(v, w) /\ Leq(w, v) <=> v = w
  BY DEF Leq, Vector
<1>5. Compare(v, w) = "equal" <=> ~Less(v, w) /\ ~Less(w, v)
  BY <1>1, Zenon DEF Compare
<1>6. Dominates(v, w) <=> ~Less(v, w)
  BY <1>1, Zenon DEF Dominates, Compare
<1> QED BY <1>2, <1>3, <1>4, <1>5, <1>6, Zenon

\* The list of positive counters that version_to_proto() sends is read back by
\* version_from_proto() as the same vector.
THEOREM ProtoRoundTrip ==
  ASSUME NEW v \in Vector
  PROVE  VersionFromProto(VersionToProto(v)) = v
<1> DEFINE p == VersionToProto(v)
<1>1. ASSUME NEW a \in Actors PROVE VersionFromProto(p)[a] = v[a]
  <2>1. \A i \in p : i.actor = a => i.counter = v[a]
    BY DEF VersionToProto
  <2>2. CASE v[a] > 0
    <3>1. [actor |-> a, counter |-> v[a]] \in p
      BY <2>2, Zenon DEF VersionToProto
    <3>2. \E i \in p : i.actor = a
      BY <3>1, Zenon
    <3> HIDE DEF p
    <3> QED BY <2>1, <3>2, Zenon DEF VersionFromProto
  <2>3. CASE ~(v[a] > 0)
    <3>1. ~\E i \in p : i.actor = a
      BY <2>3 DEF VersionToProto
    <3>2. v[a] = 0
      BY <2>3 DEF Vector
    <3> HIDE DEF p
    <3> QED BY <3>1, <3>2, Zenon DEF VersionFromProto
  <2> QED BY <2>2, <2>3, Zenon
<1>2. v = [a \in Actors |-> v[a]]
  BY Zenon DEF Vector
<1> QED BY <1>1, <1>2, Zenon DEF VersionFromProto

LEMMA WithDotResult ==
  ASSUME NEW v \in Vector, NEW actor \in Actors, NEW counter \in Nat
  PROVE  /\ WithDot(v, actor, counter) \in Vector
         /\ Leq(v, WithDot(v, actor, counter))
         /\ WithDot(v, actor, counter)[actor] = MaxOf(v[actor], counter)
         /\ \A a \in Actors \ {actor} : WithDot(v, actor, counter)[a] = v[a]
BY DEF WithDot, Vector, MaxOf, Leq

LEMMA LeqOrder ==
  ASSUME NEW u \in Vector, NEW v \in Vector, NEW w \in Vector
  PROVE  /\ Leq(v, v)
         /\ Leq(u, v) /\ Leq(v, w) => Leq(u, w)
BY DEF Leq, Vector
-----------------------------------------------------------------------------
(* Entries *)

LEMMA EntryParts ==
  ASSUME NEW e \in Entry
  PROVE  e.dots \in Dots /\ e.version \in Vector /\ e.context \in Vector
BY Zenon DEF Entry

LEMMA NoEntryIsEntry ==
  /\ Zero \in Vector /\ NoEntry \in Entry
  /\ \A v \in Vector : /\ OnlyContext(v) \in Entry /\ Leq(Zero, v)
                       /\ OnlyContext(v).version = Zero /\ OnlyContext(v).context = v
                       /\ OnlyContext(v).dots = NoEntry.dots
<1>1. Zero \in Vector
  BY Zenon DEF Zero, Vector
<1>2. NoEntry \in Entry
  BY <1>1, Zenon DEF NoEntry, Entry, Dots
<1>3. ASSUME NEW v \in Vector
      PROVE  /\ OnlyContext(v) \in Entry /\ Leq(Zero, v)
             /\ OnlyContext(v).version = Zero /\ OnlyContext(v).context = v
             /\ OnlyContext(v).dots = NoEntry.dots
  <2>1. Leq(Zero, v)
    BY DEF Zero, Vector, Leq
  <2> QED BY <1>1, <1>2, <2>1, Zenon DEF OnlyContext, NoEntry, Entry
<1> QED BY <1>1, <1>2, <1>3, Zenon

LEMMA EntryLeqTransitive ==
  ASSUME NEW e \in Entry, NEW f \in Entry, NEW g \in Entry, EntryLeq(e, f), EntryLeq(f, g)
  PROVE  EntryLeq(e, g)
<1>1. /\ e.version \in Vector /\ f.version \in Vector /\ g.version \in Vector
      /\ e.context \in Vector /\ f.context \in Vector /\ g.context \in Vector
  BY Zenon DEF Entry
<1>2. Leq(e.version, g.version) /\ Leq(e.context, g.context)
  BY <1>1, LeqOrder, Zenon DEF EntryLeq
<1> QED BY <1>2, Zenon DEF EntryLeq

LEMMA MergeEntriesResult ==
  ASSUME NEW e \in Entry, NEW f \in Entry
  PROVE  /\ MergeEntries(e, f) \in Entry
         /\ EntryLeq(e, MergeEntries(e, f)) /\ EntryLeq(f, MergeEntries(e, f))
         /\ MergeEntries(e, f).version = Merge(e.version, f.version)
         /\ MergeEntries(e, f).context = Merge(e.context, f.context)
<1>1. e.dots \in Dots /\ f.dots \in Dots /\ e.version \in Vector /\ f.version \in Vector
      /\ e.context \in Vector /\ f.context \in Vector
  BY Zenon DEF Entry
<1> DEFINE d == [a \in Actors |-> e.dots[a] \cup f.dots[a]]
<1>2. d \in Dots /\ \A a \in Actors : e.dots[a] \subseteq d[a] /\ f.dots[a] \subseteq d[a]
  BY <1>1, Zenon DEF Dots
<1>3. MergeEntries(e, f) = [dots |-> d, version |-> Merge(e.version, f.version),
                            context |-> Merge(e.context, f.context)]
  BY Zenon DEF MergeEntries
<1> HIDE DEF d
<1>4. Merge(e.version, f.version) \in Vector /\ Merge(e.context, f.context) \in Vector
  BY <1>1, MergeIsJoin, Zenon
<1> QED BY <1>1, <1>2, <1>3, <1>4, MergeIsJoin DEF Entry, EntryLeq

\* Merging two exact entries of a key gives an exact one: merge_entries() may take
\* the larger counters because the states they stand for are joined as well.
THEOREM MergeKeepsExact ==
  ASSUME NEW w \in Histories, NEW k \in Keys, NEW e \in Entry, NEW f \in Entry,
         Exact(w, k, e), Exact(w, k, f)
  PROVE  Exact(w, k, MergeEntries(e, f))
<1> DEFINE m == Merge(e.version, f.version)
<1>1. e.version \in Vector /\ f.version \in Vector
  BY Zenon DEF Entry
<1>2. ASSUME NEW a \in Actors
      PROVE  DotsUpTo(w, k, m)[a] = e.dots[a] \cup f.dots[a]
  <2>1. m[a] = MaxOf(e.version[a], f.version[a])
    BY Zenon DEF Merge
  <2>2. e.version[a] \in Nat /\ f.version[a] \in Nat
    BY <1>1, Zenon DEF Vector
  <2>3. Len(w[a]) \in Nat
    BY DEF Histories
  <2>4. e.dots[a] = {i \in 1..Len(w[a]) : i <= e.version[a] /\ w[a][i] = k}
    BY Zenon DEF Exact, DotsUpTo
  <2>5. f.dots[a] = {i \in 1..Len(w[a]) : i <= f.version[a] /\ w[a][i] = k}
    BY Zenon DEF Exact, DotsUpTo
  <2>6. DotsUpTo(w, k, m)[a] = {i \in 1..Len(w[a]) : i <= m[a] /\ w[a][i] = k}
    BY Zenon DEF DotsUpTo
  <2> HIDE DEF m
  <2> QED BY <2>1, <2>2, <2>3, <2>4, <2>5, <2>6 DEF MaxOf
<1>3. DotsUpTo(w, k, m) = [a \in Actors |-> DotsUpTo(w, k, m)[a]]
  BY Zenon DEF DotsUpTo
<1> QED BY <1>2, <1>3, Zenon DEF Exact, MergeEntries

\* What others write later does not make an entry inexact, since its version does
\* not reach that far.
THEOREM WritesKeepExact ==
  ASSUME NEW w \in Histories, NEW w2 \in Histories, Extends(w, w2),
         NEW k \in Keys, NEW e \in Entry, Exact(w, k, e), Within(w, e.version)
  PROVE  Exact(w2, k, e) /\ Within(w2, e.version)
<1>1. e.version \in Vector
  BY Zenon DEF Entry
<1>2. \A a \in Actors : Len(w[a]) \in Nat /\ Len(w2[a]) \in Nat /\ e.version[a] \in Nat
  BY <1>1 DEF Histories, Vector
<1>3. ASSUME NEW a \in Actors PROVE DotsUpTo(w2, k, e.version)[a] = DotsUpTo(w, k, e.version)[a]
  <2>1. DotsUpTo(w, k, e.version)[a] = {i \in 1..Len(w[a]) : i <= e.version[a] /\ w[a][i] = k}
    BY Zenon DEF DotsUpTo
  <2>2. DotsUpTo(w2, k, e.version)[a] = {i \in 1..Len(w2[a]) : i <= e.version[a] /\ w2[a][i] = k}
    BY Zenon DEF DotsUpTo
  <2>3. e.version[a] <= Len(w[a]) /\ Len(w[a]) <= Len(w2[a])
        /\ \A i \in 1..Len(w[a]) : w2[a][i] = w[a][i]
    BY Zenon DEF Within, Extends
  <2> QED BY <1>2, <2>1, <2>2, <2>3
<1>4. DotsUpTo(w2, k, e.version) = DotsUpTo(w, k, e.version)
  BY <1>3, Zenon DEF DotsUpTo
<1>5. ASSUME NEW a \in Actors PROVE e.version[a] <= Len(w2[a])
  <2>1. e.version[a] <= Len(w[a]) /\ Len(w[a]) <= Len(w2[a])
    BY Zenon DEF Within, Extends
  <2> QED BY <1>2, <2>1
<1> QED BY <1>4, <1>5, Zenon DEF Exact, Within

\* w2 lists one more mutation of actor, of key k.
Appended(w, w2, actor, k) ==
  /\ Len(w2[actor]) = Len(w[actor]) + 1 /\ w2[actor][Len(w[actor]) + 1] = k
  /\ \A a \in Actors \ {actor} : w2[a] = w[a]
  /\ \A i \in 1..Len(w[actor]) : w2[actor][i] = w[actor][i]

LEMMA AppendExtends ==
  ASSUME NEW w \in Histories, NEW actor \in Actors, NEW k \in Keys
  PROVE  /\ [w EXCEPT ![actor] = Append(@, k)] \in Histories
         /\ Appended(w, [w EXCEPT ![actor] = Append(@, k)], actor, k)
<1> DEFINE w2 == [w EXCEPT ![actor] = Append(@, k)]
<1>1. w[actor] \in Seq(Keys) /\ \A b \in Actors : w[b] \in Seq(Keys)
  BY Zenon DEF Histories
<1>2. w2[actor] = Append(w[actor], k) /\ \A b \in Actors \ {actor} : w2[b] = w[b]
  BY Zenon DEF Histories
<1>3. /\ Append(w[actor], k) \in Seq(Keys) /\ Len(Append(w[actor], k)) = Len(w[actor]) + 1
      /\ Append(w[actor], k)[Len(w[actor]) + 1] = k
      /\ \A i \in 1..Len(w[actor]) : Append(w[actor], k)[i] = w[actor][i]
  BY <1>1
<1>4. w2 \in Histories
  BY <1>1, <1>2, <1>3, Zenon DEF Histories
<1> HIDE DEF w2
<1>5. Appended(w, w2, actor, k)
  BY <1>2, <1>3, Zenon DEF Appended
<1> QED BY <1>4, <1>5, Zenon DEF w2

LEMMA AppendedExtends ==
  ASSUME NEW w \in Histories, NEW w2 \in Histories, NEW actor \in Actors, NEW k \in Keys,
         Appended(w, w2, actor, k)
  PROVE  Extends(w, w2)
<1>1. \A a \in Actors : Len(w[a]) \in Nat /\ Len(w2[a]) \in Nat
  BY DEF Histories
<1>2. ASSUME NEW a \in Actors
      PROVE  Len(w[a]) <= Len(w2[a]) /\ \A i \in 1..Len(w[a]) : w2[a][i] = w[a][i]
  <2>1. CASE a = actor
    BY <1>1, <2>1 DEF Appended
  <2>2. CASE a # actor
    BY <1>1, <2>2 DEF Appended
  <2> QED BY <2>1, <2>2, Zenon
<1> QED BY <1>2, Zenon DEF Extends

LEMMA MutatedResult ==
  ASSUME NEW e \in Entry, NEW base \in Vector, NEW actor \in Actors, NEW counter \in Nat,
         NEW f, f = Mutated(e, base, actor, counter)
  PROVE  /\ f \in Entry /\ EntryLeq(e, f)
         /\ f.context = WithDot(Merge(e.context, base), actor, counter)
         /\ f.version[actor] = MaxOf(e.version[actor], counter)
         /\ f.dots[actor] = e.dots[actor] \cup {counter}
         /\ \A a \in Actors \ {actor} : f.version[a] = e.version[a] /\ f.dots[a] = e.dots[a]
<1>1. e.dots \in Dots /\ e.version \in Vector /\ e.context \in Vector
  BY Zenon DEF Entry
<1> DEFINE d == [e.dots EXCEPT ![actor] = @ \cup {counter}]
           v == WithDot(e.version, actor, counter)
           m == Merge(e.context, base)
           c == WithDot(m, actor, counter)
<1>2. f = [dots |-> d, version |-> v, context |-> c]
  BY Zenon DEF Mutated
<1>3. /\ d \in Dots /\ d[actor] = e.dots[actor] \cup {counter}
      /\ \A a \in Actors \ {actor} : d[a] = e.dots[a]
      /\ \A a \in Actors : e.dots[a] \subseteq d[a]
  BY <1>1, Zenon DEF Dots
<1>4. v \in Vector /\ Leq(e.version, v) /\ v[actor] = MaxOf(e.version[actor], counter)
      /\ \A a \in Actors \ {actor} : v[a] = e.version[a]
  BY <1>1, WithDotResult, Zenon
<1>5. m \in Vector /\ Leq(e.context, m)
  BY <1>1, MergeIsJoin, Zenon
<1>6. c \in Vector /\ Leq(e.context, c)
  <2> HIDE DEF m
  <2>1. c \in Vector /\ Leq(m, c)
    BY <1>5, WithDotResult, Zenon
  <2> HIDE DEF c
  <2> QED BY <1>1, <1>5, <2>1, LeqOrder, Zenon
<1> HIDE DEF d, v, c
<1>7. f.version = v /\ f.dots = d /\ f.context = c
  BY <1>2
<1>8. f \in Entry /\ EntryLeq(e, f)
  BY <1>2, <1>3, <1>4, <1>6 DEF Entry, EntryLeq
<1> QED BY <1>3, <1>4, <1>7, <1>8, Zenon DEF c

\* The entry of key k contains all mutations of k by actor.
OwnComplete(w, k, e, actor) ==
  \A i \in 1..Len(w[actor]) : w[actor][i] = k => i <= e.version[actor]

\* A mutation takes the next counter of its actor.  The entry stays exact and
\* complete if it contained the actor's earlier mutations of the key.
THEOREM MutationKeepsExact ==
  ASSUME NEW w \in Histories, NEW w2 \in Histories, NEW k \in Keys, NEW e \in Entry,
         NEW base \in Vector, NEW actor \in Actors, NEW counter \in Nat, counter = Len(w[actor]) + 1,
         Exact(w, k, e), Within(w, e.version), OwnComplete(w, k, e, actor),
         Appended(w, w2, actor, k), NEW f, f = Mutated(e, base, actor, counter)
  PROVE  /\ Exact(w2, k, f) /\ Within(w2, f.version) /\ OwnComplete(w2, k, f, actor)
         /\ f.version[actor] = counter /\ counter \in f.dots[actor]
<1>1. e.dots \in Dots /\ e.version \in Vector
  BY Zenon DEF Entry
<1>2. /\ \A a \in Actors : Len(w[a]) \in Nat /\ Len(w2[a]) \in Nat /\ e.version[a] \in Nat
      /\ counter \in Nat
  BY <1>1 DEF Histories, Vector
<1>3. /\ f \in Entry
      /\ f.version[actor] = MaxOf(e.version[actor], counter)
      /\ f.dots[actor] = e.dots[actor] \cup {counter}
      /\ \A a \in Actors \ {actor} : f.version[a] = e.version[a] /\ f.dots[a] = e.dots[a]
  BY MutatedResult
<1>4. f.version[actor] = counter /\ counter = Len(w2[actor])
  BY <1>2, <1>3 DEF MaxOf, Within, Appended
<1>5. ASSUME NEW a \in Actors PROVE f.version[a] <= Len(w2[a])
  <2>1. CASE a = actor
    BY <1>2, <1>4, <2>1
  <2>2. CASE a # actor
    <3>1. f.version[a] = e.version[a] /\ w2[a] = w[a] /\ e.version[a] <= Len(w[a])
      BY <1>3, <2>2, Zenon DEF Within, Appended
    <3> QED BY <3>1, Zenon
  <2> QED BY <2>1, <2>2, Zenon
<1>6. ASSUME NEW a \in Actors PROVE f.dots[a] = DotsUpTo(w2, k, f.version)[a]
  <2>1. e.dots[a] = {i \in 1..Len(w[a]) : i <= e.version[a] /\ w[a][i] = k}
    BY Zenon DEF Exact, DotsUpTo
  <2>2. DotsUpTo(w2, k, f.version)[a] = {i \in 1..Len(w2[a]) : i <= f.version[a] /\ w2[a][i] = k}
    BY Zenon DEF DotsUpTo
  <2>3. CASE a = actor
    <3>1. e.dots[a] = {i \in 1..Len(w[a]) : w[a][i] = k}
      BY <2>1, <2>3, Zenon DEF OwnComplete
    <3>2. \A i : i \in 1..Len(w2[a]) <=> (i \in 1..Len(w[a]) \/ i = counter)
      BY <1>2, <1>4, <2>3
    <3>3. \A i \in 1..Len(w2[a]) : i <= f.version[a]
      BY <1>2, <1>4, <2>3
    <3>4. /\ w2[a][counter] = k /\ \A i \in 1..Len(w[a]) : w2[a][i] = w[a][i]
          /\ f.dots[a] = e.dots[a] \cup {counter}
      BY <1>3, <2>3, Zenon DEF Appended
    <3>5. DotsUpTo(w2, k, f.version)[a] = {i \in 1..Len(w2[a]) : w2[a][i] = k}
      BY <2>2, <3>3, Zenon
    <3>6. ASSUME NEW i PROVE i \in f.dots[a] <=> i \in DotsUpTo(w2, k, f.version)[a]
      BY <3>1, <3>2, <3>4, <3>5, Zenon
    <3> QED BY <3>6, Zenon
  <2>4. CASE a # actor
    <3>1. w2[a] = w[a] /\ f.version[a] = e.version[a] /\ f.dots[a] = e.dots[a]
      BY <1>3, <2>4, Zenon DEF Appended
    <3> QED BY <2>1, <2>2, <3>1, Zenon
  <2> QED BY <2>3, <2>4, Zenon
<1>7. f.dots = DotsUpTo(w2, k, f.version)
  BY <1>3, <1>6, Zenon DEF DotsUpTo, Dots, Entry
<1>8. OwnComplete(w2, k, f, actor)
  BY <1>2, <1>4 DEF OwnComplete
<1> QED BY <1>3, <1>4, <1>5, <1>7, <1>8, Zenon DEF Exact, Within

\* Nothing is in the state of an absent key, whoever wrote what.
LEMMA NothingIsExact ==
  ASSUME NEW w \in Histories, NEW k, NEW e, e.dots = NoEntry.dots, e.version = Zero
  PROVE  Exact(w, k, e) /\ Within(w, e.version)
<1>1. \A a \in Actors : Len(w[a]) \in Nat
  BY DEF Histories
<1>2. ASSUME NEW a \in Actors PROVE DotsUpTo(w, k, Zero)[a] = {}
  BY <1>1 DEF DotsUpTo, Zero
<1>3. DotsUpTo(w, k, Zero) = [a \in Actors |-> {}]
  BY <1>2, Zenon DEF DotsUpTo
<1> QED BY <1>1, <1>3 DEF Exact, NoEntry, Within, Zero

-----------------------------------------------------------------------------
(* Entries that refer only to what was written *)

LEMMA WithinMerge ==
  ASSUME NEW w \in Histories, NEW u \in Vector, NEW v \in Vector, Within(w, u), Within(w, v)
  PROVE  Within(w, Merge(u, v))
BY Zenon DEF Within, Merge, MaxOf, Vector

LEMMA WithinBelow ==
  ASSUME NEW w \in Histories, NEW u \in Vector, NEW v \in Vector, Leq(u, v), Within(w, v)
  PROVE  Within(w, u)
<1> SUFFICES ASSUME NEW a \in Actors PROVE u[a] <= Len(w[a])
  BY Zenon DEF Within
<1>1. u[a] \in Nat /\ v[a] \in Nat /\ Len(w[a]) \in Nat
  BY DEF Histories, Vector
<1>2. u[a] <= v[a] /\ v[a] <= Len(w[a])
  BY Zenon DEF Within, Leq
<1> QED BY <1>1, <1>2

LEMMA WithinGrows ==
  ASSUME NEW w \in Histories, NEW w2 \in Histories, Extends(w, w2), NEW v \in Vector, Within(w, v)
  PROVE  Within(w2, v)
<1> SUFFICES ASSUME NEW a \in Actors PROVE v[a] <= Len(w2[a])
  BY Zenon DEF Within
<1>1. v[a] \in Nat /\ Len(w[a]) \in Nat /\ Len(w2[a]) \in Nat
  BY DEF Histories, Vector
<1>2. v[a] <= Len(w[a]) /\ Len(w[a]) <= Len(w2[a])
  BY Zenon DEF Within, Extends
<1> QED BY <1>1, <1>2

\* An entry whose version is exact and whose context, which covers its version,
\* names only mutations that were made.
Grounded(w, k, e) == Exact(w, k, e) /\ Leq(e.version, e.context) /\ Within(w, e.context)

LEMMA GroundedVersion ==
  ASSUME NEW w \in Histories, NEW k, NEW e \in Entry, Grounded(w, k, e)
  PROVE  Within(w, e.version)
BY WithinBelow, EntryParts, Zenon DEF Grounded

LEMMA ContextIsGrounded ==
  ASSUME NEW w \in Histories, NEW k, NEW v \in Vector, Within(w, v)
  PROVE  Grounded(w, k, OnlyContext(v))
BY NoEntryIsEntry, NothingIsExact, Zenon DEF Grounded

LEMMA NothingIsGrounded ==
  ASSUME NEW w \in Histories, NEW k
  PROVE  Grounded(w, k, NoEntry) /\ Within(w, Zero)
<1>1. NoEntry.context = Zero /\ NoEntry.version = Zero /\ Leq(Zero, Zero)
  BY NoEntryIsEntry, Zenon DEF NoEntry
<1> QED BY <1>1, NothingIsExact, Zenon DEF Grounded

LEMMA MergeIsGrounded ==
  ASSUME NEW w \in Histories, NEW k \in Keys, NEW e \in Entry, NEW f \in Entry,
         Grounded(w, k, e), Grounded(w, k, f)
  PROVE  Grounded(w, k, MergeEntries(e, f))
<1>1. /\ e.version \in Vector /\ e.context \in Vector /\ f.version \in Vector /\ f.context \in Vector
  BY EntryParts, Zenon
<1>2. Exact(w, k, MergeEntries(e, f))
  BY MergeKeepsExact, Zenon DEF Grounded
<1>3. Within(w, Merge(e.context, f.context))
  BY <1>1, WithinMerge, Zenon DEF Grounded
<1>4. Leq(Merge(e.version, f.version), Merge(e.context, f.context))
  <2> SUFFICES ASSUME NEW a \in Actors
               PROVE  MaxOf(e.version[a], f.version[a]) <= MaxOf(e.context[a], f.context[a])
    BY Zenon DEF Leq, Merge
  <2>1. /\ e.version[a] \in Nat /\ f.version[a] \in Nat /\ e.context[a] \in Nat /\ f.context[a] \in Nat
    BY <1>1, Zenon DEF Vector
  <2>2. e.version[a] <= e.context[a] /\ f.version[a] <= f.context[a]
    BY Zenon DEF Grounded, Leq
  <2> QED BY <2>1, <2>2 DEF MaxOf
<1> QED BY <1>2, <1>3, <1>4, MergeEntriesResult, Zenon DEF Grounded

LEMMA GroundedGrows ==
  ASSUME NEW w \in Histories, NEW w2 \in Histories, Extends(w, w2), NEW k \in Keys,
         NEW e \in Entry, Grounded(w, k, e)
  PROVE  Grounded(w2, k, e)
BY WritesKeepExact, WithinGrows, GroundedVersion, EntryParts, Zenon DEF Grounded

\* The next mutation of an actor whose clock counts its mutations.
LEMMA MutationIsGrounded ==
  ASSUME NEW w \in Histories, NEW w2 \in Histories, NEW k \in Keys, NEW e \in Entry,
         NEW base \in Vector, NEW actor \in Actors, NEW counter \in Nat, counter = Len(w[actor]) + 1,
         Grounded(w, k, e), OwnComplete(w, k, e, actor), Within(w, base), Leq(e.context, base),
         Appended(w, w2, actor, k), NEW f, f = Mutated(e, base, actor, counter)
  PROVE  /\ f \in Entry /\ Grounded(w2, k, f) /\ OwnComplete(w2, k, f, actor)
         /\ WithDot(base, actor, counter) \in Vector /\ Within(w2, WithDot(base, actor, counter))
         /\ WithDot(base, actor, counter)[actor] = Len(w2[actor])
         /\ f.context = WithDot(base, actor, counter) /\ Leq(base, WithDot(base, actor, counter))
<1> DEFINE c == WithDot(base, actor, counter)
<1>1. /\ e.version \in Vector /\ e.context \in Vector /\ Within(w, e.version)
      /\ \A a \in Actors : /\ Len(w[a]) \in Nat /\ Len(w2[a]) \in Nat /\ base[a] \in Nat
                           /\ e.version[a] \in Nat /\ e.context[a] \in Nat
  <2>1. e.version \in Vector /\ e.context \in Vector /\ Within(w, e.version)
    BY EntryParts, GroundedVersion, Zenon
  <2>2. ASSUME NEW a \in Actors
        PROVE  /\ Len(w[a]) \in Nat /\ Len(w2[a]) \in Nat /\ base[a] \in Nat
               /\ e.version[a] \in Nat /\ e.context[a] \in Nat
    BY <2>1 DEF Histories, Vector
  <2> QED BY <2>1, <2>2, Zenon
<1>2. /\ Exact(w2, k, f) /\ OwnComplete(w2, k, f, actor) /\ f.version[actor] = counter
  BY <1>1, MutationKeepsExact DEF Grounded
<1>3. /\ f \in Entry /\ f.context = WithDot(Merge(e.context, base), actor, counter)
      /\ \A a \in Actors \ {actor} : f.version[a] = e.version[a]
  BY MutatedResult
<1>4. Merge(e.context, base) = base
  <2>1. ASSUME NEW a \in Actors PROVE MaxOf(e.context[a], base[a]) = base[a]
    BY <1>1 DEF Leq, MaxOf
  <2> QED BY <2>1, Zenon DEF Merge, Vector
<1>5. /\ c \in Vector /\ Leq(base, c) /\ c[actor] = MaxOf(base[actor], counter)
      /\ \A a \in Actors \ {actor} : c[a] = base[a]
  BY WithDotResult, Zenon
<1>6. c[actor] = counter /\ counter = Len(w2[actor])
  BY <1>1, <1>5 DEF MaxOf, Within, Appended
<1> HIDE DEF c
<1>7. ASSUME NEW a \in Actors PROVE c[a] <= Len(w2[a]) /\ f.version[a] <= c[a]
  <2>1. CASE a = actor
    BY <1>1, <1>2, <1>6, <2>1
  <2>2. CASE a # actor
    <3>1. c[a] = base[a] /\ f.version[a] = e.version[a] /\ w2[a] = w[a]
      BY <1>3, <1>5, <2>2, Zenon DEF Appended
    <3>2. base[a] <= Len(w[a]) /\ e.version[a] <= e.context[a] /\ e.context[a] <= base[a]
      BY Zenon DEF Within, Grounded, Leq
    <3> QED BY <1>1, <3>1, <3>2
  <2> QED BY <2>1, <2>2, Zenon
<1>8. f.context = c
  BY <1>3, <1>4, Zenon DEF c
<1> QED BY <1>2, <1>3, <1>5, <1>6, <1>7, <1>8, Zenon DEF Grounded, Within, Leq, c

\* What an actor wrote to a key stays in an entry of it that grows, and in the
\* entries of other keys.
LEMMA CompleteGrows ==
  ASSUME NEW w \in Histories, NEW k, NEW e \in Entry, NEW f \in Entry, NEW actor \in Actors,
         OwnComplete(w, k, e, actor), EntryLeq(e, f)
  PROVE  OwnComplete(w, k, f, actor)
<1>1. e.version[actor] \in Nat /\ f.version[actor] \in Nat /\ e.version[actor] <= f.version[actor]
      /\ Len(w[actor]) \in Nat
  BY EntryParts DEF Vector, EntryLeq, Leq, Histories
<1> QED BY <1>1 DEF OwnComplete

LEMMA CompleteElsewhere ==
  ASSUME NEW w \in Histories, NEW w2 \in Histories, NEW k, NEW j, NEW e, NEW actor \in Actors,
         NEW other \in Actors, Appended(w, w2, actor, k), OwnComplete(w, j, e, other),
         j # k \/ other # actor
  PROVE  OwnComplete(w2, j, e, other)
<1>1. Len(w[actor]) \in Nat /\ Len(w2[actor]) \in Nat
  BY DEF Histories
<1>2. CASE other # actor
  BY <1>2, Zenon DEF OwnComplete, Appended
<1>3. CASE other = actor /\ j # k
  BY SMTT(30), <1>1, <1>3 DEF OwnComplete, Appended
<1> QED BY <1>2, <1>3, Zenon

\* The vectors within a history, as a set that TLC can enumerate.
KnownIn(w) ==
  {v \in [Actors -> UNION {0..Len(w[a]) : a \in Actors}] : \A a \in Actors : v[a] <= Len(w[a])}

LEMMA KnownIs ==
  ASSUME NEW w \in Histories, NEW v
  PROVE  v \in KnownIn(w) <=> v \in Vector /\ Within(w, v)
<1> DEFINE S == UNION {0..Len(w[a]) : a \in Actors}
<1>1. \A a \in Actors : Len(w[a]) \in Nat /\ 0..Len(w[a]) \subseteq S
  BY DEF Histories
<1>2. S \subseteq Nat
  BY <1>1
<1>3. KnownIn(w) = {x \in [Actors -> S] : \A a \in Actors : x[a] <= Len(w[a])}
  BY Zenon DEF KnownIn
<1> HIDE DEF S
<1>4. ASSUME v \in Vector, Within(w, v) PROVE v \in [Actors -> S]
  <2>1. ASSUME NEW a \in Actors PROVE v[a] \in 0..Len(w[a])
    <3>1. v[a] \in Nat /\ v[a] <= Len(w[a]) /\ Len(w[a]) \in Nat
      BY <1>1, <1>4, Zenon DEF Vector, Within
    <3> QED BY <3>1
  <2> QED BY <1>1, <1>4, <2>1, Zenon DEF Vector
<1>5. v \in [Actors -> S] => v \in Vector
  BY <1>2, Zenon DEF Vector
<1> QED BY <1>3, <1>4, <1>5, Zenon DEF Within

LEMMA MergeAbove ==
  ASSUME NEW u \in Vector, NEW v \in Vector, Leq(u, v)
  PROVE  Merge(u, v) = v
BY DEF Merge, Vector, Leq, MaxOf
=============================================================================
