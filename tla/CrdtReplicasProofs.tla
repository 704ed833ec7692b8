------------------------- MODULE CrdtReplicasProofs -------------------------
(***************************************************************************)
(* CrdtReplicas for any nodes, elements, amounts and bounds.               *)
(*                                                                         *)
(* Content(type, S) is what a set S of mutations means, without an order   *)
(* in which they were made, sent or merged.  Part one shows of the four    *)
(* types that ApplyMutation and MergeState compute it: mutating extends S  *)
(* by a mutation, merging takes the union of two sets, and ValueOf reads   *)
(* from Content(type, S) what Meaning says of S.  Part two shows that a    *)
(* document decodes to the entry that it was made from.  Part three is the *)
(* invariant of the replicas: every entry is the content of the mutations  *)
(* that its node has seen, and its version tells which ones these are.     *)
(***************************************************************************)
EXTENDS CrdtReplicas, FiniteSetTheorems, TLAPS

\* The mutations of replicas, as the history records them.
Mutation == [dot : Nodes \X (Nat \ {0}), request : Requests, saw : SUBSET (Nodes \X Nat)]

Dots(S) == {o.dot : o \in S}
At(S, n) == {o \in S : o.dot[1] = n}

\* A set of mutations of a key of this type that a replica may have seen: dots are
\* not given out twice, and with a mutation comes all that its replica had seen.
History(type, S) ==
  /\ IsFiniteSet(S) /\ S \subseteq Mutation
  /\ \A o \in S : o.request.type = type
  /\ \A o, p \in S : o.dot = p.dot => o = p
  /\ \A o \in S : o.saw \subseteq Dots(S)

\* Two replicas agree on what a dot stands for, and one of them has seen all that
\* the other has seen of a node.
Compatible(S, T) ==
  /\ \A o \in S, p \in T : o.dot = p.dot => o = p
  /\ \A n \in Nodes : At(S, n) \subseteq At(T, n) \/ At(T, n) \subseteq At(S, n)

\* The state that a set of mutations stands for, whatever the order in which they
\* were made, sent and merged.
CounterOf(S, operation) == [n \in Nodes |-> Total(At(S, n), operation)]
AddedIn(S, e) == Dots({o \in S : o.request.operation = "add" /\ o.request.value = e})
RemovedIn(S) ==
  {d \in Dots(S) : \E r, a \in S :
     /\ r.request.operation = "remove" /\ a.request.operation = "add"
     /\ a.request.value = r.request.value /\ a.dot = d /\ d \in r.saw}
ValueAt(S, d) == (CHOOSE o \in S : o.dot = d).request.value
SupersededIn(S) == {d \in Dots(S) : \E o \in S : d \in o.saw}

Content(type, S) ==
  CASE type = "gcounter"   -> CounterOf(S, "increment")
    [] type = "pncounter"  -> [positive |-> CounterOf(S, "increment"),
                               negative |-> CounterOf(S, "decrement")]
    [] type = "orset"      -> [adds |-> [e \in Elements |-> AddedIn(S, e)],
                               removed |-> RemovedIn(S)]
    [] type = "mvregister" -> [values |-> [d \in Dots(S) |-> Json(ValueAt(S, d))],
                               superseded |-> SupersededIn(S)]

\* What every node mutated itself, of which upto counts the mutations.
Made == [a \in Nodes |-> At(seen[a], a)]
Logs(upto, made) ==
  /\ upto \in [Nodes -> Nat]
  /\ \A a \in Nodes :
       /\ made[a] \subseteq Mutation
       /\ \A o \in made[a] : o.dot[1] = a /\ o.dot[2] <= upto[a]
       /\ \A o, p \in made[a] : o.dot = p.dot => o = p

MadeOneMore(made, n, o, made1) ==
  \A a \in Nodes : made1[a] = IF a = n THEN made[a] \cup {o} ELSE made[a]

\* The version tells which mutations an entry is made of: of every node the first so
\* many that this node made.
Covers(version, S, upto, made) ==
  \A a \in Nodes : /\ version[a] <= upto[a]
                   /\ At(S, a) = {o \in made[a] : o.dot[2] <= version[a]}

\* An entry that is made of the mutations in S.
EntryOf(e, S, upto, made) ==
  /\ e.type \in CrdtType /\ e.version \in [Nodes -> Nat]
  /\ e = [type |-> e.type, state |-> Content(e.type, S), version |-> e.version]
  /\ History(e.type, S) /\ Covers(e.version, S, upto, made)

IndInv ==
  /\ count \in [Nodes -> Nat]
  /\ DOMAIN entry = Nodes /\ DOMAIN seen = Nodes /\ DOMAIN sent = CrdtType
  /\ \A n \in Nodes :
       /\ \/ entry[n] = NoEntry /\ seen[n] = {}
          \/ EntryOf(entry[n], seen[n], count, Made) /\ seen[n] # {}
       /\ entry[n].version[n] = count[n]
  /\ \A t \in CrdtType : \A m \in sent[t] : \A e \in StateFromProto(m.message) :
       e.type = t /\ EntryOf(e, m.ops, count, Made) /\ m.ops # {}
  /\ RefusedIsEmpty

-----------------------------------------------------------------------------
(* Sums of functions *)

\* A set of naturals that is not empty has a least element.
LEMMA LeastNatural ==
  ASSUME NEW S \in SUBSET Nat, S # {}
  PROVE  \E m \in S : \A x \in S : m <= x
<1> DEFINE R == OpToRel(<, Nat)
<1>1. PICK m \in S : \A y \in S : ~(<<y, m>> \in R)
  <2> HIDE DEF R
  <2>1. IsWellFoundedOn(R, Nat)
    BY NatLessThanWellFounded, Zenon DEF R
  <2> QED BY <2>1, WFMin, Zenon
<1>2. ASSUME NEW x \in S PROVE m <= x
  <2>1. x \in Nat /\ m \in Nat
    OBVIOUS
  <2>2. ~(x < m)
    BY <1>1, <2>1, Zenon DEF OpToRel
  <2> QED BY <2>1, <2>2
<1> QED BY <1>1, <1>2, Zenon

Picked(s) == CHOOSE x \in s : TRUE
Rest(s) == s \ {Picked(s)}

\* g adds up f on the subsets of S, picking one element after the other.
Adds(g, f, S) ==
  g = [s \in SUBSET S |-> IF s = {} THEN 0 ELSE f[Picked(s)] + g[Rest(s)]]

LEMMA RestIsSmaller ==
  ASSUME NEW S, IsFiniteSet(S), NEW s \in SUBSET S, s # {}
  PROVE  /\ Picked(s) \in s /\ Rest(s) \in SUBSET S
         /\ IsFiniteSet(Rest(s)) /\ IsFiniteSet(s)
         /\ Cardinality(s) \in Nat /\ Cardinality(Rest(s)) \in Nat
         /\ Cardinality(Rest(s)) = Cardinality(s) - 1
<1>1. Picked(s) \in s
  BY Zenon DEF Picked
<1>2. IsFiniteSet(s)
  BY FS_Subset, Zenon
<1>3. IsFiniteSet(Rest(s)) /\ Cardinality(Rest(s)) = Cardinality(s) - 1
  BY <1>1, <1>2, FS_RemoveElement, Zenon DEF Rest
<1> QED BY <1>1, <1>2, <1>3, FS_CardinalityType, Zenon DEF Rest

LEMMA AdditionExists ==
  ASSUME NEW S, IsFiniteSet(S), NEW f
  PROVE  \E g : Adds(g, f, S)
<1> DEFINE Up(g, s) == IF s = {} THEN 0 ELSE f[Picked(s)] + g[Rest(s)]
           Upto(g, k) == \A s \in SUBSET S : Cardinality(s) <= k => g[s] = Up(g, s)
           Bad == {k \in Nat : ~ \E g : Upto(g, k)}
<1>1. Bad = {}
  <2> SUFFICES ASSUME Bad # {} PROVE FALSE
    OBVIOUS
  <2>1. PICK k \in Bad : \A j \in Bad : k <= j
    BY LeastNatural, Zenon
  <2>2. k \in Nat /\ \A g : ~Upto(g, k)
    BY <2>1, Zenon
  <2>3. CASE k = 0
    <3> DEFINE g == [s \in SUBSET S |-> 0]
    <3>1. ASSUME NEW s \in SUBSET S, Cardinality(s) <= 0 PROVE g[s] = Up(g, s)
      <4>1. s = {}
        <5>1. IsFiniteSet(s)
          BY FS_Subset, Zenon
        <5>2. Cardinality(s) = 0
          BY <3>1, <5>1, FS_CardinalityType
        <5> QED BY <5>1, <5>2, FS_EmptySet, Zenon
      <4> QED BY <4>1, Zenon
    <3> QED BY <2>2, <2>3, <3>1, Zenon
  <2>4. CASE k # 0
    <3>1. k - 1 \in Nat /\ k - 1 \notin Bad
      BY <2>1, <2>2, <2>4
    <3>2. PICK h : Upto(h, k - 1)
      BY <3>1, Zenon
    <3> DEFINE g == [s \in SUBSET S |-> Up(h, s)]
    <3>3. ASSUME NEW s \in SUBSET S, Cardinality(s) <= k PROVE g[s] = Up(g, s)
      <4>1. CASE s = {}
        BY <4>1, Zenon
      <4>2. CASE s # {}
        <5>1. Rest(s) \in SUBSET S /\ Cardinality(Rest(s)) <= k - 1
          BY <2>2, <3>3, <4>2, RestIsSmaller
        <5>2. h[Rest(s)] = Up(h, Rest(s))
          BY <3>2, <5>1, Zenon
        <5>3. g[Rest(s)] = h[Rest(s)]
          BY <5>1, <5>2, Zenon
        <5> QED BY <4>2, <5>3, Zenon
      <4> QED BY <4>1, <4>2, Zenon
    <3> HIDE DEF g, Up
    <3> QED BY <2>2, <3>3, Zenon
  <2> QED BY <2>3, <2>4, Zenon
<1>2. Cardinality(S) \in Nat
  BY FS_CardinalityType, Zenon
<1>3. PICK h : Upto(h, Cardinality(S))
  BY <1>1, <1>2, Zenon
<1> DEFINE g == [s \in SUBSET S |-> h[s]]
<1>4. ASSUME NEW s \in SUBSET S
      PROVE  g[s] = IF s = {} THEN 0 ELSE f[Picked(s)] + g[Rest(s)]
  <2>1. Cardinality(s) <= Cardinality(S)
    BY FS_Subset, Zenon
  <2>2. h[s] = Up(h, s)
    BY <1>3, <2>1, Zenon
  <2>3. s # {} => Rest(s) \in SUBSET S
    BY Zenon DEF Rest
  <2> QED BY <2>2, <2>3, Zenon
<1> HIDE DEF g, Up
<1>5. g = [s \in SUBSET S |-> g[s]]
  BY Zenon DEF g
<1>6. Adds(g, f, S)
  BY <1>4, <1>5, Zenon DEF Adds
<1> QED BY <1>6, Zenon

\* The sum does not depend on the set whose subsets the addition runs through.
LEMMA AdditionIsUnique ==
  ASSUME NEW S, IsFiniteSet(S), NEW T \in SUBSET S, NEW f, NEW e, NEW g, NEW h,
         \A x \in T : f[x] = e[x], Adds(g, f, S), Adds(h, e, T)
  PROVE  \A s \in SUBSET T : g[s] = h[s]
<1> DEFINE Bad == {k \in Nat : \E s \in SUBSET T : Cardinality(s) = k /\ g[s] # h[s]}
<1>1. IsFiniteSet(T)
  BY FS_Subset, Zenon
<1>2. Bad = {}
  <2> SUFFICES ASSUME Bad # {} PROVE FALSE
    OBVIOUS
  <2>1. PICK k \in Bad : \A j \in Bad : k <= j
    BY LeastNatural, Zenon
  <2>2. PICK s \in SUBSET T : Cardinality(s) = k /\ g[s] # h[s]
    BY <2>1, Zenon
  <2>3. /\ g[s] = IF s = {} THEN 0 ELSE f[Picked(s)] + g[Rest(s)]
        /\ h[s] = IF s = {} THEN 0 ELSE e[Picked(s)] + h[Rest(s)]
    BY Zenon DEF Adds
  <2>4. s # {}
    BY <2>2, <2>3, Zenon
  <2>5. /\ Picked(s) \in T /\ Rest(s) \in SUBSET T
        /\ Cardinality(Rest(s)) \in Nat /\ Cardinality(Rest(s)) = k - 1
    BY <1>1, <2>2, <2>4, RestIsSmaller, Zenon
  <2>6. g[Rest(s)] # h[Rest(s)]
    BY <2>2, <2>3, <2>4, <2>5, Zenon
  <2>7. k - 1 \in Bad
    BY <2>5, <2>6, Zenon
  <2> QED BY <2>1, <2>7
<1>3. ASSUME NEW s \in SUBSET T PROVE g[s] = h[s]
  <2>1. IsFiniteSet(s) /\ Cardinality(s) \in Nat
    BY <1>1, FS_Subset, FS_CardinalityType, Zenon
  <2> QED BY <1>2, <2>1, Zenon
<1> QED BY <1>3, Zenon

LEMMA SumIsAddition ==
  ASSUME NEW S, IsFiniteSet(S), NEW f
  PROVE  \E g : Adds(g, f, S) /\ SumFunctionOnSet(f, S) = g[S]
<1> DEFINE iter == CHOOSE g : Adds(g, f, S)
<1>1. Adds(iter, f, S)
  BY AdditionExists, Zenon
<1>2. SumFunctionOnSet(f, S) = iter[S]
  BY Zenon DEF SumFunctionOnSet, FoldFunctionOnSet, MapThenFoldSet, Adds, Picked, Rest
<1> QED BY <1>1, <1>2, Zenon

LEMMA SumOfNone ==
  ASSUME NEW f
  PROVE  SumFunctionOnSet(f, {}) = 0
<1>1. IsFiniteSet({})
  BY FS_EmptySet, Zenon
<1>2. PICK g : Adds(g, f, {}) /\ SumFunctionOnSet(f, {}) = g[{}]
  BY <1>1, SumIsAddition, Zenon
<1> QED BY <1>2, Zenon DEF Adds

\* Only what the function is on the set counts.
LEMMA SumCongruence ==
  ASSUME NEW S, IsFiniteSet(S), NEW f, NEW e, \A x \in S : f[x] = e[x]
  PROVE  SumFunctionOnSet(f, S) = SumFunctionOnSet(e, S)
<1>1. PICK g : Adds(g, f, S) /\ SumFunctionOnSet(f, S) = g[S]
  BY SumIsAddition, Zenon
<1>2. PICK h : Adds(h, e, S) /\ SumFunctionOnSet(e, S) = h[S]
  BY SumIsAddition, Zenon
<1>3. S \in SUBSET S
  OBVIOUS
<1>4. \A s \in SUBSET S : g[s] = h[s]
  BY <1>1, <1>2, <1>3, AdditionIsUnique
<1> QED BY <1>1, <1>2, <1>3, <1>4, Zenon

LEMMA SumPicks ==
  ASSUME NEW S, IsFiniteSet(S), S # {}, NEW f
  PROVE  SumFunctionOnSet(f, S) = f[Picked(S)] + SumFunctionOnSet(f, Rest(S))
<1>1. PICK g : Adds(g, f, S) /\ SumFunctionOnSet(f, S) = g[S]
  BY SumIsAddition, Zenon
<1>2. Rest(S) \in SUBSET S /\ IsFiniteSet(Rest(S))
  BY RestIsSmaller, Zenon
<1>3. PICK h : Adds(h, f, Rest(S)) /\ SumFunctionOnSet(f, Rest(S)) = h[Rest(S)]
  BY <1>2, SumIsAddition, Zenon
<1>4. g[Rest(S)] = h[Rest(S)]
  BY <1>1, <1>2, <1>3, AdditionIsUnique
<1>5. g[S] = f[Picked(S)] + g[Rest(S)]
  BY <1>1, Zenon DEF Adds
<1> QED BY <1>1, <1>3, <1>4, <1>5, Zenon

\* A sum of naturals is a natural, and any element may be added first.
LEMMA SumTakes ==
  ASSUME NEW S, IsFiniteSet(S), NEW f, \A x \in S : f[x] \in Nat
  PROVE  /\ SumFunctionOnSet(f, S) \in Nat
         /\ \A x \in S : SumFunctionOnSet(f, S) = f[x] + SumFunctionOnSet(f, S \ {x})
<1> DEFINE Sum(s) == SumFunctionOnSet(f, s)
           Good(s) == Sum(s) \in Nat /\ \A x \in s : Sum(s) = f[x] + Sum(s \ {x})
           Bad == {k \in Nat : \E s \in SUBSET S : Cardinality(s) = k /\ ~Good(s)}
<1> HIDE DEF Sum
<1>1. Bad = {}
  <2> SUFFICES ASSUME Bad # {} PROVE FALSE
    OBVIOUS
  <2>1. PICK k \in Bad : \A j \in Bad : k <= j
    BY LeastNatural, Zenon
  <2>2. PICK s \in SUBSET S : Cardinality(s) = k /\ ~Good(s)
    BY <2>1, Zenon
  <2>3. s # {}
    BY <2>2, SumOfNone DEF Sum
  <2>4. /\ IsFiniteSet(s) /\ k \in Nat
        /\ \A x \in s : IsFiniteSet(s \ {x}) /\ Cardinality(s \ {x}) = k - 1
    BY <2>2, FS_Subset, FS_RemoveElement, Zenon
  <2>5. ASSUME NEW x \in s PROVE Good(s \ {x})
    <3>1. Cardinality(s \ {x}) = k - 1 /\ k - 1 \in Nat
      BY <2>4, FS_CardinalityType, Zenon
    <3>2. k - 1 \notin Bad
      BY <2>1, <2>4, <3>1
    <3>3. s \ {x} \in SUBSET S
      OBVIOUS
    <3> HIDE DEF Good
    <3> QED BY <3>1, <3>2, <3>3, Zenon
  <2> DEFINE y == Picked(s)
  <2>6. y \in s /\ Sum(s) = f[y] + Sum(s \ {y}) /\ f[y] \in Nat
    <3>1. y \in s
      BY <2>3, Zenon DEF Picked
    <3> QED BY <2>3, <2>4, <3>1, SumPicks, Zenon DEF Sum, Rest
  <2> HIDE DEF y
  <2>7. Sum(s) \in Nat
    BY <2>5, <2>6
  <2>8. ASSUME NEW x \in s PROVE Sum(s) = f[x] + Sum(s \ {x})
    <3>1. CASE x = y
      BY <2>6, <3>1, Zenon
    <3>2. CASE x # y
      <4>1. Sum(s \ {y}) = f[x] + Sum((s \ {y}) \ {x})
        BY <2>5, <2>6, <3>2, Zenon
      <4>2. Sum(s \ {x}) = f[y] + Sum((s \ {x}) \ {y})
        BY <2>5, <2>6, <3>2, Zenon
      <4> DEFINE u == Sum((s \ {y}) \ {x})
      <4>3. (s \ {x}) \ {y} = (s \ {y}) \ {x}
        OBVIOUS
      <4>4. u \in Nat /\ f[x] \in Nat /\ f[y] \in Nat
        <5>3. IsFiniteSet(s \ {y}) /\ Cardinality(s \ {y}) = k - 1
          BY <2>4, <2>6, Zenon
        <5>4. Cardinality((s \ {y}) \ {x}) = k - 2 /\ Cardinality((s \ {y}) \ {x}) \in Nat
          <6>1. x \in s \ {y}
            BY <3>2, Zenon
          <6> DEFINE r == s \ {y}
          <6>2. IsFiniteSet(r) /\ Cardinality(r) = k - 1 /\ x \in r
            BY <5>3, <6>1, Zenon
          <6> HIDE DEF r
          <6>3. Cardinality(r \ {x}) = Cardinality(r) - 1 /\ IsFiniteSet(r \ {x})
            BY <6>2, FS_RemoveElement, Zenon
          <6>4. Cardinality(r \ {x}) \in Nat
            BY <6>3, FS_CardinalityType, Zenon
          <6> QED BY <2>4, <6>2, <6>3, <6>4 DEF r
        <5>5. k - 2 \notin Bad
          BY <2>1, <2>4, <5>4
        <5>6. (s \ {y}) \ {x} \in SUBSET S
          OBVIOUS
        <5>7. Good((s \ {y}) \ {x})
          <6> HIDE DEF Good
          <6> QED BY <5>4, <5>5, <5>6, Zenon
        <5> QED BY <5>7, <2>6, Zenon
      <4> HIDE DEF u
      <4>5. Sum(s \ {y}) = f[x] + u /\ Sum(s \ {x}) = f[y] + u
        BY <4>1, <4>2, <4>3, Zenon DEF u
      <4> QED BY <2>6, <4>4, <4>5
    <3> QED BY <3>1, <3>2, Zenon
  <2> QED BY <2>2, <2>7, <2>8, Zenon
<1>2. Good(S)
  <2>1. Cardinality(S) \in Nat
    BY FS_CardinalityType, Zenon
  <2> HIDE DEF Good
  <2> QED BY <1>1, <2>1, Zenon
<1> QED BY <1>2, Zenon DEF Sum

LEMMA SumGrows ==
  ASSUME NEW S, IsFiniteSet(S), NEW f, \A x \in S : f[x] \in Nat, NEW T \in SUBSET S
  PROVE  SumFunctionOnSet(f, T) <= SumFunctionOnSet(f, S)
<1> DEFINE Sum(s) == SumFunctionOnSet(f, s)
           Bad == {k \in Nat : \E s \in SUBSET S : /\ T \subseteq s /\ Cardinality(s) = k
                                                   /\ ~(Sum(T) <= Sum(s))}
<1> HIDE DEF Sum
<1>1. \A s \in SUBSET S : /\ IsFiniteSet(s) /\ Cardinality(s) \in Nat /\ Sum(s) \in Nat
                          /\ \A x \in s : Sum(s) = f[x] + Sum(s \ {x})
  <2> SUFFICES ASSUME NEW s \in SUBSET S
               PROVE  /\ IsFiniteSet(s) /\ Cardinality(s) \in Nat /\ Sum(s) \in Nat
                      /\ \A x \in s : Sum(s) = f[x] + Sum(s \ {x})
    OBVIOUS
  <2>1. IsFiniteSet(s) /\ \A x \in s : f[x] \in Nat
    BY FS_Subset, Zenon
  <2> QED BY <2>1, FS_CardinalityType, SumTakes, Zenon DEF Sum
<1>2. Bad = {}
  <2> SUFFICES ASSUME Bad # {} PROVE FALSE
    OBVIOUS
  <2>1. PICK k \in Bad : \A j \in Bad : k <= j
    BY LeastNatural, Zenon
  <2>2. PICK s \in SUBSET S : T \subseteq s /\ Cardinality(s) = k /\ ~(Sum(T) <= Sum(s))
    BY <2>1, Zenon
  <2>3. Sum(T) \in Nat /\ Sum(s) \in Nat
    BY <1>1, Zenon
  <2>4. PICK x \in s : x \notin T
    <3>1. s # T
      BY <2>2, <2>3
    <3> QED BY <2>2, <3>1, Zenon
  <2> DEFINE r == s \ {x}
  <2>5. r \in SUBSET S /\ T \subseteq r
    BY <2>2, <2>4, Zenon
  <2>6. Cardinality(r) = k - 1 /\ Cardinality(r) \in Nat
    BY <1>1, <2>2, <2>5, FS_RemoveElement, Zenon
  <2>7. Sum(s) = f[x] + Sum(r) /\ Sum(r) \in Nat /\ f[x] \in Nat
    BY <1>1, <2>5, Zenon
  <2> HIDE DEF r
  <2>8. ~(Sum(T) <= Sum(r))
    BY <2>2, <2>3, <2>7
  <2>9. k - 1 \in Bad
    BY <2>5, <2>6, <2>8, Zenon
  <2> QED BY <2>1, <2>6, <2>9
<1>3. Sum(T) <= Sum(S)
  BY <1>1, <1>2, Zenon
<1> QED BY <1>3, Zenon DEF Sum

LEMMA SumOfZeros ==
  ASSUME NEW S, IsFiniteSet(S), NEW f, \A x \in S : f[x] = 0
  PROVE  SumFunctionOnSet(f, S) = 0
<1> DEFINE Bad == {k \in Nat : \E s \in SUBSET S : Cardinality(s) = k
                                                   /\ SumFunctionOnSet(f, s) # 0}
<1>1. Bad = {}
  <2> SUFFICES ASSUME Bad # {} PROVE FALSE
    OBVIOUS
  <2>1. PICK k \in Bad : \A j \in Bad : k <= j
    BY LeastNatural, Zenon
  <2>2. PICK s \in SUBSET S : Cardinality(s) = k /\ SumFunctionOnSet(f, s) # 0
    BY <2>1, Zenon
  <2>3. s # {}
    BY <2>2, SumOfNone, Zenon
  <2>4. /\ Picked(s) \in s /\ Rest(s) \in SUBSET S /\ IsFiniteSet(s)
        /\ Cardinality(Rest(s)) \in Nat /\ Cardinality(Rest(s)) = k - 1
    BY <2>2, <2>3, RestIsSmaller, Zenon
  <2>5. SumFunctionOnSet(f, s) = f[Picked(s)] + SumFunctionOnSet(f, Rest(s))
    BY <2>3, <2>4, SumPicks, Zenon
  <2>6. SumFunctionOnSet(f, Rest(s)) # 0
    BY <2>2, <2>4, <2>5
  <2>7. k - 1 \in Bad
    BY <2>4, <2>6, Zenon
  <2> QED BY <2>1, <2>4, <2>7
<1>2. Cardinality(S) \in Nat
  BY FS_CardinalityType, Zenon
<1> QED BY <1>1, <1>2, Zenon

\* A sum may be taken node by node.
LEMMA SumByNode ==
  ASSUME NEW S, IsFiniteSet(S), NEW f, \A x \in S : f[x] \in Nat,
         NEW at, \A x \in S : at[x] \in Nodes
  PROVE  SumFunctionOnSet([n \in Nodes |-> SumFunctionOnSet(f, {x \in S : at[x] = n})], Nodes)
           = SumFunctionOnSet(f, S)
<1> DEFINE Sum(s) == SumFunctionOnSet(f, s)
           Part(s, n) == {x \in s : at[x] = n}
           Parts(s) == [n \in Nodes |-> Sum(Part(s, n))]
           Whole(s) == SumFunctionOnSet(Parts(s), Nodes)
           Bad == {k \in Nat : \E s \in SUBSET S : Cardinality(s) = k /\ Whole(s) # Sum(s)}
<1>1. IsFiniteSet(Nodes)
  BY TypesAssumption, Zenon
<1> HIDE DEF Sum
<1>2. \A s \in SUBSET S : /\ IsFiniteSet(s) /\ Cardinality(s) \in Nat /\ Sum(s) \in Nat
                          /\ \A x \in s : Sum(s) = f[x] + Sum(s \ {x})
  <2> SUFFICES ASSUME NEW s \in SUBSET S
               PROVE  /\ IsFiniteSet(s) /\ Cardinality(s) \in Nat /\ Sum(s) \in Nat
                      /\ \A x \in s : Sum(s) = f[x] + Sum(s \ {x})
    OBVIOUS
  <2>1. IsFiniteSet(s) /\ \A x \in s : f[x] \in Nat
    BY FS_Subset, Zenon
  <2> QED BY <2>1, FS_CardinalityType, SumTakes, Zenon DEF Sum
<1>3. Bad = {}
  <2> SUFFICES ASSUME Bad # {} PROVE FALSE
    OBVIOUS
  <2>1. PICK k \in Bad : \A j \in Bad : k <= j
    BY LeastNatural, Zenon
  <2>2. PICK s \in SUBSET S : Cardinality(s) = k /\ Whole(s) # Sum(s)
    <3> HIDE DEF Whole
    <3> QED BY <2>1, Zenon
  <2>3. s # {}
    <3> SUFFICES ASSUME s = {} PROVE FALSE
      OBVIOUS
    <3>1. \A n \in Nodes : Parts(s)[n] = 0
      BY SumOfNone, Zenon DEF Sum
    <3>2. Whole(s) = 0
      <4> HIDE DEF Parts
      <4> QED BY <1>1, <3>1, SumOfZeros, Zenon
    <3>3. Sum(s) = 0
      BY SumOfNone, Zenon DEF Sum
    <3> HIDE DEF Whole
    <3> QED BY <2>2, <3>2, <3>3, Zenon
  <2>4. PICK x : x \in s
    BY <2>3, Zenon
  <2> DEFINE r == s \ {x}
             n == at[x]
  <2>5. r \in SUBSET S /\ n \in Nodes /\ f[x] \in Nat /\ Cardinality(r) = k - 1
        /\ Cardinality(r) \in Nat
    BY <1>2, <2>2, <2>4, FS_RemoveElement, Zenon
  <2>6. Whole(r) = Sum(r)
    <3> HIDE DEF Whole, r
    <3>1. k - 1 \notin Bad
      BY <2>1, <2>5
    <3> QED BY <2>5, <3>1, Zenon
  <2>7. Sum(s) = f[x] + Sum(r) /\ Sum(r) \in Nat
    BY <1>2, <2>4, <2>5, Zenon
  <2>8. /\ \A m \in Nodes : Parts(s)[m] \in Nat /\ Parts(r)[m] \in Nat
        /\ \A m \in Nodes \ {n} : Parts(s)[m] = Parts(r)[m]
        /\ Parts(s)[n] = f[x] + Parts(r)[n]
    <3>1. \A m \in Nodes : Part(s, m) \in SUBSET S /\ Part(r, m) \in SUBSET S
      OBVIOUS
    <3>2. \A m \in Nodes \ {n} : Part(s, m) = Part(r, m)
      OBVIOUS
    <3>3. x \in Part(s, n) /\ Part(r, n) = Part(s, n) \ {x}
      BY <2>4, Zenon
    <3> HIDE DEF Part, r, n
    <3> QED BY <1>2, <2>5, <3>1, <3>2, <3>3
  <2> HIDE DEF Parts, r, n
  <2>9. /\ Whole(s) = Parts(s)[n] + SumFunctionOnSet(Parts(s), Nodes \ {n})
        /\ Whole(r) = Parts(r)[n] + SumFunctionOnSet(Parts(r), Nodes \ {n})
    BY <1>1, <2>5, <2>8, SumTakes, Zenon
  <2>10. IsFiniteSet(Nodes \ {n})
    BY <1>1, FS_Subset, Zenon
  <2> DEFINE u == SumFunctionOnSet(Parts(r), Nodes \ {n})
  <2>11. SumFunctionOnSet(Parts(s), Nodes \ {n}) = u /\ u \in Nat
    BY <2>8, <2>10, SumCongruence, SumTakes, Zenon
  <2> HIDE DEF u, Whole
  <2>12. Whole(s) = (f[x] + Parts(r)[n]) + u /\ Whole(r) = Parts(r)[n] + u
    BY <2>8, <2>9, <2>11, Zenon DEF u
  <2> QED BY <2>2, <2>5, <2>6, <2>7, <2>8, <2>11, <2>12
<1>4. Whole(S) = Sum(S)
  <2> HIDE DEF Whole
  <2> QED BY <1>2, <1>3, Zenon
<1> QED BY <1>4, Zenon DEF Sum

-----------------------------------------------------------------------------
(* Requests *)

LEMMA RequestShape ==
  ASSUME NEW r \in Requests
  PROVE  /\ r = [type |-> r.type, operation |-> r.operation, amount |-> r.amount,
                 value |-> r.value]
         /\ r.amount \in Nat
         /\ \/ /\ r.type = "gcounter" /\ r.operation = "increment" /\ r.value = "none"
            \/ /\ r.type = "pncounter" /\ r.operation \in {"increment", "decrement"}
               /\ r.value = "none"
            \/ /\ r.type = "orset" /\ r.operation \in {"add", "remove"}
               /\ r.amount = 0 /\ r.value \in Elements
            \/ /\ r.type = "mvregister" /\ r.operation = "write"
               /\ r.amount = 0 /\ r.value \in Elements
<1>1. CASE \E t \in {"gcounter", "pncounter"} :
             r \in [type : {t}, operation : Operations[t] \cap {"increment", "decrement"},
                    amount : Amounts, value : {"none"}]
  <2>1. PICK t \in {"gcounter", "pncounter"} :
             r \in [type : {t}, operation : Operations[t] \cap {"increment", "decrement"},
                    amount : Amounts, value : {"none"}]
    BY <1>1, Zenon
  <2>2. /\ r = [type |-> r.type, operation |-> r.operation, amount |-> r.amount,
                value |-> r.value]
        /\ r.type = t /\ r.operation \in Operations[t] /\ r.amount \in Amounts /\ r.value = "none"
    BY <2>1, Zenon
  <2>3. r.amount \in Nat
    BY <2>2, TypesAssumption, Zenon
  <2>4. CASE t = "gcounter"
    BY <2>2, <2>3, <2>4 DEF Operations
  <2>5. CASE t = "pncounter"
    BY <2>2, <2>3, <2>5 DEF Operations
  <2> QED BY <2>4, <2>5, Zenon
<1>2. CASE \E t \in {"orset", "mvregister"} :
             r \in [type : {t}, operation : Operations[t], amount : {0}, value : Elements]
  BY <1>2 DEF Operations
<1> DEFINE Numbers ==
             UNION {[type : {t}, operation : Operations[t] \cap {"increment", "decrement"},
                     amount : Amounts, value : {"none"}] : t \in {"gcounter", "pncounter"}}
           Others ==
             UNION {[type : {t}, operation : Operations[t], amount : {0}, value : Elements] :
                     t \in {"orset", "mvregister"}}
<1>3. Requests = Numbers \cup Others
  BY Zenon DEF Requests
<1>4. CASE r \in Numbers
  BY <1>1, <1>4, Zenon
<1>5. CASE r \in Others
  BY <1>2, <1>5, Zenon
<1> HIDE DEF Numbers, Others
<1> QED BY <1>3, <1>4, <1>5, Zenon

\* What mutate() decodes is what the client asked for.
LEMMA RequestRoundTrip ==
  ASSUME NEW r \in Requests
  PROVE  DecodeMutationRequest(EncodeMutationRequest(r)) = r
<1> DEFINE m == EncodeMutationRequest(r)
<1>1. r = [type |-> r.type, operation |-> r.operation, amount |-> r.amount, value |-> r.value]
  BY RequestShape, Zenon
<1>2. m.crdt_type = r.type /\ m.which = r.operation
  BY Zenon DEF EncodeMutationRequest
<1>3. CASE r.operation \in {"increment", "decrement"}
  <2>1. m.amount = {r.amount} /\ m.element = {} /\ m.value_json = {} /\ r.value = "none"
    BY <1>3, RequestShape, Zenon DEF EncodeMutationRequest
  <2>2. (CHOOSE a \in {r.amount} : TRUE) = r.amount
    OBVIOUS
  <2> HIDE DEF m
  <2> QED BY <1>1, <1>2, <2>1, <2>2, Zenon DEF DecodeMutationRequest, m
<1>4. CASE r.operation \in {"add", "remove"}
  <2>1. m.amount = {} /\ m.element = {r.value} /\ r.amount = 0
    BY <1>4, RequestShape, Zenon DEF EncodeMutationRequest
  <2>2. (CHOOSE e \in {r.value} : TRUE) = r.value
    OBVIOUS
  <2> HIDE DEF m
  <2> QED BY <1>1, <1>2, <2>1, <2>2, Zenon DEF DecodeMutationRequest, m
<1>5. CASE r.operation = "write"
  <2>1. m.amount = {} /\ m.element = {} /\ m.value_json = {Json(r.value)} /\ r.amount = 0
    BY <1>5, RequestShape, Zenon DEF EncodeMutationRequest
  <2>2. (CHOOSE j \in {Json(r.value)} : TRUE) = Json(r.value)
    OBVIOUS
  <2>3. FromJson(Json(r.value)) = r.value
    BY Zenon DEF FromJson, Json
  <2> HIDE DEF m
  <2> QED BY <1>1, <1>2, <2>1, <2>2, <2>3 DEF DecodeMutationRequest, m
<1> QED BY <1>3, <1>4, <1>5, RequestShape, Zenon

-----------------------------------------------------------------------------
(* Counters *)

\* The mutations of a node in a history, and their amounts.
LEMMA Amounted ==
  ASSUME NEW S, S \subseteq Mutation, IsFiniteSet(S), NEW A \in SUBSET S, NEW operation
  PROVE  /\ IsFiniteSet(A) /\ IsFiniteSet(OpsOf(A, operation))
         /\ OpsOf(A, operation) \in SUBSET A
         /\ \A o \in A : o.request.amount \in Nat /\ o.dot[1] \in Nodes
<1>1. OpsOf(A, operation) \in SUBSET A
  BY Zenon DEF OpsOf
<1>2. IsFiniteSet(A) /\ IsFiniteSet(OpsOf(A, operation))
  BY <1>1, FS_Subset
<1>3. ASSUME NEW o \in A PROVE o.request.amount \in Nat /\ o.dot[1] \in Nodes
  <2>1. o.request \in Requests /\ o.dot \in Nodes \X Nat
    BY DEF Mutation
  <2> QED BY <2>1, RequestShape, Zenon
<1> QED BY <1>1, <1>2, <1>3

\* A total may be taken in a larger set of mutations.
LEMMA TotalWithin ==
  ASSUME NEW S, S \subseteq Mutation, IsFiniteSet(S), NEW A \in SUBSET S, NEW operation
  PROVE  /\ Total(A, operation)
              = SumFunctionOnSet([o \in S |-> o.request.amount], OpsOf(A, operation))
         /\ Total(A, operation) \in Nat
<1> DEFINE U == OpsOf(A, operation)
           f == [o \in S |-> o.request.amount]
           g == [o \in A |-> o.request.amount]
<1>1. IsFiniteSet(U) /\ U \in SUBSET A /\ \A o \in A : o.request.amount \in Nat
  BY Amounted, Zenon
<1> HIDE DEF U
<1>2. \A o \in U : g[o] = f[o] /\ f[o] \in Nat
  BY <1>1, Zenon
<1> HIDE DEF f, g
<1>3. SumFunctionOnSet(g, U) = SumFunctionOnSet(f, U) /\ SumFunctionOnSet(f, U) \in Nat
  BY <1>1, <1>2, SumCongruence, SumTakes
<1> QED BY <1>3, Zenon DEF Total, U, f, g

LEMMA TotalGrows ==
  ASSUME NEW S, S \subseteq Mutation, IsFiniteSet(S), NEW A \in SUBSET S, NEW operation
  PROVE  Total(A, operation) <= Total(S, operation)
<1> DEFINE f == [o \in S |-> o.request.amount]
<1>1. S \in SUBSET S
  OBVIOUS
<1>2. /\ Total(A, operation) = SumFunctionOnSet(f, OpsOf(A, operation))
      /\ Total(S, operation) = SumFunctionOnSet(f, OpsOf(S, operation))
  BY <1>1, TotalWithin, Zenon
<1>3. OpsOf(A, operation) \in SUBSET OpsOf(S, operation)
  BY Zenon DEF OpsOf
<1>4. IsFiniteSet(OpsOf(S, operation)) /\ \A o \in OpsOf(S, operation) : f[o] \in Nat
  BY <1>1, Amounted, Zenon
<1> HIDE DEF f
<1>5. SumFunctionOnSet(f, OpsOf(A, operation)) <= SumFunctionOnSet(f, OpsOf(S, operation))
  BY <1>3, <1>4, SumGrows
<1> QED BY <1>2, <1>5, Zenon

LEMMA TotalAdds ==
  ASSUME NEW S, S \subseteq Mutation, IsFiniteSet(S), NEW A \in SUBSET S, NEW o \in S, o \notin A,
         NEW operation
  PROVE  Total(A \cup {o}, operation)
           = Total(A, operation) + IF o.request.operation = operation THEN o.request.amount ELSE 0
<1> DEFINE f == [x \in S |-> x.request.amount]
           U == OpsOf(A \cup {o}, operation)
<1>1. A \cup {o} \in SUBSET S
  OBVIOUS
<1>2. /\ Total(A, operation) = SumFunctionOnSet(f, OpsOf(A, operation))
      /\ Total(A, operation) \in Nat
      /\ Total(A \cup {o}, operation) = SumFunctionOnSet(f, U)
  BY <1>1, TotalWithin
<1>3. CASE o.request.operation = operation
  <2>1. o \in U /\ U \ {o} = OpsOf(A, operation)
    BY <1>3, Zenon DEF OpsOf
  <2>2. IsFiniteSet(U) /\ (\A x \in U : f[x] \in Nat) /\ f[o] = o.request.amount
    <3>1. /\ IsFiniteSet(OpsOf(A \cup {o}, operation))
          /\ OpsOf(A \cup {o}, operation) \in SUBSET (A \cup {o})
          /\ \A x \in A \cup {o} : x.request.amount \in Nat
      BY <1>1, Amounted, Zenon
    <3> QED BY <1>1, <3>1, Zenon
  <2> HIDE DEF f, U
  <2>3. SumFunctionOnSet(f, U) = f[o] + SumFunctionOnSet(f, U \ {o}) /\ f[o] \in Nat
    BY <2>1, <2>2, SumTakes, Zenon
  <2>4. SumFunctionOnSet(f, U \ {o}) = Total(A, operation)
    BY <1>2, <2>1, Zenon
  <2> QED BY <1>2, <1>3, <2>2, <2>3, <2>4
<1>4. CASE o.request.operation # operation
  <2>1. U = OpsOf(A, operation)
    BY <1>4, Zenon DEF OpsOf
  <2> HIDE DEF f, U
  <2> QED BY <1>2, <1>4, <2>1
<1> QED BY <1>3, <1>4, Zenon

LEMMA CounterTyped ==
  ASSUME NEW S, S \subseteq Mutation, IsFiniteSet(S), NEW operation
  PROVE  CounterOf(S, operation) \in [Nodes -> Nat]
<1>1. ASSUME NEW n \in Nodes PROVE Total(At(S, n), operation) \in Nat
  <2>1. At(S, n) \in SUBSET S
    BY Zenon DEF At
  <2> QED BY <2>1, TotalWithin, Zenon
<1> QED BY <1>1, Zenon DEF CounterOf

\* The value of a counter is the sum over all of its increments.
LEMMA CounterMeans ==
  ASSUME NEW S, S \subseteq Mutation, IsFiniteSet(S), NEW operation
  PROVE  CounterValue(CounterOf(S, operation)) = Total(S, operation)
<1> DEFINE f == [o \in S |-> o.request.amount]
           U == OpsOf(S, operation)
           at == [o \in S |-> o.dot[1]]
           c == CounterOf(S, operation)
           Part(n) == {x \in U : at[x] = n}
           d == [n \in Nodes |-> SumFunctionOnSet(f, Part(n))]
<1>1. S \in SUBSET S
  OBVIOUS
<1>2. Total(S, operation) = SumFunctionOnSet(f, U)
  BY <1>1, TotalWithin, Zenon
<1>3. IsFiniteSet(U) /\ U \in SUBSET S
      /\ (\A o \in U : f[o] \in Nat) /\ (\A o \in U : at[o] \in Nodes)
  BY <1>1, Amounted
<1>4. ASSUME NEW n \in Nodes PROVE c[n] = d[n]
  <2>1. At(S, n) \in SUBSET S
    BY DEF At
  <2>2. Total(At(S, n), operation) = SumFunctionOnSet(f, OpsOf(At(S, n), operation))
    BY <2>1, TotalWithin, Zenon
  <2>3. OpsOf(At(S, n), operation) = Part(n)
    BY Zenon DEF OpsOf, At
  <2>4. c[n] = Total(At(S, n), operation)
    BY DEF CounterOf
  <2> HIDE DEF f, Part, c
  <2> QED BY <2>2, <2>3, <2>4, Zenon
<1>5. c = d
  <2>1. c = [n \in Nodes |-> c[n]]
    BY Zenon DEF CounterOf
  <2> HIDE DEF c
  <2>2. [n \in Nodes |-> c[n]] = [n \in Nodes |-> d[n]]
    BY <1>4, Zenon
  <2> QED BY <2>1, <2>2, Zenon
<1>6. CounterValue(c) = SumFunctionOnSet(c, Nodes)
  BY Zenon DEF CounterValue, SumFunction, CounterOf
<1>7. SumFunctionOnSet(d, Nodes) = SumFunctionOnSet(f, U)
  <2> HIDE DEF f, U, at
  <2> QED BY <1>3, SumByNode
<1> HIDE DEF c, d, f, U
<1> QED BY <1>2, <1>5, <1>6, <1>7 DEF c

\* What one replica has seen of a node includes what the other has: the larger
\* component is the total of both.
LEMMA CounterMerges ==
  ASSUME NEW S, S \subseteq Mutation, IsFiniteSet(S), NEW T, T \subseteq Mutation, IsFiniteSet(T),
         Compatible(S, T), NEW operation
  PROVE  CounterMerge(CounterOf(S, operation), CounterOf(T, operation))
           = CounterOf(S \cup T, operation)
<1>1. ASSUME NEW n \in Nodes
      PROVE  LET x == Total(At(S, n), operation)
                 y == Total(At(T, n), operation)
             IN (IF x < y THEN y ELSE x) = Total(At(S \cup T, n), operation)
  <2>1. At(S, n) \in SUBSET S /\ At(T, n) \in SUBSET T
    BY Zenon DEF At
  <2>2. /\ IsFiniteSet(At(S, n)) /\ At(S, n) \subseteq Mutation
        /\ IsFiniteSet(At(T, n)) /\ At(T, n) \subseteq Mutation
    BY <2>1, FS_Subset, Zenon
  <2>3. Total(At(S, n), operation) \in Nat /\ Total(At(T, n), operation) \in Nat
    BY <2>1, TotalWithin, Zenon
  <2>4. CASE At(S, n) \subseteq At(T, n)
    <3>1. At(S \cup T, n) = At(T, n)
      BY <2>4, Zenon DEF At
    <3>2. Total(At(S, n), operation) <= Total(At(T, n), operation)
      BY <2>2, <2>4, TotalGrows, Zenon
    <3> QED BY <2>3, <3>1, <3>2
  <2>5. CASE At(T, n) \subseteq At(S, n)
    <3>1. At(S \cup T, n) = At(S, n)
      BY <2>5, Zenon DEF At
    <3>2. Total(At(T, n), operation) <= Total(At(S, n), operation)
      BY <2>2, <2>5, TotalGrows, Zenon
    <3> QED BY <2>3, <3>1, <3>2
  <2> QED BY <2>4, <2>5, Zenon DEF Compatible
<1> QED BY <1>1, Zenon DEF CounterMerge, CounterOf

\* An increment of a node adds to its own component.
LEMMA CounterIncrements ==
  ASSUME NEW S, S \subseteq Mutation, IsFiniteSet(S), NEW o \in Mutation, o \notin S, NEW operation
  PROVE  CounterOf(S \cup {o}, operation)
           = IF o.request.operation = operation
             THEN CounterIncrement(CounterOf(S, operation), o.dot[1], o.request.amount)
             ELSE CounterOf(S, operation)
<1>1. S \cup {o} \subseteq Mutation /\ IsFiniteSet(S \cup {o})
  BY FS_AddElement, Zenon
<1>2. o.dot[1] \in Nodes
  BY Zenon DEF Mutation
<1>3. ASSUME NEW n \in Nodes, n # o.dot[1]
      PROVE  Total(At(S \cup {o}, n), operation) = Total(At(S, n), operation)
  <2>1. At(S \cup {o}, n) = At(S, n)
    BY <1>3, Zenon DEF At
  <2> QED BY <2>1, Zenon
<1>4. Total(At(S \cup {o}, o.dot[1]), operation)
        = Total(At(S, o.dot[1]), operation)
          + IF o.request.operation = operation THEN o.request.amount ELSE 0
  <2>1. At(S \cup {o}, o.dot[1]) = At(S, o.dot[1]) \cup {o}
    BY Zenon DEF At
  <2>2. At(S, o.dot[1]) \in SUBSET (S \cup {o}) /\ o \notin At(S, o.dot[1]) /\ o \in S \cup {o}
    BY Zenon DEF At
  <2>3. Total(At(S, o.dot[1]) \cup {o}, operation)
        = Total(At(S, o.dot[1]), operation)
          + IF o.request.operation = operation THEN o.request.amount ELSE 0
    BY <1>1, <2>2, TotalAdds
  <2> QED BY <2>1, <2>3, Zenon
<1>5. CASE o.request.operation = operation
  BY <1>2, <1>3, <1>4, <1>5, Zenon DEF CounterIncrement, CounterOf
<1>6. CASE o.request.operation # operation
  <2>1. At(S, o.dot[1]) \in SUBSET S
    BY Zenon DEF At
  <2>2. Total(At(S, o.dot[1]), operation) \in Nat
    BY <2>1, TotalWithin, Zenon
  <2>3. \A n \in Nodes : Total(At(S \cup {o}, n), operation) = Total(At(S, n), operation)
    BY <1>3, <1>4, <1>6, <2>2
  <2> QED BY <1>6, <2>3, Zenon DEF CounterOf
<1> QED BY <1>5, <1>6

-----------------------------------------------------------------------------
(* Sets *)

\* A removal takes along the additions that its replica had seen, so that what one
\* replica says to be removed does not depend on the additions of the other.
LEMMA RemovalsMerge ==
  ASSUME NEW type, NEW S, NEW T, History(type, S), History(type, T), Compatible(S, T)
  PROVE  RemovedIn(S \cup T) = RemovedIn(S) \cup RemovedIn(T)
<1>1. RemovedIn(S) \cup RemovedIn(T) \subseteq RemovedIn(S \cup T)
  BY DEF RemovedIn, Dots
<1>2. ASSUME NEW d \in RemovedIn(S \cup T) PROVE d \in RemovedIn(S) \cup RemovedIn(T)
  <2>1. PICK r \in S \cup T, a \in S \cup T :
          /\ r.request.operation = "remove" /\ a.request.operation = "add"
          /\ a.request.value = r.request.value /\ a.dot = d /\ d \in r.saw
    BY Zenon DEF RemovedIn
  <2>2. CASE r \in S
    <3>1. PICK b \in S : b.dot = d
      BY <2>1, <2>2 DEF History, Dots
    <3>2. b = a
      BY <2>1, <3>1, Zenon DEF History, Compatible
    <3> QED BY <2>1, <2>2, <3>1, <3>2 DEF RemovedIn, Dots
  <2>3. CASE r \in T
    <3>1. PICK b \in T : b.dot = d
      BY <2>1, <2>3, Zenon DEF History, Dots
    <3>2. b = a
      BY <2>1, <3>1 DEF History, Compatible
    <3> QED BY <2>1, <2>3, <3>1, <3>2 DEF RemovedIn, Dots
  <2> QED BY <2>2, <2>3, Zenon
<1> QED BY <1>1, <1>2, Zenon

LEMMA SetMerges ==
  ASSUME NEW S, NEW T, History("orset", S), History("orset", T), Compatible(S, T)
  PROVE  SetMerge(Content("orset", S), Content("orset", T)) = Content("orset", S \cup T)
<1>1. \A e \in Elements : AddedIn(S, e) \cup AddedIn(T, e) = AddedIn(S \cup T, e)
  BY Zenon DEF AddedIn, Dots
<1>2. RemovedIn(S \cup T) = RemovedIn(S) \cup RemovedIn(T)
  BY RemovalsMerge
<1> QED BY <1>1, <1>2, Zenon DEF SetMerge, Content

LEMMA SetAddIs ==
  ASSUME NEW A, NEW R, NEW e, NEW dot
  PROVE  SetAdd([adds |-> A, removed |-> R], e, dot)
           = [adds |-> [A EXCEPT ![e] = @ \cup {dot}], removed |-> R]
  BY DEF SetAdd

LEMMA SetRemoveIs ==
  ASSUME NEW A, NEW R, NEW e
  PROVE  SetRemove([adds |-> A, removed |-> R], e)
           = [adds |-> A, removed |-> R \cup (A[e] \ R)]
<1> DEFINE s == [adds |-> A, removed |-> R]
           Q == s.removed \cup (s.adds[e] \ s.removed)
<1>1. Q = R \cup (A[e] \ R)
  OBVIOUS
<1>2. SetRemove(s, e) = [s EXCEPT !.removed = Q]
  BY Zenon DEF SetRemove
<1> HIDE DEF Q
<1>3. [s EXCEPT !.removed = Q] = [adds |-> A, removed |-> Q]
  OBVIOUS
<1> QED BY <1>1, <1>2, <1>3

LEMMA SetAdds ==
  ASSUME NEW S, History("orset", S), NEW o \in Mutation, o.request.type = "orset",
         o.request.operation = "add", o.dot \notin Dots(S), o.saw = Dots(S)
  PROVE  SetAdd(Content("orset", S), o.request.value, o.dot) = Content("orset", S \cup {o})
<1>1. o.request.value \in Elements
  BY RequestShape, Zenon DEF Mutation
<1>2. AddedIn(S \cup {o}, o.request.value) = AddedIn(S, o.request.value) \cup {o.dot}
  BY Zenon DEF AddedIn, Dots
<1>3. \A e \in Elements : e # o.request.value => AddedIn(S \cup {o}, e) = AddedIn(S, e)
  BY Zenon DEF AddedIn, Dots
<1>4. RemovedIn(S \cup {o}) = RemovedIn(S)
  <2>1. RemovedIn(S) \subseteq RemovedIn(S \cup {o})
    BY Zenon DEF RemovedIn, Dots
  <2>2. ASSUME NEW d \in RemovedIn(S \cup {o}) PROVE d \in RemovedIn(S)
    <3>1. PICK r \in S \cup {o}, a \in S \cup {o} :
            /\ r.request.operation = "remove" /\ a.request.operation = "add"
            /\ a.request.value = r.request.value /\ a.dot = d /\ d \in r.saw
      BY Zenon DEF RemovedIn
    <3>2. r \in S
      BY <3>1, Zenon
    <3>3. d \in Dots(S)
      BY <3>1, <3>2, Zenon DEF History
    <3>4. a \in S
      BY <3>1, <3>3, Zenon
    <3> QED BY <3>1, <3>2, <3>3, <3>4, Zenon DEF RemovedIn
  <2> QED BY <2>1, <2>2, Zenon
<1> DEFINE A == [e \in Elements |-> AddedIn(S, e)]
<1>5. Content("orset", S) = [adds |-> A, removed |-> RemovedIn(S)]
  BY Zenon DEF Content
<1>6. Content("orset", S \cup {o})
        = [adds |-> [e \in Elements |-> AddedIn(S \cup {o}, e)], removed |-> RemovedIn(S)]
  BY <1>4, Zenon DEF Content
<1>7. [A EXCEPT ![o.request.value] = @ \cup {o.dot}]
        = [e \in Elements |-> AddedIn(S \cup {o}, e)]
  BY <1>1, <1>2, <1>3, Zenon
<1> HIDE DEF A
<1>8. SetAdd([adds |-> A, removed |-> RemovedIn(S)], o.request.value, o.dot)
        = [adds |-> [A EXCEPT ![o.request.value] = @ \cup {o.dot}], removed |-> RemovedIn(S)]
  BY SetAddIs
<1> QED BY <1>5, <1>6, <1>7, <1>8, Zenon

\* A removal removes what its replica shows of the element.
LEMMA SetRemoves ==
  ASSUME NEW S, History("orset", S), NEW o \in Mutation, o.request.type = "orset",
         o.request.operation = "remove", o.dot \notin Dots(S), o.saw = Dots(S)
  PROVE  SetRemove(Content("orset", S), o.request.value) = Content("orset", S \cup {o})
<1>1. o.request.value \in Elements
  BY RequestShape, Zenon DEF Mutation
<1>2. \A e \in Elements : AddedIn(S \cup {o}, e) = AddedIn(S, e)
  BY Zenon DEF AddedIn, Dots
<1>3. RemovedIn(S \cup {o}) = RemovedIn(S) \cup AddedIn(S, o.request.value)
  <2>1. RemovedIn(S) \subseteq RemovedIn(S \cup {o})
    BY Zenon DEF RemovedIn, Dots
  <2>2. ASSUME NEW d \in AddedIn(S, o.request.value) PROVE d \in RemovedIn(S \cup {o})
    <3>1. PICK a \in S : a.request.operation = "add" /\ a.request.value = o.request.value
                         /\ a.dot = d
      BY Zenon DEF AddedIn, Dots
    <3>2. d \in Dots(S) /\ d \in Dots(S \cup {o})
      BY <3>1, Zenon DEF Dots
    <3> QED BY <3>1, <3>2, Zenon DEF RemovedIn
  <2>3. ASSUME NEW d \in RemovedIn(S \cup {o})
        PROVE  d \in RemovedIn(S) \cup AddedIn(S, o.request.value)
    <3>1. PICK r \in S \cup {o}, a \in S \cup {o} :
            /\ r.request.operation = "remove" /\ a.request.operation = "add"
            /\ a.request.value = r.request.value /\ a.dot = d /\ d \in r.saw
      BY Zenon DEF RemovedIn
    <3>2. a \in S /\ d \in Dots(S)
      BY <3>1, Zenon DEF Dots
    <3>3. CASE r \in S
      BY <3>1, <3>2, <3>3, Zenon DEF RemovedIn
    <3>4. CASE r = o
      BY <3>1, <3>2, <3>4, Zenon DEF AddedIn, Dots
    <3> QED BY <3>3, <3>4, Zenon
  <2> QED BY <2>1, <2>2, <2>3, Zenon
<1> DEFINE A == [e \in Elements |-> AddedIn(S, e)]
<1>5. Content("orset", S) = [adds |-> A, removed |-> RemovedIn(S)]
  BY Zenon DEF Content
<1>6. Content("orset", S \cup {o})
        = [adds |-> A, removed |-> RemovedIn(S) \cup AddedIn(S, o.request.value)]
  BY <1>2, <1>3, Zenon DEF Content
<1>7. RemovedIn(S) \cup (A[o.request.value] \ RemovedIn(S))
        = RemovedIn(S) \cup AddedIn(S, o.request.value)
  BY <1>1, Zenon
<1> HIDE DEF A
<1>8. SetRemove([adds |-> A, removed |-> RemovedIn(S)], o.request.value)
        = [adds |-> A, removed |-> RemovedIn(S) \cup (A[o.request.value] \ RemovedIn(S))]
  BY SetRemoveIs, Zenon
<1> QED BY <1>5, <1>6, <1>7, <1>8, Zenon

\* An element is shown if some addition of it was seen by no removal of it.
LEMMA SetMeans ==
  ASSUME NEW S, History("orset", S)
  PROVE  SetValue(Content("orset", S)) = Meaning("orset", S)
<1> DEFINE Survives(e) == \E a \in OpsOf(S, "add") :
             /\ a.request.value = e
             /\ \A r \in OpsOf(S, "remove") : r.request.value = e => a.dot \notin r.saw
<1>1. SetValue(Content("orset", S)) = {e \in Elements : AddedIn(S, e) \ RemovedIn(S) # {}}
  BY Zenon DEF SetValue, Content
<1>2. Meaning("orset", S) = {e \in Elements : Survives(e)}
  BY Zenon DEF Meaning
<1>3. ASSUME NEW e \in Elements PROVE AddedIn(S, e) \ RemovedIn(S) # {} <=> Survives(e)
  <2>1. ASSUME NEW d \in AddedIn(S, e), d \notin RemovedIn(S) PROVE Survives(e)
    <3>1. PICK a \in S : a.request.operation = "add" /\ a.request.value = e /\ a.dot = d
      BY Zenon DEF AddedIn, Dots
    <3>2. ASSUME NEW r \in OpsOf(S, "remove"), r.request.value = e, a.dot \in r.saw PROVE FALSE
      BY <2>1, <3>1, <3>2, Zenon DEF RemovedIn, OpsOf, Dots
    <3> QED BY <3>1, <3>2, Zenon DEF OpsOf
  <2>2. ASSUME Survives(e) PROVE AddedIn(S, e) \ RemovedIn(S) # {}
    <3>1. PICK a \in OpsOf(S, "add") :
             /\ a.request.value = e
             /\ \A r \in OpsOf(S, "remove") : r.request.value = e => a.dot \notin r.saw
      BY <2>2, Zenon
    <3>2. a.dot \in AddedIn(S, e)
      BY <3>1, Zenon DEF AddedIn, Dots, OpsOf
    <3>3. a.dot \notin RemovedIn(S)
      <4>1. ASSUME a.dot \in RemovedIn(S) PROVE FALSE
        <5>1. PICK r \in S, b \in S :
                /\ r.request.operation = "remove" /\ b.request.operation = "add"
                /\ b.request.value = r.request.value /\ b.dot = a.dot /\ a.dot \in r.saw
          BY <4>1, Zenon DEF RemovedIn
        <5>2. b = a
          BY <5>1, Zenon DEF History, OpsOf
        <5> QED BY <3>1, <5>1, <5>2 DEF OpsOf
      <4> QED BY <4>1, Zenon
    <3> QED BY <3>2, <3>3, Zenon
  <2> QED BY <2>1, <2>2
<1> HIDE DEF Survives
<1> QED BY <1>1, <1>2, <1>3, Zenon

-----------------------------------------------------------------------------
(* Registers *)

LEMMA ValueOfDot ==
  ASSUME NEW type, NEW S, History(type, S), NEW o \in S
  PROVE  ValueAt(S, o.dot) = o.request.value /\ o.dot \in Dots(S)
<1>1. (CHOOSE p \in S : p.dot = o.dot) = o
  BY DEF History
<1> QED BY <1>1, Zenon DEF ValueAt, Dots

LEMMA RegistersAgree ==
  ASSUME NEW type, NEW S, NEW T, History(type, S), History(type, T), Compatible(S, T),
         NEW d \in Dots(S), d \in Dots(T)
  PROVE  ValueAt(S, d) = ValueAt(T, d)
<1>1. PICK o \in S : o.dot = d
  BY Zenon DEF Dots
<1>2. PICK p \in T : p.dot = d
  BY Zenon DEF Dots
<1>3. o = p
  BY <1>1, <1>2, Zenon DEF Compatible
<1> QED BY <1>1, <1>2, <1>3, ValueOfDot

LEMMA RegisterMerges ==
  ASSUME NEW S, NEW T, History("mvregister", S), History("mvregister", T), Compatible(S, T),
         History("mvregister", S \cup T)
  PROVE  /\ ~Contradict(Content("mvregister", S), Content("mvregister", T))
         /\ RegisterMerge(Content("mvregister", S), Content("mvregister", T))
              = Content("mvregister", S \cup T)
<1> DEFINE s == Content("mvregister", S)
           t == Content("mvregister", T)
<1>1. /\ s = [values |-> [d \in Dots(S) |-> Json(ValueAt(S, d))], superseded |-> SupersededIn(S)]
      /\ t = [values |-> [d \in Dots(T) |-> Json(ValueAt(T, d))], superseded |-> SupersededIn(T)]
  BY Zenon DEF Content
<1>2. Content("mvregister", S \cup T)
        = [values |-> [d \in Dots(S \cup T) |-> Json(ValueAt(S \cup T, d))],
           superseded |-> SupersededIn(S \cup T)]
  BY Zenon DEF Content
<1>3. /\ DOMAIN s.values = Dots(S) /\ DOMAIN t.values = Dots(T)
      /\ \A d \in Dots(S) : s.values[d] = Json(ValueAt(S, d))
      /\ \A d \in Dots(T) : t.values[d] = Json(ValueAt(T, d))
      /\ s.superseded = SupersededIn(S) /\ t.superseded = SupersededIn(T)
  BY <1>1
<1> HIDE DEF s, t
<1>4. ~Contradict(s, t)
  BY <1>3, RegistersAgree DEF Contradict
<1>5. Dots(S \cup T) = Dots(S) \cup Dots(T)
  BY Zenon DEF Dots
<1>6. ASSUME NEW d \in Dots(S \cup T)
      PROVE  Json(ValueAt(S \cup T, d))
               = IF d \in DOMAIN t.values THEN t.values[d] ELSE s.values[d]
  <2>1. CASE d \in Dots(T)
    <3>1. PICK p \in T : p.dot = d
      BY <2>1, Zenon DEF Dots
    <3>2. ValueAt(S \cup T, d) = p.request.value /\ ValueAt(T, d) = p.request.value
      BY <3>1, ValueOfDot, Zenon
    <3> QED BY <1>3, <2>1, <3>2, Zenon
  <2>2. CASE d \notin Dots(T)
    <3>1. PICK p \in S : p.dot = d
      BY <1>5, <2>2, Zenon DEF Dots
    <3>2. ValueAt(S \cup T, d) = p.request.value /\ ValueAt(S, d) = p.request.value
      BY <3>1, ValueOfDot, Zenon
    <3> QED BY <1>3, <1>5, <2>2, <3>2, Zenon
  <2> QED BY <2>1, <2>2, Zenon
<1>7. SupersededIn(S \cup T) = SupersededIn(S) \cup SupersededIn(T)
  <2>1. SupersededIn(S) \cup SupersededIn(T) \subseteq SupersededIn(S \cup T)
    BY <1>5, Zenon DEF SupersededIn
  <2>2. ASSUME NEW d \in SupersededIn(S \cup T) PROVE d \in SupersededIn(S) \cup SupersededIn(T)
    <3>1. PICK o \in S \cup T : d \in o.saw
      BY Zenon DEF SupersededIn
    <3> QED BY <3>1, Zenon DEF SupersededIn, History
  <2> QED BY <2>1, <2>2, Zenon
<1>8. RegisterMerge(s, t) = Content("mvregister", S \cup T)
  <2>1. [d \in DOMAIN s.values \cup DOMAIN t.values |->
           IF d \in DOMAIN t.values THEN t.values[d] ELSE s.values[d]]
        = [d \in Dots(S \cup T) |-> Json(ValueAt(S \cup T, d))]
    BY <1>3, <1>5, <1>6
  <2> QED BY <1>2, <1>3, <1>7, <2>1, Zenon DEF RegisterMerge
<1> QED BY <1>4, <1>8, Zenon DEF s, t

\* A write supersedes all that its replica had seen.
LEMMA RegisterWrites ==
  ASSUME NEW S, History("mvregister", S), NEW o \in Mutation,
         o.dot \notin Dots(S), o.saw = Dots(S), History("mvregister", S \cup {o})
  PROVE  RegisterWrite(Content("mvregister", S), o.request.value, o.dot)
           = Content("mvregister", S \cup {o})
<1> DEFINE s == Content("mvregister", S)
<1>1. s = [values |-> [d \in Dots(S) |-> Json(ValueAt(S, d))], superseded |-> SupersededIn(S)]
  BY Zenon DEF Content
<1>2. Content("mvregister", S \cup {o})
        = [values |-> [d \in Dots(S \cup {o}) |-> Json(ValueAt(S \cup {o}, d))],
           superseded |-> SupersededIn(S \cup {o})]
  BY Zenon DEF Content
<1>3. /\ DOMAIN s.values = Dots(S) /\ \A d \in Dots(S) : s.values[d] = Json(ValueAt(S, d))
      /\ s.superseded = SupersededIn(S)
  BY <1>1
<1> HIDE DEF s
<1>4. Dots(S \cup {o}) = Dots(S) \cup {o.dot}
  BY Zenon DEF Dots
<1>5. ASSUME NEW d \in Dots(S \cup {o})
      PROVE  Json(ValueAt(S \cup {o}, d))
               = IF d = o.dot THEN Json(o.request.value) ELSE s.values[d]
  <2>1. CASE d = o.dot
    BY <2>1, ValueOfDot, Zenon
  <2>2. CASE d # o.dot
    <3>1. PICK p \in S : p.dot = d
      BY <1>4, <2>2, Zenon DEF Dots
    <3>2. ValueAt(S \cup {o}, d) = p.request.value /\ ValueAt(S, d) = p.request.value
      BY <3>1, ValueOfDot, Zenon
    <3> QED BY <1>3, <1>4, <2>2, <3>2, Zenon
  <2> QED BY <2>1, <2>2, Zenon
<1>6. SupersededIn(S \cup {o}) = Dots(S)
  BY <1>4 DEF SupersededIn, History
<1>7. s.superseded \cup Visible(s) = Dots(S)
  BY <1>3, Zenon DEF Visible, SupersededIn
<1>8. [d \in DOMAIN s.values \cup {o.dot} |->
         IF d = o.dot THEN Json(o.request.value) ELSE s.values[d]]
        = [d \in Dots(S \cup {o}) |-> Json(ValueAt(S \cup {o}, d))]
  BY <1>3, <1>4, <1>5, Zenon
<1> QED BY <1>2, <1>6, <1>7, <1>8, Zenon DEF RegisterWrite, s

\* Shown are the writes that no other write had seen.
LEMMA RegisterMeans ==
  ASSUME NEW S, History("mvregister", S)
  PROVE  RegisterValues(Content("mvregister", S)) = Meaning("mvregister", S)
<1> DEFINE s == Content("mvregister", S)
           Last == {v \in OpsOf(S, "write") : \A x \in OpsOf(S, "write") : v.dot \notin x.saw}
<1>1. s = [values |-> [d \in Dots(S) |-> Json(ValueAt(S, d))], superseded |-> SupersededIn(S)]
  BY Zenon DEF Content
<1>2. /\ DOMAIN s.values = Dots(S) /\ s.superseded = SupersededIn(S)
      /\ \A d \in Dots(S) : FromJson(s.values[d]) = ValueAt(S, d)
  BY <1>1 DEF FromJson, Json
<1>3. OpsOf(S, "write") = S
  <2>1. ASSUME NEW o \in S PROVE o.request.operation = "write"
    <3>1. o.request \in Requests /\ o.request.type = "mvregister"
      BY Zenon DEF History, Mutation
    <3> QED BY <3>1, RequestShape, Zenon
  <2> QED BY <2>1, Zenon DEF OpsOf
<1>4. Meaning("mvregister", S) = {<<w.dot, w.request.value>> : w \in Last}
  BY Zenon DEF Meaning
<1> HIDE DEF s
<1>5. Visible(s) = {w.dot : w \in Last}
  <2>1. Visible(s) = {d \in Dots(S) : \A o \in S : d \notin o.saw}
    BY <1>2, Zenon DEF Visible, SupersededIn
  <2> QED BY <1>3, <2>1 DEF Dots
<1>6. \A w \in Last : w \in S
  BY <1>3, Zenon
<1> HIDE DEF Last
<1>7. \A w \in Last : FromJson(s.values[w.dot]) = w.request.value
  BY <1>2, <1>6, ValueOfDot, Zenon
<1>8. RegisterValues(s) = {<<w.dot, w.request.value>> : w \in Last}
  BY <1>5, <1>7 DEF RegisterValues
<1> QED BY <1>4, <1>8, Zenon DEF s

-----------------------------------------------------------------------------
(* All types *)

LEMMA HistoriesMerge ==
  ASSUME NEW type, NEW S, NEW T, History(type, S), History(type, T), Compatible(S, T)
  PROVE  History(type, S \cup T)
<1>1. IsFiniteSet(S \cup T) /\ S \cup T \subseteq Mutation
  BY FS_Union, Zenon DEF History
<1>2. \A o \in S \cup T : o.request.type = type
  BY Zenon DEF History
<1>3. \A o, p \in S \cup T : o.dot = p.dot => o = p
  BY Zenon DEF History, Compatible
<1>4. \A o \in S \cup T : o.saw \subseteq Dots(S \cup T)
  BY DEF History, Dots
<1> QED BY <1>1, <1>2, <1>3, <1>4, Zenon DEF History

LEMMA HistoryGrows ==
  ASSUME NEW type, NEW S, History(type, S), NEW o \in Mutation, o.request.type = type,
         o.dot \notin Dots(S), o.saw = Dots(S)
  PROVE  History(type, S \cup {o})
<1>1. IsFiniteSet(S \cup {o}) /\ S \cup {o} \subseteq Mutation
  BY FS_AddElement, Zenon DEF History
<1>2. \A p \in S \cup {o} : p.request.type = type
  BY Zenon DEF History
<1>3. \A p, q \in S \cup {o} : p.dot = q.dot => p = q
  BY Zenon DEF History, Dots
<1>4. \A p \in S \cup {o} : p.saw \subseteq Dots(S \cup {o})
  BY DEF History, Dots
<1> QED BY <1>1, <1>2, <1>3, <1>4, Zenon DEF History

\* A key without mutations is empty.
LEMMA ContentOfNone ==
  ASSUME NEW type \in CrdtType
  PROVE  EmptyState(type) = Content(type, {}) /\ History(type, {})
<1>1. History(type, {})
  BY FS_EmptySet, Zenon DEF History, Dots
<1>2. \A operation : CounterOf({}, operation) = NoCounter
  <2>1. ASSUME NEW operation, NEW n \in Nodes PROVE Total(At({}, n), operation) = 0
    <3>1. OpsOf(At({}, n), operation) = {}
      BY Zenon DEF OpsOf, At
    <3> QED BY <3>1, SumOfNone, Zenon DEF Total
  <2> QED BY <2>1, Zenon DEF CounterOf, NoCounter
<1>3. CASE type \in {"gcounter", "pncounter"}
  BY <1>1, <1>2, <1>3 DEF EmptyState, Content
<1>4. CASE type = "orset"
  <2>1. \A e : AddedIn({}, e) = {}
    BY Zenon DEF AddedIn, Dots
  <2>2. RemovedIn({}) = {}
    BY Zenon DEF RemovedIn, Dots
  <2> QED BY <1>1, <1>4, <2>1, <2>2, Zenon DEF EmptyState, Content
<1>5. CASE type = "mvregister"
  <2>1. Dots({}) = {} /\ SupersededIn({}) = {}
    BY Zenon DEF Dots, SupersededIn
  <2>2. [d \in {} |-> Json(d)] = [d \in Dots({}) |-> Json(ValueAt({}, d))]
    BY <2>1, Zenon
  <2> QED BY <1>1, <1>5, <2>1, <2>2, Zenon DEF EmptyState, Content
<1> QED BY <1>3, <1>4, <1>5, Zenon DEF CrdtType

\* merge() of every type: the states of two sets of mutations make the state of
\* their union.  So merging commutes, associates and repeats without effect, and the
\* order in which replicas hear of mutations does not show.
THEOREM ContentsMerge ==
  ASSUME NEW type \in CrdtType, NEW S, NEW T, History(type, S), History(type, T), Compatible(S, T)
  PROVE  /\ MergeState(type, Content(type, S), Content(type, T)) = Content(type, S \cup T)
         /\ type = "mvregister" => ~Contradict(Content(type, S), Content(type, T))
<1>1. /\ S \subseteq Mutation /\ IsFiniteSet(S) /\ T \subseteq Mutation /\ IsFiniteSet(T)
  BY Zenon DEF History
<1>2. \A operation : CounterMerge(CounterOf(S, operation), CounterOf(T, operation))
                       = CounterOf(S \cup T, operation)
  BY <1>1, CounterMerges, Zenon
<1>3. CASE type = "gcounter"
  BY <1>2, <1>3, Zenon DEF MergeState, Content
<1>4. CASE type = "pncounter"
  BY <1>2, <1>4 DEF MergeState, Content, PNCounterMerge
<1>5. CASE type = "orset"
  BY <1>5, SetMerges, Zenon DEF MergeState
<1>6. CASE type = "mvregister"
  BY <1>6, HistoriesMerge, RegisterMerges, Zenon DEF MergeState
<1> QED BY <1>3, <1>4, <1>5, <1>6, Zenon DEF CrdtType

LEMMA PNCounterIs ==
  ASSUME NEW c, NEW P, NEW Q, c = [positive |-> P, negative |-> Q], NEW n, NEW amount
  PROVE  /\ PNCounterIncrement(c, n, amount)
              = [positive |-> CounterIncrement(P, n, amount), negative |-> Q]
         /\ PNCounterDecrement(c, n, amount)
              = [positive |-> P, negative |-> CounterIncrement(Q, n, amount)]
<1>1. ASSUME NEW d
      PROVE  /\ [[positive |-> P, negative |-> Q] EXCEPT !.positive = d]
                  = [positive |-> d, negative |-> Q]
             /\ [[positive |-> P, negative |-> Q] EXCEPT !.negative = d]
                  = [positive |-> P, negative |-> d]
  OBVIOUS
<1> QED BY <1>1, Zenon DEF PNCounterIncrement, PNCounterDecrement

\* The mutations of every type: a mutation at a replica, which has seen S, makes the
\* state of S of the state of S and the mutation.
THEOREM ContentsMutate ==
  ASSUME NEW type \in CrdtType, NEW S, History(type, S), NEW o \in Mutation,
         o.request.type = type, o.dot \notin Dots(S), o.saw = Dots(S)
  PROVE  ApplyMutation(Content(type, S), o.request, o.dot[1], o.dot) = Content(type, S \cup {o})
<1>1. S \subseteq Mutation /\ IsFiniteSet(S) /\ o \notin S
  BY Zenon DEF History, Dots
<1>2. \A operation :
        CounterOf(S \cup {o}, operation)
           = IF o.request.operation = operation
             THEN CounterIncrement(CounterOf(S, operation), o.dot[1], o.request.amount)
             ELSE CounterOf(S, operation)
  BY <1>1, CounterIncrements, Zenon
<1>3. History(type, S \cup {o})
  BY HistoryGrows, Zenon
<1>4. o.request \in Requests
  BY Zenon DEF Mutation
<1>5. CASE type = "gcounter"
  <2>1. o.request.operation = "increment"
    BY <1>4, <1>5, RequestShape, Zenon
  <2> QED BY <1>2, <1>5, <2>1 DEF ApplyMutation, Content
<1>6. CASE type = "pncounter"
  <2>1. Content(type, S) = [positive |-> CounterOf(S, "increment"),
                            negative |-> CounterOf(S, "decrement")]
    BY <1>6, Zenon DEF Content
  <2>2. Content(type, S \cup {o}) = [positive |-> CounterOf(S \cup {o}, "increment"),
                                     negative |-> CounterOf(S \cup {o}, "decrement")]
    BY <1>6, Zenon DEF Content
  <2>3. CASE o.request.operation = "increment"
    <3>1. ApplyMutation(Content(type, S), o.request, o.dot[1], o.dot)
            = PNCounterIncrement(Content(type, S), o.dot[1], o.request.amount)
      BY <1>6, <2>3, Zenon DEF ApplyMutation
    <3>2. /\ CounterOf(S \cup {o}, "increment")
               = CounterIncrement(CounterOf(S, "increment"), o.dot[1], o.request.amount)
          /\ CounterOf(S \cup {o}, "decrement") = CounterOf(S, "decrement")
      BY <1>2, <2>3, Zenon
    <3>3. PNCounterIncrement(Content(type, S), o.dot[1], o.request.amount)
            = [positive |-> CounterIncrement(CounterOf(S, "increment"), o.dot[1], o.request.amount),
               negative |-> CounterOf(S, "decrement")]
      BY <2>1, PNCounterIs
    <3> QED BY <2>2, <3>1, <3>2, <3>3, Zenon
  <2>4. CASE o.request.operation = "decrement"
    <3>1. ApplyMutation(Content(type, S), o.request, o.dot[1], o.dot)
            = PNCounterDecrement(Content(type, S), o.dot[1], o.request.amount)
      BY <1>6, <2>4, Zenon DEF ApplyMutation
    <3>2. /\ CounterOf(S \cup {o}, "decrement")
               = CounterIncrement(CounterOf(S, "decrement"), o.dot[1], o.request.amount)
          /\ CounterOf(S \cup {o}, "increment") = CounterOf(S, "increment")
      BY <1>2, <2>4, Zenon
    <3>3. PNCounterDecrement(Content(type, S), o.dot[1], o.request.amount)
            = [positive |-> CounterOf(S, "increment"),
               negative |-> CounterIncrement(CounterOf(S, "decrement"), o.dot[1], o.request.amount)]
      BY <2>1, PNCounterIs
    <3> QED BY <2>2, <3>1, <3>2, <3>3, Zenon
  <2> QED BY <1>4, <1>6, <2>3, <2>4, RequestShape, Zenon
<1>7. CASE type = "orset"
  <2>1. CASE o.request.operation = "add"
    BY <1>7, <2>1, SetAdds, Zenon DEF ApplyMutation
  <2>2. CASE o.request.operation = "remove"
    BY <1>7, <2>2, SetRemoves, Zenon DEF ApplyMutation
  <2> QED BY <1>4, <1>7, <2>1, <2>2, RequestShape, Zenon
<1>8. CASE type = "mvregister"
  <2>1. o.request.operation = "write"
    BY <1>4, <1>8, RequestShape, Zenon
  <2> QED BY <1>3, <1>8, <2>1, RegisterWrites, Zenon DEF ApplyMutation
<1> QED BY <1>5, <1>6, <1>7, <1>8, Zenon DEF CrdtType

\* value() of every type shows what the mutations say.
THEOREM ContentsMean ==
  ASSUME NEW type \in CrdtType, NEW S, History(type, S)
  PROVE  Materialize(type, Content(type, S)) = Meaning(type, S)
<1>1. S \subseteq Mutation /\ IsFiniteSet(S)
  BY Zenon DEF History
<1>2. \A operation : CounterValue(CounterOf(S, operation)) = Total(S, operation)
  BY <1>1, CounterMeans, Zenon
<1>3. CASE type = "gcounter"
  BY <1>2, <1>3, Zenon DEF Materialize, Content, Meaning
<1>4. CASE type = "pncounter"
  <2>1. Materialize(type, Content(type, S))
          = CounterValue(CounterOf(S, "increment")) - CounterValue(CounterOf(S, "decrement"))
    BY <1>4, Zenon DEF Materialize, Content, PNCounterValue
  <2>2. Meaning(type, S) = Total(S, "increment") - Total(S, "decrement")
    BY <1>4, Zenon DEF Meaning
  <2> QED BY <1>2, <2>1, <2>2
<1>5. CASE type = "orset"
  BY <1>5, SetMeans, Zenon DEF Materialize
<1>6. CASE type = "mvregister"
  BY <1>6, RegisterMeans, Zenon DEF Materialize
<1> QED BY <1>3, <1>4, <1>5, <1>6, Zenon DEF CrdtType

-----------------------------------------------------------------------------
(* Encodings *)

LEMMA ComponentsRoundTrip ==
  ASSUME NEW c \in [Nodes -> Nat]
  PROVE  ComponentsFromProto(ComponentsToProto(c)) = c
<1> DEFINE p == ComponentsToProto(c)
<1>1. ASSUME NEW n \in Nodes, c[n] > 0
      PROVE  (\E i \in p : i.actor = n) /\ (CHOOSE i \in p : i.actor = n).value = c[n]
  <2>1. [actor |-> n, value |-> c[n]] \in p
    BY <1>1, Zenon DEF ComponentsToProto
  <2>2. \A i \in p : i.actor = n => i.value = c[n]
    BY DEF ComponentsToProto
  <2>3. \E i \in p : i.actor = n
    BY <2>1, Zenon
  <2> HIDE DEF p
  <2> QED BY <2>2, <2>3, Zenon
<1>2. ASSUME NEW n \in Nodes, ~(c[n] > 0) PROVE ~(\E i \in p : i.actor = n) /\ c[n] = 0
  BY <1>2 DEF ComponentsToProto
<1> HIDE DEF p
<1>3. \A n \in Nodes : (IF \E i \in p : i.actor = n THEN (CHOOSE i \in p : i.actor = n).value
                        ELSE 0) = c[n]
  BY <1>1, <1>2, Zenon
<1>4. ComponentsFromProto(p) = [n \in Nodes |-> c[n]]
  BY <1>3, Zenon DEF ComponentsFromProto
<1> QED BY <1>4, Zenon DEF p

LEMMA VersionRoundTrip ==
  ASSUME NEW v \in [Nodes -> Nat]
  PROVE  Vectors!VersionFromProto(Vectors!VersionToProto(v)) = v
<1> DEFINE p == Vectors!VersionToProto(v)
<1>1. ASSUME NEW n \in Nodes, v[n] > 0
      PROVE  (\E i \in p : i.actor = n) /\ (CHOOSE i \in p : i.actor = n).counter = v[n]
  <2>1. [actor |-> n, counter |-> v[n]] \in p
    BY <1>1, Zenon DEF Vectors!VersionToProto
  <2>2. \A i \in p : i.actor = n => i.counter = v[n]
    BY DEF Vectors!VersionToProto
  <2>3. \E i \in p : i.actor = n
    BY <2>1, Zenon
  <2> HIDE DEF p
  <2> QED BY <2>2, <2>3, Zenon
<1>2. ASSUME NEW n \in Nodes, ~(v[n] > 0) PROVE ~(\E i \in p : i.actor = n) /\ v[n] = 0
  BY <1>2 DEF Vectors!VersionToProto
<1> HIDE DEF p
<1>3. \A n \in Nodes : (IF \E i \in p : i.actor = n THEN (CHOOSE i \in p : i.actor = n).counter
                        ELSE 0) = v[n]
  BY <1>1, <1>2, Zenon
<1>4. Vectors!VersionFromProto(p) = [n \in Nodes |-> v[n]]
  BY <1>3, Zenon DEF Vectors!VersionFromProto
<1> QED BY <1>4 DEF p

LEMMA AddsRoundTrip ==
  ASSUME NEW S
  PROVE  LET adds == [e \in Elements |-> AddedIn(S, e)]
         IN AddsFromProto(AddsToProto(adds)) = adds
<1> DEFINE adds == [e \in Elements |-> AddedIn(S, e)]
           p == AddsToProto(adds)
<1>1. ASSUME NEW e \in Elements
      PROVE  UNION {i.dots : i \in {j \in p : j.element = e}} = adds[e]
  <2>1. \A i \in p : i.element = e => i.dots = adds[e]
    BY DEF AddsToProto
  <2>2. adds[e] # {} => [element |-> e, dots |-> adds[e]] \in p
    BY Zenon DEF AddsToProto
  <2>3. ASSUME adds[e] # {} PROVE \E i \in p : i.element = e /\ i.dots = adds[e]
    BY <2>2, <2>3, Zenon
  <2> HIDE DEF p, adds
  <2>4. \A d : d \in UNION {i.dots : i \in {j \in p : j.element = e}}
               <=> \E i \in p : i.element = e /\ d \in i.dots
    OBVIOUS
  <2>5. \A d : d \in adds[e] <=> \E i \in p : i.element = e /\ d \in i.dots
    BY <2>1, <2>3, Zenon
  <2> QED BY <2>4, <2>5, Zenon
<1> HIDE DEF p
<1>2. AddsFromProto(p) = [e \in Elements |-> adds[e]]
  BY <1>1, Zenon DEF AddsFromProto
<1>3. [e \in Elements |-> adds[e]] = adds
  OBVIOUS
<1> QED BY <1>2, <1>3, Zenon DEF p

LEMMA ValuesRoundTrip ==
  ASSUME NEW D, NEW values, values = [d \in D |-> values[d]]
  PROVE  ValuesFromProto(ValuesToProto(values)) = values
<1> DEFINE p == ValuesToProto(values)
<1>1. p = {[dot |-> d, value_json |-> values[d]] : d \in D}
  BY Zenon DEF ValuesToProto
<1> HIDE DEF p
<1>2. \A d \in D : [dot |-> d, value_json |-> values[d]] \in p
  BY <1>1, Zenon
<1>3. \A i \in p : i.dot \in D /\ i.value_json = values[i.dot]
  BY <1>1
<1>4. {i.dot : i \in p} = D
  <2>1. ASSUME NEW d \in D PROVE \E i \in p : i.dot = d
    BY <1>2, Zenon
  <2> QED BY <1>3, <2>1, Zenon
<1>5. ASSUME NEW d \in D PROVE (CHOOSE i \in p : i.dot = d).value_json = values[d]
  <2>1. \E i \in p : i.dot = d
    BY <1>2, Zenon
  <2> QED BY <1>3, <2>1, Zenon
<1>6. ValuesFromProto(p) = [d \in D |-> values[d]]
  BY <1>4, <1>5 DEF ValuesFromProto
<1> QED BY <1>6, Zenon DEF p

\* What a peer or a restart decodes is the entry that was encoded.
LEMMA StateRoundTrip ==
  ASSUME NEW e, NEW S, e.type \in CrdtType, e.version \in [Nodes -> Nat],
         e = [type |-> e.type, state |-> Content(e.type, S), version |-> e.version],
         S \subseteq Mutation, IsFiniteSet(S)
  PROVE  /\ StateFromProto(StateToProto(e)) \subseteq {e}
         /\ DecodeEntry(EncodeEntry(e)) = e
<1> DEFINE p == StateToProto(e)
           r == EncodeEntry(e)
           c == Content(e.type, S)
           f == FieldsToProto(e.type, c)
<1>1. e.state = c
  OBVIOUS
<1>2. /\ p.crdt_type = e.type
      /\ Vectors!VersionFromProto(p.state_version) = e.version
      /\ p.state = Oneof(e.type, FieldsToProto(e.type, e.state))
      /\ r.crdt_type = e.type /\ DecodeVersionVector(r.state_version_json) = e.version
      /\ r.state_json = EncodeCrdtState(e.type, e.state)
  BY VersionRoundTrip
    , Zenon DEF StateToProto, EncodeEntry, DecodeVersionVector, EncodeVersionVector, Json, FromJson
<1>3. \A operation : CounterOf(S, operation) \in [Nodes -> Nat]
  BY CounterTyped, Zenon
<1>4. \A operation : ComponentsFromProto(ComponentsToProto(CounterOf(S, operation)))
                       = CounterOf(S, operation)
  BY <1>3, ComponentsRoundTrip, Zenon
<1> HIDE DEF p, r, c
<1>5. FieldsFromProto(e.type, f) = c /\ DecodeCrdtState(e.type, EncodeCrdtState(e.type, c)) = c
  <2>1. CASE e.type = "gcounter"
    <3>1. c = CounterOf(S, "increment")
      BY <2>1, Zenon DEF Content, c
    <3>2. f = <<ComponentsToProto(c)>>
      BY <2>1, Zenon DEF FieldsToProto
    <3> HIDE DEF f
    <3>3. FieldsFromProto(e.type, f) = ComponentsFromProto(f[1])
      BY <2>1, Zenon DEF FieldsFromProto
    <3>4. DecodeCrdtState(e.type, EncodeCrdtState(e.type, c))
            = ComponentsFromProto(ComponentsToProto(c))
      BY <2>1, Zenon DEF DecodeCrdtState, EncodeCrdtState, Json, FromJson
    <3> QED BY <1>4, <3>1, <3>2, <3>3, <3>4
  <2>2. CASE e.type = "pncounter"
    <3>1. c = [positive |-> CounterOf(S, "increment"), negative |-> CounterOf(S, "decrement")]
      BY <2>2, Zenon DEF Content, c
    <3>2. f = <<ComponentsToProto(c.positive), ComponentsToProto(c.negative)>>
      BY <2>2, Zenon DEF FieldsToProto
    <3> HIDE DEF f
    <3>3. FieldsFromProto(e.type, f) = [positive |-> ComponentsFromProto(f[1]),
                                        negative |-> ComponentsFromProto(f[2])]
      BY <2>2, Zenon DEF FieldsFromProto
    <3>4. DecodeCrdtState(e.type, EncodeCrdtState(e.type, c))
            = [positive |-> ComponentsFromProto(ComponentsToProto(c.positive)),
               negative |-> ComponentsFromProto(ComponentsToProto(c.negative))]
      BY <2>2, Zenon DEF DecodeCrdtState, EncodeCrdtState, Json, FromJson
    <3>5. /\ ComponentsFromProto(ComponentsToProto(c.positive)) = c.positive
          /\ ComponentsFromProto(ComponentsToProto(c.negative)) = c.negative
      BY <1>4, <3>1, Zenon
    <3> QED BY <3>1, <3>2, <3>3, <3>4, <3>5
  <2>3. CASE e.type = "orset"
    <3>1. c = [adds |-> [x \in Elements |-> AddedIn(S, x)], removed |-> RemovedIn(S)]
      BY <2>3, Zenon DEF Content, c
    <3>2. f = <<AddsToProto(c.adds), c.removed>>
      BY <2>3, Zenon DEF FieldsToProto
    <3> HIDE DEF f
    <3>3. FieldsFromProto(e.type, f) = [adds |-> AddsFromProto(f[1]), removed |-> f[2]]
      BY <2>3, Zenon DEF FieldsFromProto
    <3>4. DecodeCrdtState(e.type, EncodeCrdtState(e.type, c))
            = [adds |-> AddsFromProto(AddsToProto(c.adds)), removed |-> c.removed]
      BY <2>3, Zenon DEF DecodeCrdtState, EncodeCrdtState, Json, FromJson
    <3>5. AddsFromProto(AddsToProto(c.adds)) = c.adds
      BY <3>1, AddsRoundTrip, Zenon
    <3> QED BY <3>1, <3>2, <3>3, <3>4, <3>5
  <2>4. CASE e.type = "mvregister"
    <3>1. c = [values |-> [d \in Dots(S) |-> Json(ValueAt(S, d))], superseded |-> SupersededIn(S)]
      BY <2>4, Zenon DEF Content, c
    <3>2. f = <<ValuesToProto(c.values), c.superseded>>
      BY <2>4, Zenon DEF FieldsToProto
    <3> HIDE DEF f
    <3>3. FieldsFromProto(e.type, f) = [values |-> ValuesFromProto(f[1]), superseded |-> f[2]]
      BY <2>4, Zenon DEF FieldsFromProto
    <3>4. DecodeCrdtState(e.type, EncodeCrdtState(e.type, c))
            = [values |-> ValuesFromProto(ValuesToProto(c.values)), superseded |-> c.superseded]
      BY <2>4, Zenon DEF DecodeCrdtState, EncodeCrdtState, Json, FromJson
    <3>5. ValuesFromProto(ValuesToProto(c.values)) = c.values
      <4>1. c.values = [d \in Dots(S) |-> c.values[d]]
        BY <3>1, Zenon
      <4> QED BY <4>1, ValuesRoundTrip, Zenon
    <3> QED BY <3>1, <3>2, <3>3, <3>4, <3>5
  <2> QED BY <2>1, <2>2, <2>3, <2>4, Zenon DEF CrdtType
<1>6. p.state \subseteq {f}
  BY <1>1, <1>2, Zenon DEF Oneof
<1> HIDE DEF f
<1>7. DecodeEntry(r) = [type |-> r.crdt_type, state |-> DecodeCrdtState(r.crdt_type, r.state_json),
                        version |-> DecodeVersionVector(r.state_version_json)]
  BY Zenon DEF DecodeEntry
<1>8. ASSUME NEW g \in StateFromProto(p) PROVE g = e
  <2>1. g = [type |-> p.crdt_type, version |-> Vectors!VersionFromProto(p.state_version),
             state |-> FieldsFromProto(p.crdt_type, f)]
    BY <1>6, <1>8, Zenon DEF StateFromProto
  <2>2. g = [type |-> e.type, version |-> e.version, state |-> c]
    BY <1>2, <1>5, <2>1, Zenon
  <2> QED BY <1>1, <2>2, Zenon DEF c
<1>9. DecodeEntry(r) = e
  BY <1>1, <1>2, <1>5, <1>7, Zenon DEF c
<1> QED BY <1>8, <1>9, Zenon DEF p, r

\* What is not decoded is the set that nothing was added to.
LEMMA EmptyIsRefused ==
  ASSUME NEW e, NEW S, e.type \in CrdtType, History(e.type, S), S # {},
         e = [type |-> e.type, state |-> Content(e.type, S), version |-> e.version]
  PROVE  StateFromProto(StateToProto(e)) = {} <=> e.type = "orset" /\ OpsOf(S, "add") = {}
<1> DEFINE p == StateToProto(e)
           c == Content(e.type, S)
           f == FieldsToProto(e.type, c)
<1>1. e.state = c
  OBVIOUS
<1>2. p.state = Oneof(e.type, f)
  BY <1>1, Zenon DEF StateToProto
<1> HIDE DEF p, c
<1>3. StateFromProto(p) = {} <=> p.state = {}
  BY Zenon DEF StateFromProto
<1>4. p.state = {} <=> e.type \in {"orset", "mvregister"} /\ f = <<{}, {}>>
  BY <1>2, Zenon DEF Oneof
<1>5. CASE e.type = "orset"
  <2>1. c = [adds |-> [x \in Elements |-> AddedIn(S, x)], removed |-> RemovedIn(S)]
    BY <1>5, Zenon DEF Content, c
  <2>2. f = <<AddsToProto(c.adds), c.removed>>
    BY <1>5, Zenon DEF FieldsToProto
  <2> HIDE DEF f
  <2>3. f = <<{}, {}>> <=> AddsToProto(c.adds) = {} /\ c.removed = {}
    BY <2>2
  <2>4. AddsToProto(c.adds) = {} <=> \A x \in Elements : AddedIn(S, x) = {}
    <3>1. \A x \in Elements : c.adds[x] = AddedIn(S, x)
      BY <2>1
    <3> QED BY <3>1, Zenon DEF AddsToProto
  <2>5. (\A x \in Elements : AddedIn(S, x) = {}) <=> OpsOf(S, "add") = {}
    <3>1. ASSUME NEW o \in OpsOf(S, "add")
          PROVE  o.request.value \in Elements /\ o.dot \in AddedIn(S, o.request.value)
      <4>1. o \in S /\ o.request.operation = "add" /\ o.request \in Requests
        BY Zenon DEF OpsOf, History, Mutation
      <4>2. o.request.value \in Elements
        BY <4>1, RequestShape
      <4> QED BY <4>1, <4>2, Zenon DEF AddedIn, Dots
    <3>2. ASSUME NEW x \in Elements, NEW d \in AddedIn(S, x)
          PROVE  OpsOf(S, "add") # {}
      BY Zenon DEF AddedIn, Dots, OpsOf
    <3> QED BY <3>1, <3>2, Zenon
  <2>6. OpsOf(S, "add") = {} => c.removed = {}
    BY <2>1 DEF RemovedIn, OpsOf
  <2> QED BY <1>3, <1>4, <1>5, <2>3, <2>4, <2>5, <2>6, Zenon DEF p
<1>6. CASE e.type = "mvregister"
  <2>1. c = [values |-> [d \in Dots(S) |-> Json(ValueAt(S, d))], superseded |-> SupersededIn(S)]
    BY <1>6, Zenon DEF Content, c
  <2>2. f = <<ValuesToProto(c.values), c.superseded>>
    BY <1>6, Zenon DEF FieldsToProto
  <2> HIDE DEF f
  <2>3. f = <<{}, {}>> => ValuesToProto(c.values) = {}
    BY <2>2
  <2>4. ValuesToProto(c.values) # {}
    <3>1. DOMAIN c.values = Dots(S)
      BY <2>1
    <3> QED BY <3>1, Zenon DEF ValuesToProto, Dots
  <2>5. e.type # "orset"
    BY <1>6
  <2> QED BY <1>3, <1>4, <2>3, <2>4, <2>5, Zenon DEF p
<1>7. CASE e.type \notin {"orset", "mvregister"}
  BY <1>3, <1>4, <1>7, Zenon DEF p
<1> QED BY <1>5, <1>6, <1>7, Zenon

-----------------------------------------------------------------------------
(* Entries *)

LEMMA EntriesCompatible ==
  ASSUME NEW upto, NEW made, Logs(upto, made), NEW e, NEW S, NEW f, NEW T,
         EntryOf(e, S, upto, made), EntryOf(f, T, upto, made)
  PROVE  Compatible(S, T)
<1>1. S \subseteq Mutation /\ T \subseteq Mutation
  BY Zenon DEF EntryOf, History
<1>2. ASSUME NEW o \in S, NEW p \in T, o.dot = p.dot PROVE o = p
  <2>1. o.dot[1] \in Nodes
    BY <1>1, Zenon DEF Mutation
  <2>2. o \in At(S, o.dot[1]) /\ p \in At(T, o.dot[1])
    BY <1>2, Zenon DEF At
  <2>3. o \in made[o.dot[1]] /\ p \in made[o.dot[1]]
    BY <2>1, <2>2, Zenon DEF EntryOf, Covers
  <2> QED BY <1>2, <2>1, <2>3 DEF Logs
<1>3. ASSUME NEW n \in Nodes PROVE At(S, n) \subseteq At(T, n) \/ At(T, n) \subseteq At(S, n)
  <2>1. e.version[n] \in Nat /\ f.version[n] \in Nat
    BY Zenon DEF EntryOf
  <2>2. /\ At(S, n) = {o \in made[n] : o.dot[2] <= e.version[n]}
        /\ At(T, n) = {o \in made[n] : o.dot[2] <= f.version[n]}
    BY Zenon DEF EntryOf, Covers
  <2>3. \A o \in made[n] : o.dot[2] \in Nat
    BY Zenon DEF Logs, Mutation
  <2>4. CASE e.version[n] <= f.version[n]
    BY <2>1, <2>2, <2>3, <2>4
  <2>5. CASE f.version[n] <= e.version[n]
    BY <2>1, <2>2, <2>3, <2>5
  <2> QED BY <2>1, <2>4, <2>5
<1> QED BY <1>2, <1>3, Zenon DEF Compatible

LEMMA EntriesMerge ==
  ASSUME NEW upto, NEW made, Logs(upto, made), NEW e, NEW S, NEW f, NEW T, f.type = e.type,
         EntryOf(e, S, upto, made), EntryOf(f, T, upto, made)
  PROVE  EntryOf([type |-> e.type, state |-> MergeState(e.type, e.state, f.state),
                  version |-> CounterMerge(e.version, f.version)], S \cup T, upto, made)
<1> DEFINE v == CounterMerge(e.version, f.version)
           g == [type |-> e.type, state |-> MergeState(e.type, e.state, f.state), version |-> v]
<1>1. Compatible(S, T) /\ History(e.type, S) /\ History(e.type, T) /\ e.type \in CrdtType
  BY EntriesCompatible, Zenon DEF EntryOf
<1>2. History(e.type, S \cup T)
  BY <1>1, HistoriesMerge, Zenon
<1>3. MergeState(e.type, e.state, f.state) = Content(e.type, S \cup T)
  <2>1. e.state = Content(e.type, S) /\ f.state = Content(e.type, T)
    BY DEF EntryOf
  <2> QED BY <1>1, <2>1, ContentsMerge
<1>4. e.version \in [Nodes -> Nat] /\ f.version \in [Nodes -> Nat]
  BY Zenon DEF EntryOf
<1>5. v \in [Nodes -> Nat]
  BY <1>4, Zenon DEF CounterMerge
<1>6. Covers(v, S \cup T, upto, made)
  <2>1. ASSUME NEW a \in Nodes
        PROVE  /\ v[a] <= upto[a]
               /\ At(S \cup T, a) = {o \in made[a] : o.dot[2] <= v[a]}
    <3>1. At(S \cup T, a) = At(S, a) \cup At(T, a)
      BY Zenon DEF At
    <3>2. /\ At(S, a) = {o \in made[a] : o.dot[2] <= e.version[a]}
          /\ At(T, a) = {o \in made[a] : o.dot[2] <= f.version[a]}
          /\ e.version[a] <= upto[a] /\ f.version[a] <= upto[a]
      BY Zenon DEF EntryOf, Covers
    <3>3. \A o \in made[a] : o.dot[2] \in Nat
      BY Zenon DEF Logs, Mutation
    <3>4. e.version[a] \in Nat /\ f.version[a] \in Nat
      BY <1>4, Zenon
    <3>5. v[a] = IF e.version[a] < f.version[a] THEN f.version[a] ELSE e.version[a]
      BY Zenon DEF CounterMerge
    <3> HIDE DEF v
    <3>6. CASE e.version[a] < f.version[a]
      <4>1. v[a] = f.version[a]
        BY <3>5, <3>6, Zenon
      <4>2. \A o \in made[a] : o.dot[2] <= e.version[a] => o.dot[2] <= f.version[a]
        BY <3>3, <3>4, <3>6
      <4>3. At(S \cup T, a) = At(T, a)
        BY <3>1, <3>2, <4>2, Zenon
      <4> QED BY <3>2, <4>1, <4>3, Zenon
    <3>7. CASE ~(e.version[a] < f.version[a])
      <4>1. v[a] = e.version[a]
        BY <3>5, <3>7, Zenon
      <4>2. \A o \in made[a] : o.dot[2] <= f.version[a] => o.dot[2] <= e.version[a]
        BY <3>3, <3>4, <3>7
      <4>3. At(S \cup T, a) = At(S, a)
        BY <3>1, <3>2, <4>2, Zenon
      <4> QED BY <3>2, <4>1, <4>3, Zenon
    <3> QED BY <3>6, <3>7, Zenon
  <2> QED BY <2>1, Zenon DEF Covers
<1>7. g.type = e.type /\ g.version = v /\ g.state = Content(e.type, S \cup T)
      /\ g = [type |-> e.type, state |-> g.state, version |-> v]
  BY <1>3, Zenon
<1> HIDE DEF g, v
<1>8. EntryOf(g, S \cup T, upto, made)
  BY <1>1, <1>2, <1>5, <1>6, <1>7, Zenon DEF EntryOf
<1> QED BY <1>8, Zenon DEF g, v

\* A mutation of node n does not change what the versions of entries tell.
LEMMA EntryStays ==
  ASSUME NEW upto, NEW made, Logs(upto, made), NEW e, NEW S, EntryOf(e, S, upto, made),
         NEW n \in Nodes, NEW o, o.dot = <<n, upto[n] + 1>>,
         NEW upto1, upto1 = [upto EXCEPT ![n] = @ + 1],
         NEW made1, MadeOneMore(made, n, o, made1)
  PROVE  EntryOf(e, S, upto1, made1)
<1> USE DEF MadeOneMore
<1>1. ASSUME NEW a \in Nodes
      PROVE  /\ e.version[a] <= upto1[a]
             /\ At(S, a) = {p \in made1[a] : p.dot[2] <= e.version[a]}
  <2>1. e.version[a] \in Nat /\ upto[a] \in Nat /\ e.version[a] <= upto[a]
        /\ At(S, a) = {p \in made[a] : p.dot[2] <= e.version[a]}
    BY Zenon DEF EntryOf, Covers, Logs
  <2>2. upto1[a] = IF a = n THEN upto[a] + 1 ELSE upto[a]
    BY Zenon DEF Logs
  <2>3. CASE a = n
    <3>1. ~(o.dot[2] <= e.version[a])
      BY <2>1, <2>3
    <3>2. made1[a] = made[a] \cup {o}
      BY <2>3, Zenon
    <3>3. e.version[a] <= upto1[a]
      BY <2>1, <2>2, <2>3
    <3> QED BY <2>1, <3>1, <3>2, <3>3, Zenon
  <2>4. CASE a # n
    BY <2>1, <2>2, <2>4, Zenon
  <2> QED BY <2>3, <2>4, Zenon
<1> QED BY <1>1, Zenon DEF EntryOf, Covers

\* The mutation of an entry that has all earlier ones of its node.
LEMMA EntryMutates ==
  ASSUME NEW upto, NEW made, Logs(upto, made), NEW e, NEW S, EntryOf(e, S, upto, made),
         NEW n \in Nodes, NEW o \in Mutation, o.dot = <<n, upto[n] + 1>>, o.saw = Dots(S),
         o.request.type = e.type, e.version[n] = upto[n],
         NEW upto1, upto1 = [upto EXCEPT ![n] = @ + 1],
         NEW made1, MadeOneMore(made, n, o, made1)
  PROVE  EntryOf([type |-> e.type, state |-> ApplyMutation(e.state, o.request, n, o.dot),
                  version |-> [e.version EXCEPT ![n] = upto[n] + 1]], S \cup {o}, upto1, made1)
<1> USE DEF MadeOneMore
<1> DEFINE v == [e.version EXCEPT ![n] = upto[n] + 1]
           g == [type |-> e.type, state |-> ApplyMutation(e.state, o.request, n, o.dot),
                 version |-> v]
<1>1. /\ e.type \in CrdtType /\ History(e.type, S) /\ e.version \in [Nodes -> Nat]
      /\ upto \in [Nodes -> Nat] /\ e.state = Content(e.type, S)
  BY DEF EntryOf, Logs
<1>2. o.dot \notin Dots(S)
  <2>1. ASSUME NEW p \in S, p.dot = o.dot PROVE FALSE
    <3>1. p \in At(S, n) /\ p.dot[2] = upto[n] + 1
      BY <2>1 DEF At
    <3>2. p.dot[2] <= e.version[n]
      BY <3>1, Zenon DEF EntryOf, Covers
    <3> QED BY <1>1, <3>1, <3>2
  <2> QED BY <2>1, Zenon DEF Dots
<1>3. History(e.type, S \cup {o})
  BY <1>1, <1>2, HistoryGrows, Zenon
<1>4. ApplyMutation(e.state, o.request, n, o.dot) = Content(e.type, S \cup {o})
  <2>1. o.dot[1] = n
    OBVIOUS
  <2> QED BY <1>1, <1>2, <2>1, ContentsMutate
<1>5. v \in [Nodes -> Nat]
  BY <1>1
<1>6. Covers(v, S \cup {o}, upto1, made1)
  <2>1. ASSUME NEW a \in Nodes
        PROVE  /\ v[a] <= upto1[a]
               /\ At(S \cup {o}, a) = {p \in made1[a] : p.dot[2] <= v[a]}
    <3>1. /\ At(S, a) = {p \in made[a] : p.dot[2] <= e.version[a]}
          /\ e.version[a] <= upto[a]
      BY Zenon DEF EntryOf, Covers
    <3>2. CASE a = n
      <4>1. At(S \cup {o}, a) = At(S, a) \cup {o}
        BY <3>2 DEF At
      <4>2. v[a] = upto[a] + 1 /\ upto1[a] = upto[a] + 1 /\ e.version[a] = upto[a] /\ upto[a] \in Nat
        BY <1>1, <3>2, Zenon
      <4>3. made1[a] = made[a] \cup {o} /\ o.dot[2] = upto[a] + 1
        <5>1. made1[a] = made[a] \cup {o}
          BY <3>2, Zenon
        <5>2. o.dot[2] = upto[a] + 1
          BY <3>2
        <5> QED BY <5>1, <5>2, Zenon
      <4>4. \A p \in made[a] : p.dot[2] <= upto[a] /\ p.dot[2] \in Nat
        BY Zenon DEF Logs, Mutation
      <4> HIDE DEF v
      <4>5. At(S, a) = made[a]
        BY <3>1, <4>2, <4>4, Zenon
      <4>6. \A p \in made1[a] : p.dot[2] <= v[a]
        BY <4>2, <4>3, <4>4
      <4> QED BY <4>1, <4>2, <4>3, <4>5, <4>6, Zenon
    <3>3. CASE a # n
      <4>1. At(S \cup {o}, a) = At(S, a)
        BY <3>3 DEF At
      <4>2. v[a] = e.version[a] /\ upto1[a] = upto[a] /\ made1[a] = made[a]
        BY <1>1, <3>3, Zenon
      <4> QED BY <3>1, <4>1, <4>2, Zenon
    <3> QED BY <3>2, <3>3, Zenon
  <2> QED BY <2>1, Zenon DEF Covers
<1>7. g.type = e.type /\ g.version = v /\ g.state = Content(e.type, S \cup {o})
      /\ g = [type |-> e.type, state |-> g.state, version |-> v]
  BY <1>4, Zenon
<1> HIDE DEF g, v
<1>8. EntryOf(g, S \cup {o}, upto1, made1)
  BY <1>1, <1>3, <1>5, <1>6, <1>7, Zenon DEF EntryOf
<1> QED BY <1>8, Zenon DEF g, v

-----------------------------------------------------------------------------
(* Steps *)

LEMMA LogsHold ==
  ASSUME IndInv
  PROVE  Logs(count, Made)
<1>1. ASSUME NEW a \in Nodes
      PROVE  /\ Made[a] \subseteq Mutation
             /\ \A o \in Made[a] : o.dot[1] = a /\ o.dot[2] <= count[a]
             /\ \A o, p \in Made[a] : o.dot = p.dot => o = p
  <2>1. Made[a] = At(seen[a], a) /\ Made[a] \subseteq seen[a] /\ \A o \in Made[a] : o.dot[1] = a
    BY Zenon DEF Made, At
  <2>2. CASE seen[a] = {}
    BY <2>1, <2>2, Zenon
  <2>3. CASE EntryOf(entry[a], seen[a], count, Made)
    <3>1. /\ seen[a] \subseteq Mutation
          /\ \A o, p \in seen[a] : o.dot = p.dot => o = p
      BY <2>3, Zenon DEF EntryOf, History
    <3>2. At(seen[a], a) = {o \in Made[a] : o.dot[2] <= entry[a].version[a]}
      BY <2>3, Zenon DEF EntryOf, Covers
    <3>3. entry[a].version[a] = count[a]
      BY Zenon DEF IndInv
    <3> QED BY <2>1, <3>1, <3>2, <3>3, Zenon
  <2> QED BY <2>2, <2>3, Zenon DEF IndInv
<1>2. count \in [Nodes -> Nat]
  BY Zenon DEF IndInv
<1> QED BY <1>1, <1>2, Zenon DEF Logs

LEMMA Blank ==
  ASSUME NEW upto, NEW made, Logs(upto, made), NEW type \in CrdtType
  PROVE  EntryOf([type |-> type, state |-> EmptyState(type), version |-> NoCounter], {}, upto, made)
<1>1. EmptyState(type) = Content(type, {}) /\ History(type, {})
  BY ContentOfNone, Zenon
<1>2. NoCounter \in [Nodes -> Nat]
  BY Zenon DEF NoCounter
<1>3. Covers(NoCounter, {}, upto, made)
  <2>1. ASSUME NEW a \in Nodes
        PROVE  NoCounter[a] <= upto[a] /\ At({}, a) = {o \in made[a] : o.dot[2] <= NoCounter[a]}
    <3>1. NoCounter[a] = 0 /\ upto[a] \in Nat
      BY Zenon DEF NoCounter, Logs
    <3>2. \A o \in made[a] : o.dot[2] \in Nat \ {0}
      BY Zenon DEF Logs, Mutation
    <3>3. \A o \in made[a] : ~(o.dot[2] <= 0)
      BY <3>2
    <3> QED BY <3>1, <3>3 DEF At
  <2> QED BY <2>1, Zenon DEF Covers
<1> DEFINE g == [type |-> type, state |-> EmptyState(type), version |-> NoCounter]
<1>4. g.type = type /\ g.version = NoCounter
      /\ g = [type |-> type, state |-> Content(type, {}), version |-> NoCounter]
  BY <1>1, Zenon
<1> HIDE DEF g
<1>5. EntryOf(g, {}, upto, made)
  BY <1>1, <1>2, <1>3, <1>4, Zenon DEF EntryOf
<1> QED BY <1>5, Zenon DEF g

LEMMA NoEntryFields ==
  /\ NoEntry.type = "none" /\ NoEntry.version = NoCounter /\ "none" \notin CrdtType
  /\ \A a \in Nodes : NoEntry.version[a] = 0
  BY Zenon DEF NoEntry, CrdtType, NoCounter

\* An entry has no type before the first mutation or merge.
LEMMA PresentEntry ==
  ASSUME IndInv, NEW n \in Nodes
  PROVE  /\ Present(n) => EntryOf(entry[n], seen[n], count, Made) /\ seen[n] # {}
         /\ ~Present(n) => entry[n] = NoEntry /\ seen[n] = {} /\ count[n] = 0
<1>1. CASE entry[n] = NoEntry /\ seen[n] = {}
  <2>1. entry[n].version[n] = count[n]
    BY DEF IndInv
  <2> QED BY <1>1, <2>1, NoEntryFields, Zenon DEF Present
<1>2. CASE EntryOf(entry[n], seen[n], count, Made) /\ seen[n] # {}
  BY <1>2, NoEntryFields, Zenon DEF Present, EntryOf
<1> QED BY <1>1, <1>2, Zenon DEF IndInv

LEMMA MergeStep ==
  ASSUME IndInv, NEW n \in Nodes, NEW e, NEW T, EntryOf(e, T, count, Made), T # {},
         MergeEntry(n, e, T)
  PROVE  IndInv'
<1>1. Logs(count, Made)
  BY LogsHold, Zenon
<1>2. count' = count /\ sent' = sent
  BY Zenon DEF MergeEntry
<1>3. /\ DOMAIN seen' = Nodes
      /\ \A a \in Nodes : seen'[a] = IF a = n THEN seen[a] \cup T ELSE seen[a]
  BY Zenon DEF MergeEntry, IndInv
<1>4. /\ DOMAIN entry' = Nodes
      /\ \A a \in Nodes : a # n => entry'[a] = entry[a]
      /\ entry'[n] = IF ~Present(n) THEN e
                     ELSE [type |-> entry[n].type,
                           state |-> MergeState(entry[n].type, entry[n].state, e.state),
                           version |-> CounterMerge(entry[n].version, e.version)]
  BY Zenon DEF MergeEntry, IndInv
<1>5. Made' = Made
  <2>1. ASSUME NEW a \in Nodes PROVE At(seen'[a], a) = At(seen[a], a)
    <3>1. CASE a = n
      <4>1. At(seen'[n], n) = At(seen[n], n) \cup At(T, n)
        BY <1>3, Zenon DEF At
      <4>2. At(T, n) \subseteq Made[n]
        BY Zenon DEF EntryOf, Covers
      <4>3. Made[n] = At(seen[n], n)
        BY Zenon DEF Made
      <4> QED BY <3>1, <4>1, <4>2, <4>3, Zenon
    <3>2. CASE a # n
      BY <1>3, <3>2, Zenon
    <3> QED BY <3>1, <3>2, Zenon
  <2> QED BY <2>1, Zenon DEF Made
<1>6. EntryOf(entry'[n], seen'[n], count, Made) /\ entry'[n].version[n] = count[n]
  <2>1. /\ e.version[n] \in Nat /\ e.version[n] <= count[n] /\ count[n] \in Nat
    <3>1. e.version \in [Nodes -> Nat] /\ Covers(e.version, T, count, Made)
      BY Zenon DEF EntryOf
    <3> QED BY <3>1, Zenon DEF Covers, IndInv
  <2>2. CASE Present(n)
    <3>1. EntryOf(entry[n], seen[n], count, Made) /\ e.type = entry[n].type
      BY <2>2, PresentEntry, Zenon DEF MergeEntry
    <3>2. EntryOf(entry'[n], seen[n] \cup T, count, Made)
      BY <1>1, <1>4, <2>2, <3>1, EntriesMerge
    <3>3. entry[n].version[n] = count[n]
      BY Zenon DEF IndInv
    <3>4. entry'[n].version = CounterMerge(entry[n].version, e.version)
      BY <1>4, <2>2
    <3>5. entry'[n].version[n] = IF entry[n].version[n] < e.version[n] THEN e.version[n]
                                 ELSE entry[n].version[n]
      BY <3>4, Zenon DEF CounterMerge
    <3>6. seen'[n] = seen[n] \cup T
      BY <1>3, Zenon
    <3> QED BY <2>1, <3>2, <3>3, <3>5, <3>6
  <2>3. CASE ~Present(n)
    <3>1. seen[n] = {} /\ count[n] = 0
      BY <2>3, PresentEntry, Zenon
    <3>2. entry'[n] = e
      BY <1>4, <2>3, Zenon
    <3>3. seen'[n] = T
      BY <1>3, <3>1, Zenon
    <3> QED BY <2>1, <3>1, <3>2, <3>3
  <2> QED BY <2>2, <2>3, Zenon
<1>7. ASSUME NEW a \in Nodes
      PROVE  /\ \/ entry'[a] = NoEntry /\ seen'[a] = {}
                \/ EntryOf(entry'[a], seen'[a], count', Made') /\ seen'[a] # {}
             /\ entry'[a].version[a] = count'[a]
  <2>1. CASE a = n
    BY <1>2, <1>3, <1>5, <1>6, <2>1, Zenon
  <2>2. CASE a # n
    <3>1. seen'[a] = seen[a] /\ entry'[a] = entry[a]
      BY <1>3, <1>4, <2>2, Zenon
    <3> QED BY <1>2, <1>5, <3>1, Zenon DEF IndInv
  <2> QED BY <2>1, <2>2, Zenon
<1>8. \A t \in CrdtType : \A m \in sent'[t] : \A f \in StateFromProto(m.message) :
        f.type = t /\ EntryOf(f, m.ops, count', Made') /\ m.ops # {}
  BY <1>2, <1>5, Zenon DEF IndInv
<1>9. count' \in [Nodes -> Nat] /\ DOMAIN sent' = CrdtType /\ RefusedIsEmpty'
  BY <1>2, Zenon DEF IndInv, RefusedIsEmpty
<1> QED BY <1>3, <1>4, <1>7, <1>8, <1>9, Zenon DEF IndInv

\* The entry that a mutation with this dot and counter makes of e.
MutatedEntry(e, r, n, dot, counter) ==
  [type |-> e.type, state |-> ApplyMutation(e.state, r, n, dot),
   version |-> [e.version EXCEPT ![n] = counter]]

\* A mutation advances the node's own component of the version.
LEMMA MutatedVersion ==
  ASSUME NEW e, NEW r, NEW n, NEW dot, NEW counter
  PROVE  MutatedEntry(e, r, n, dot, counter).version = [e.version EXCEPT ![n] = counter]
BY Zenon DEF MutatedEntry

LEMMA MutateStep ==
  ASSUME IndInv, NEW n \in Nodes, NEW r \in Requests, Mutate(n, r)
  PROVE  IndInv'
<1> DEFINE dot == <<n, count[n] + 1>>
           o == [dot |-> dot, request |-> r, saw |-> Dots(seen[n])]
           e == IF Present(n) THEN entry[n]
                ELSE [type |-> r.type, state |-> EmptyState(r.type), version |-> NoCounter]
<1>1. Logs(count, Made)
  BY LogsHold, Zenon
<1>2. DecodeMutationRequest(EncodeMutationRequest(r)) = r
  BY RequestRoundTrip, Zenon
<1>3. r.type \in CrdtType
  BY RequestShape, Zenon DEF CrdtType
<1>4. EntryOf(e, seen[n], count, Made) /\ e.type = r.type /\ e.version = entry[n].version
  <2>1. CASE Present(n)
    BY <1>2, <2>1, PresentEntry, Zenon DEF Mutate
  <2>2. CASE ~Present(n)
    <3>1. e = [type |-> r.type, state |-> EmptyState(r.type), version |-> NoCounter]
      BY <2>2, Zenon
    <3>2. entry[n] = NoEntry /\ seen[n] = {}
      BY <2>2, PresentEntry
    <3>3. EntryOf(e, {}, count, Made)
      BY <1>1, <1>3, <3>1, Blank, Zenon
    <3>4. e.type = r.type /\ e.version = NoCounter
      BY <3>1
    <3> HIDE DEF e
    <3> QED BY <3>2, <3>3, <3>4, NoEntryFields, Zenon
  <2> QED BY <2>1, <2>2, Zenon
<1>5. e.state = IF Present(n) THEN entry[n].state ELSE EmptyState(r.type)
  OBVIOUS
<1>6. count[n] \in Nat /\ e.version[n] = count[n]
  BY <1>4, Zenon DEF IndInv
<1>7. o \in Mutation /\ o.dot = dot /\ o.request = r /\ o.saw = Dots(seen[n])
  <2>1. Dots(seen[n]) \subseteq Nodes \X Nat
    <3>1. seen[n] \subseteq Mutation
      BY <1>4, Zenon DEF EntryOf, History
    <3>2. \A p \in Mutation : p.dot \in Nodes \X Nat
      BY Zenon DEF Mutation
    <3> QED BY <3>1, <3>2, Zenon DEF Dots
  <2>2. dot \in Nodes \X (Nat \ {0})
    BY <1>6
  <2> QED BY <2>1, <2>2, Zenon DEF Mutation
<1>8. /\ count' = [count EXCEPT ![n] = @ + 1] /\ sent' = sent
      /\ DOMAIN seen' = Nodes /\ DOMAIN entry' = Nodes
      /\ \A a \in Nodes : a # n => entry'[a] = entry[a]
  BY Zenon DEF Mutate, IndInv
<1>9. seen'[n] = seen[n] \cup {o} /\ \A a \in Nodes : a # n => seen'[a] = seen[a]
  BY Zenon DEF Mutate, IndInv, Dots
<1>10. entry'[n] = MutatedEntry(e, o.request, n, o.dot, count[n] + 1)
  <2>1. entry'[n] = [type |-> r.type,
                     state |-> ApplyMutation(IF Present(n) THEN entry[n].state
                                             ELSE EmptyState(r.type), r, n, dot),
                     version |-> [entry[n].version EXCEPT ![n] = dot[2]]]
    BY <1>2, Zenon DEF Mutate, IndInv
  <2>2. dot[2] = count[n] + 1
    OBVIOUS
  <2> HIDE DEF e, o, dot
  <2> QED BY <1>4, <1>5, <1>7, <2>1, <2>2, Zenon DEF MutatedEntry
<1> HIDE DEF e, o
<1>11. MadeOneMore(Made, n, o, Made')
  <2>1. At(seen'[n], n) = At(seen[n], n) \cup {o}
    BY <1>7, <1>9 DEF At
  <2> QED BY <1>9, <2>1, Zenon DEF Made, MadeOneMore
<1>12. \A f, S : EntryOf(f, S, count, Made) => EntryOf(f, S, count', Made')
  <2>1. o.dot = <<n, count[n] + 1>>
    BY <1>7, Zenon
  <2> QED BY <1>1, <1>8, <1>11, <2>1, EntryStays, Zenon
<1>13. EntryOf(entry'[n], seen'[n], count', Made')
  <2>1. o.dot = <<n, count[n] + 1>> /\ o.request.type = e.type
    BY <1>4, <1>7, Zenon
  <2>2. EntryOf([type |-> e.type, state |-> ApplyMutation(e.state, o.request, n, o.dot),
                 version |-> [e.version EXCEPT ![n] = count[n] + 1]],
                seen[n] \cup {o}, count', Made')
    BY <1>1, <1>4, <1>6, <1>7, <1>8, <1>11, <2>1, EntryMutates, Zenon
  <2> QED BY <1>9, <1>10, <2>2, Zenon DEF MutatedEntry
<1>14. entry'[n].version[n] = count'[n]
  <2>1. e.version \in [Nodes -> Nat]
    BY <1>4, Zenon DEF EntryOf
  <2>2. entry'[n].version = [e.version EXCEPT ![n] = count[n] + 1]
    BY <1>10, MutatedVersion
  <2>3. count'[n] = count[n] + 1
    BY <1>8, Zenon DEF IndInv
  <2> QED BY <2>1, <2>2, <2>3, Zenon
<1>15. ASSUME NEW a \in Nodes
       PROVE  /\ \/ entry'[a] = NoEntry /\ seen'[a] = {}
                 \/ EntryOf(entry'[a], seen'[a], count', Made') /\ seen'[a] # {}
              /\ entry'[a].version[a] = count'[a]
  <2>1. CASE a = n
    BY <1>9, <1>13, <1>14, <2>1, Zenon
  <2>2. CASE a # n
    <3>1. seen'[a] = seen[a] /\ entry'[a] = entry[a]
      BY <1>8, <1>9, <2>2, Zenon
    <3>2. count'[a] = count[a]
      BY <1>8, <2>2, Zenon DEF IndInv
    <3>3. /\ \/ entry[a] = NoEntry /\ seen[a] = {}
             \/ EntryOf(entry[a], seen[a], count, Made) /\ seen[a] # {}
          /\ entry[a].version[a] = count[a]
      BY Zenon DEF IndInv
    <3> QED BY <1>12, <3>1, <3>2, <3>3, Zenon
  <2> QED BY <2>1, <2>2, Zenon
<1>16. \A t \in CrdtType : \A m \in sent'[t] : \A f \in StateFromProto(m.message) :
        f.type = t /\ EntryOf(f, m.ops, count', Made') /\ m.ops # {}
  BY <1>8, <1>12, Zenon DEF IndInv
<1>17. count' \in [Nodes -> Nat] /\ DOMAIN sent' = CrdtType
  BY <1>8 DEF IndInv
<1>18. RefusedIsEmpty'
  BY <1>8, Zenon DEF IndInv, RefusedIsEmpty
<1> QED BY <1>8, <1>15, <1>16, <1>17, <1>18, Zenon DEF IndInv

LEMMA ReplicateStep ==
  ASSUME IndInv, NEW n \in Nodes, Replicate(n)
  PROVE  IndInv'
<1> DEFINE x == [message |-> StateToProto(entry[n]), ops |-> seen[n]]
<1>1. EntryOf(entry[n], seen[n], count, Made) /\ seen[n] # {}
  BY PresentEntry, Zenon DEF Replicate
<1>2. /\ StateFromProto(StateToProto(entry[n])) \subseteq {entry[n]}
      /\ entry[n].type \in CrdtType
      /\ StateFromProto(StateToProto(entry[n])) = {}
           <=> entry[n].type = "orset" /\ OpsOf(seen[n], "add") = {}
  BY <1>1, StateRoundTrip, EmptyIsRefused, Zenon DEF EntryOf, History
<1>3. entry' = entry /\ count' = count /\ seen' = seen /\ Made' = Made
  BY Zenon DEF Replicate, Made
<1>4. /\ DOMAIN sent' = CrdtType
      /\ \A t \in CrdtType : sent'[t] = IF t = entry[n].type THEN sent[t] \cup {x} ELSE sent[t]
  BY <1>2, Zenon DEF Replicate, IndInv
<1>5. x.message = StateToProto(entry[n]) /\ x.ops = seen[n]
  OBVIOUS
<1> HIDE DEF x
<1>6. ASSUME NEW t \in CrdtType, NEW m \in sent'[t]
      PROVE  /\ \A f \in StateFromProto(m.message) :
                  f.type = t /\ EntryOf(f, m.ops, count, Made) /\ m.ops # {}
             /\ StateFromProto(m.message) = {} <=> t = "orset" /\ OpsOf(m.ops, "add") = {}
  <2>1. CASE m \in sent[t]
    BY <2>1, Zenon DEF IndInv, RefusedIsEmpty
  <2>2. CASE m \notin sent[t]
    <3>1. m = x /\ t = entry[n].type
      BY <1>4, <2>2, Zenon
    <3> QED BY <1>1, <1>2, <1>5, <3>1, Zenon
  <2> QED BY <2>1, <2>2, Zenon
<1>7. RefusedIsEmpty'
  BY <1>6, Zenon DEF RefusedIsEmpty
<1>8. \A t \in CrdtType : \A m \in sent'[t] : \A f \in StateFromProto(m.message) :
        f.type = t /\ EntryOf(f, m.ops, count', Made') /\ m.ops # {}
  BY <1>3, <1>6, Zenon
<1> QED BY <1>3, <1>4, <1>7, <1>8, Zenon DEF IndInv

LEMMA FetchStep ==
  ASSUME IndInv, NEW n \in Nodes, NEW p \in Nodes, Fetch(n, p)
  PROVE  IndInv'
<1>1. EntryOf(entry[p], seen[p], count, Made) /\ seen[p] # {}
  BY PresentEntry, Zenon DEF Fetch
<1>2. DecodeCrdtResponse(EncodeCrdtResponse(entry[p], TRUE)).state
        = StateFromProto(StateToProto(entry[p]))
  BY Zenon DEF DecodeCrdtResponse, EncodeCrdtResponse
<1>3. StateFromProto(StateToProto(entry[p])) \subseteq {entry[p]}
  BY <1>1, StateRoundTrip, Zenon DEF EntryOf, History
<1>4. MergeEntry(n, entry[p], seen[p])
  <2>1. PICK e \in DecodeCrdtResponse(EncodeCrdtResponse(entry[p], TRUE)).state :
          MergeEntry(n, e, seen[p])
    BY Zenon DEF Fetch
  <2>2. e = entry[p]
    BY <1>2, <1>3, <2>1, Zenon
  <2> QED BY <2>1, <2>2, Zenon
<1> QED BY <1>1, <1>4, MergeStep, Zenon

LEMMA RestartStep ==
  ASSUME IndInv, NEW n \in Nodes, Restart(n)
  PROVE  IndInv'
<1>1. EntryOf(entry[n], seen[n], count, Made)
  BY PresentEntry, Zenon DEF Restart
<1>2. DecodeEntry(EncodeEntry(entry[n])) = entry[n]
  BY <1>1, StateRoundTrip, Zenon DEF EntryOf, History
<1>3. count' = count /\ seen' = seen /\ sent' = sent /\ Made' = Made
  BY Zenon DEF Restart, Made
<1>4. DOMAIN entry' = Nodes /\ \A a \in Nodes : entry'[a] = entry[a]
  BY <1>2, Zenon DEF Restart, IndInv
<1>5. RefusedIsEmpty'
  BY <1>3, Zenon DEF IndInv, RefusedIsEmpty
<1> QED BY <1>3, <1>4, <1>5, Zenon DEF IndInv

LEMMA InitIndInv == Init => IndInv
<1> SUFFICES ASSUME Init PROVE IndInv
  OBVIOUS
<1>1. count \in [Nodes -> Nat] /\ DOMAIN entry = Nodes /\ DOMAIN seen = Nodes
      /\ DOMAIN sent = CrdtType
  BY Zenon DEF Init
<1>2. \A n \in Nodes : entry[n] = NoEntry /\ seen[n] = {} /\ entry[n].version[n] = count[n]
  BY NoEntryFields, Zenon DEF Init
<1>3. \A t \in CrdtType : sent[t] = {}
  BY Zenon DEF Init
<1>4. RefusedIsEmpty
  BY <1>3, Zenon DEF RefusedIsEmpty
<1> QED BY <1>1, <1>2, <1>3, <1>4, Zenon DEF IndInv

LEMMA NextIndInv == IndInv /\ [Next]_vars => IndInv'
<1> SUFFICES ASSUME IndInv, [Next]_vars PROVE IndInv'
  OBVIOUS
<1>1. ASSUME NEW n \in Nodes, NEW r \in Requests, Mutate(n, r) PROVE IndInv'
  BY <1>1, MutateStep, Zenon
<1>2. ASSUME NEW n \in Nodes, Replicate(n) PROVE IndInv'
  BY <1>2, ReplicateStep, Zenon
<1>3. ASSUME NEW n \in Nodes, Restart(n) PROVE IndInv'
  BY <1>3, RestartStep, Zenon
<1>4. ASSUME NEW n \in Nodes, NEW t \in CrdtType, NEW m \in sent[t], Deliver(n, m) PROVE IndInv'
  <2>1. PICK e \in StateFromProto(m.message) : MergeEntry(n, e, m.ops)
    BY <1>4, Zenon DEF Deliver
  <2>2. EntryOf(e, m.ops, count, Made) /\ m.ops # {}
    BY Zenon DEF IndInv
  <2> QED BY <2>1, <2>2, MergeStep, Zenon
<1>5. ASSUME NEW n \in Nodes, NEW p \in Nodes, Fetch(n, p) PROVE IndInv'
  BY <1>5, FetchStep, Zenon
<1>6. ASSUME NEW n \in Nodes, NEW p \in Nodes, Reconcile(n, p) PROVE IndInv'
  BY <1>5, <1>6, Zenon DEF Reconcile
<1>7. ASSUME UNCHANGED vars PROVE IndInv'
  <2>1. entry' = entry /\ count' = count /\ seen' = seen /\ sent' = sent
    BY <1>7, Zenon DEF vars
  <2>2. Made' = Made
    BY <2>1 DEF Made
  <2>3. RefusedIsEmpty'
    BY <2>1, Zenon DEF IndInv, RefusedIsEmpty
  <2> QED BY <2>1, <2>2, <2>3, Zenon DEF IndInv
<1>8. CASE Next
  BY <1>1, <1>2, <1>3, <1>4, <1>5, <1>6, <1>8, Zenon DEF Next
<1> QED BY <1>7, <1>8, Zenon

LEMMA Inductive == Spec => []IndInv
  BY InitIndInv, NextIndInv, PTL DEF Spec

-----------------------------------------------------------------------------
(* What follows *)

\* For any nodes, elements, amounts and numbers of mutations: what a node shows is
\* what the mutations that reached it say.
THEOREM ReplicasShowWhatMutationsSay == Spec => []ValuesExact
<1>1. IndInv => ValuesExact
  <2> SUFFICES ASSUME IndInv, NEW n \in Nodes, Present(n)
               PROVE  Shown(n) = Meaning(entry[n].type, seen[n])
    BY Zenon DEF ValuesExact
  <2> DEFINE e == entry[n]
  <2>1. EntryOf(e, seen[n], count, Made)
    BY PresentEntry, Zenon
  <2>2. e.type \in CrdtType /\ History(e.type, seen[n]) /\ e.state = Content(e.type, seen[n])
    BY <2>1 DEF EntryOf
  <2>3. Shown(n) = Materialize(e.type, e.state)
    BY Zenon DEF Shown, DecodeCrdtResponse, EncodeCrdtResponse, Json, FromJson
  <2> HIDE DEF e
  <2> QED BY <2>2, <2>3, ContentsMean, Zenon DEF e
<1> QED BY <1>1, Inductive, PTL

\* For any nodes, elements, amounts and numbers of mutations: compare_digest() may
\* take equal versions for equal states.
THEOREM DigestsTellStates == Spec => []VersionsTellContents
<1>1. IndInv => VersionsTellContents
  <2> SUFFICES ASSUME IndInv, NEW n \in Nodes, NEW p \in Nodes, Digest(n) = Digest(p)
               PROVE  entry[n].state = entry[p].state
    BY Zenon DEF VersionsTellContents
  <2>1. ASSUME NEW a \in Nodes PROVE entry[a].version \in [Nodes -> Nat]
    <3>1. CASE entry[a] = NoEntry
      BY <3>1, NoEntryFields DEF NoCounter
    <3>2. CASE EntryOf(entry[a], seen[a], count, Made)
      BY <3>2, Zenon DEF EntryOf
    <3> QED BY <3>1, <3>2 DEF IndInv
  <2>2. ASSUME NEW a \in Nodes
        PROVE  Digest(a).type = entry[a].type /\ Digest(a).version = entry[a].version
    BY <2>1, VersionRoundTrip, Zenon DEF Digest, DigestFromProto, DigestToProto
  <2>3. entry[n].type = entry[p].type /\ entry[n].version = entry[p].version
    BY <2>2, Zenon
  <2>4. CASE ~Present(n)
    <3>1. ~Present(p)
      BY <2>3, <2>4, Zenon DEF Present
    <3> QED BY <2>4, <3>1, PresentEntry, Zenon
  <2>5. CASE Present(n)
    <3>1. Present(p)
      BY <2>3, <2>5 DEF Present
    <3>2. EntryOf(entry[n], seen[n], count, Made) /\ EntryOf(entry[p], seen[p], count, Made)
      BY <2>5, <3>1, PresentEntry, Zenon
    <3>3. \A a \in Nodes : At(seen[n], a) = At(seen[p], a)
      BY <2>3, <3>2, Zenon DEF EntryOf, Covers
    <3>4. /\ \A o \in seen[n] : o.dot[1] \in Nodes
          /\ \A o \in seen[p] : o.dot[1] \in Nodes
      BY <3>2, Zenon DEF EntryOf, History, Mutation
    <3>5. seen[n] = seen[p]
      <4>1. \A o \in seen[n] : o \in At(seen[n], o.dot[1])
        BY Zenon DEF At
      <4>2. \A o \in seen[p] : o \in At(seen[p], o.dot[1])
        BY Zenon DEF At
      <4>3. \A a \in Nodes : At(seen[n], a) \subseteq seen[n] /\ At(seen[p], a) \subseteq seen[p]
        BY Zenon DEF At
      <4> QED BY <3>3, <3>4, <4>1, <4>2, <4>3, Zenon
    <3>6. /\ entry[n].state = Content(entry[n].type, seen[n])
          /\ entry[p].state = Content(entry[p].type, seen[p])
      BY <3>2 DEF EntryOf
    <3> QED BY <2>3, <3>5, <3>6
  <2> QED BY <2>4, <2>5, Zenon
<1> QED BY <1>1, Inductive, PTL

\* For any nodes, elements, amounts and numbers of mutations: what is on its way to a
\* replica and decoded there can be merged, in either order and repeatedly.
THEOREM RepliesCanBeMerged == Spec => []MergesAgree
<1>1. IndInv => MergesAgree
  <2> SUFFICES ASSUME IndInv, NEW n \in Nodes, Present(n), NEW m \in sent[entry[n].type],
                      NEW f \in StateFromProto(m.message)
               PROVE  LET t == entry[n].type
                          s == entry[n].state
                          i == f.state
                      IN /\ t = "mvregister" => ~Contradict(s, i)
                         /\ MergeState(t, s, i) = MergeState(t, i, s)
                         /\ MergeState(t, MergeState(t, s, i), i) = MergeState(t, s, i)
    BY Zenon DEF MergesAgree
  <2> DEFINE t == entry[n].type
             e == entry[n]
             S == seen[n]
             T == m.ops
  <2>1. EntryOf(e, S, count, Made) /\ t \in CrdtType
    BY PresentEntry, Zenon DEF EntryOf
  <2>2. EntryOf(f, T, count, Made) /\ f.type = t
    <3>1. \A u \in CrdtType : \A x \in sent[u] : \A g \in StateFromProto(x.message) :
            g.type = u /\ EntryOf(g, x.ops, count, Made)
      BY Zenon DEF IndInv
    <3> QED BY <2>1, <3>1, Zenon
  <2>3. Compatible(S, T) /\ Compatible(T, S)
    BY <2>1, <2>2, LogsHold, EntriesCompatible
  <2>4. /\ History(t, S) /\ History(t, T)
        /\ e.state = Content(t, S) /\ f.state = Content(t, T)
    BY <2>1, <2>2 DEF EntryOf
  <2> HIDE DEF e, S, T, t
  <2>5. Compatible(S \cup T, T) /\ History(t, S \cup T)
    <3>1. History(t, S \cup T)
      BY <2>3, <2>4, HistoriesMerge, Zenon
    <3>2. \A o \in S \cup T, p \in T : o.dot = p.dot => o = p
      BY <3>1 DEF History
    <3>3. \A a \in Nodes : At(T, a) \subseteq At(S \cup T, a)
      BY Zenon DEF At
    <3> QED BY <3>1, <3>2, <3>3, Zenon DEF Compatible
  <2>6. T \cup S = S \cup T /\ (S \cup T) \cup T = S \cup T
    OBVIOUS
  <2>7. /\ t = "mvregister" => ~Contradict(e.state, f.state)
        /\ MergeState(t, e.state, f.state) = Content(t, S \cup T)
        /\ MergeState(t, f.state, e.state) = Content(t, S \cup T)
        /\ MergeState(t, Content(t, S \cup T), f.state) = Content(t, S \cup T)
    BY <2>1, <2>3, <2>4, <2>5, <2>6, ContentsMerge
  <2> QED BY <2>7, Zenon DEF e, t
<1> QED BY <1>1, Inductive, PTL

\* For any nodes, elements, amounts and numbers of mutations: what the peers of a
\* replica refuse to decode are the sets that nothing was added to, and only those.
THEOREM OnlyEmptySetsAreRefused == Spec => []RefusedIsEmpty
<1>1. IndInv => RefusedIsEmpty
  BY Zenon DEF IndInv
<1> QED BY <1>1, Inductive, PTL
=============================================================================
