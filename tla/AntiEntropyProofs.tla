------------------------- MODULE AntiEntropyProofs --------------------------
(***************************************************************************)
(* Versions stay exact under anti-entropy, for any nodes, keys, batch size *)
(* and interleaving of rounds, failures, restarts and mutations.           *)
(***************************************************************************)
EXTENDS AntiEntropy, CausalEntriesProofs, FiniteSetTheorems, WellFoundedInduction

\* The entries of a node are grounded in what was written, contain its own
\* mutations, and one of them names its last mutation.
NodeOK(n) ==
  /\ \A k \in Keys : /\ Grounded(written, k, store[n][k])
                     /\ OwnComplete(written, k, store[n][k], n)
  /\ Len(written[n]) > 0 => \E k \in Keys : store[n][k].context[n] >= Len(written[n])

\* A digest that names only mutations that were made.
DigestOK(w, d) == \A k \in Keys : Within(w, d[k].context)

\* What a round remembers, however old it is, is grounded too.
RoundOK(w, r) ==
  r # NoRound =>
    /\ DigestOK(w, r.local) /\ DigestOK(w, r.remote)
    /\ r.stage \in {"merge", "send"} => \A k \in First(r.todo, 1) : Grounded(w, k, r.held)
    /\ r.stage = "send_metadata" => Within(w, r.held.context)

\* What no entry depends on.
RestOK ==
  /\ kind \in [Nodes -> Seq(Kinds)] /\ recovering \in [Nodes -> SUBSET Nodes]
  /\ down \subseteq Nodes /\ incidents \in 0..MaxIncidents

SameRest == kind' = kind /\ recovering' = recovering /\ down' = down /\ incidents' = incidents

\* The inductive invariant.
IndInv == TypeOK /\ \A n \in Nodes : NodeOK(n) /\ RoundOK(written, round[n])

-----------------------------------------------------------------------------
(* Helpers *)

LEMMA BoundedMaximum ==
  ASSUME NEW S \in SUBSET Nat, S # {}, NEW L \in Nat, \A x \in S : x <= L
  PROVE  \E m \in S : \A x \in S : m >= x
<1> DEFINE T == {L - x : x \in S}
           R == OpToRel(<, Nat)
<1>1. T \subseteq Nat /\ T # {}
  <2>1. ASSUME NEW x \in S PROVE L - x \in Nat
    <3>1. x \in Nat /\ x <= L
      OBVIOUS
    <3> QED BY <3>1
  <2>2. PICK x \in S : TRUE
    OBVIOUS
  <2>3. L - x \in T
    OBVIOUS
  <2> QED BY <2>1, <2>3, Zenon
<1>2. PICK t \in T : \A y \in T : ~(<<y, t>> \in R)
  <2> HIDE DEF T, R
  <2>1. IsWellFoundedOn(R, Nat)
    BY NatLessThanWellFounded, Zenon DEF R
  <2> QED BY <1>1, <2>1, WFMin, Zenon
<1>3. PICK m \in S : t = L - m
  OBVIOUS
<1>4. ASSUME NEW x \in S PROVE m >= x
  <2>1. L - x \in T /\ L - x \in Nat /\ t \in Nat
    BY <1>1, Zenon
  <2>2. ~(L - x < t)
    BY <1>2, <2>1, Zenon DEF OpToRel
  <2> QED BY <1>3, <2>1, <2>2
<1> QED BY <1>4, Zenon

\* The loop of _reconcile_digest() is at one key at a time.
LEMMA FirstIsUnique ==
  ASSUME NEW S \in SUBSET Keys, NEW j \in First(S, 1), NEW k \in First(S, 1)
  PROVE  j = k /\ k \in Keys
<1>1. Keys \subseteq Nat
  BY AntiEntropyAssumption, Zenon
<1>2. ASSUME NEW x \in First(S, 1) PROVE x \in S /\ x \in Nat /\ {y \in S : y < x} = {}
  <2> DEFINE B == {y \in S : y < x}
  <2>1. x \in S /\ x \in Nat /\ Cardinality(B) < 1
    BY <1>1, Zenon DEF First
  <2>2. B \in SUBSET Nat /\ \A y \in B : y <= x
    <3>1. ASSUME NEW y \in B PROVE y \in Nat /\ y <= x
      <4>1. y \in S /\ y < x
        OBVIOUS
      <4>2. y \in Nat
        BY <1>1, <4>1, Zenon
      <4> QED BY <2>1, <4>1, <4>2
    <3> HIDE DEF B
    <3> QED BY <3>1, Zenon
  <2> HIDE DEF B
  <2>3. IsFiniteSet(B)
    BY <2>1, <2>2, FS_BoundedSetOfNaturals, Zenon
  <2>4. Cardinality(B) \in Nat
    BY <2>3, FS_CardinalityType, Zenon
  <2>5. Cardinality(B) = 0
    BY <2>1, <2>4
  <2> QED BY <2>1, <2>3, <2>5, FS_EmptySet, Zenon DEF B
<1>3. j \in Nat /\ k \in Nat /\ ~(j < k) /\ ~(k < j)
  BY <1>2, Zenon
<1> QED BY <1>2, <1>3

LEMMA Types ==
  ASSUME TypeOK
  PROVE  /\ written \in Histories
         /\ \A n \in Nodes : /\ Len(written[n]) \in Nat
                             /\ \A k \in Keys : store[n][k] \in Entry /\ store[n][k].context \in Vector
         /\ \A n \in Nodes : round[n] # NoRound =>
              /\ round[n] \in Rounds /\ round[n].peer \in Nodes /\ round[n].held \in Entry
              /\ round[n].local \in Digest /\ round[n].remote \in Digest /\ round[n].todo \in SUBSET Keys
<1>1. written \in Histories /\ \A n \in Nodes : Len(written[n]) \in Nat
  BY DEF TypeOK, Histories, Nodes
<1>2. \A n \in Nodes : \A k \in Keys : store[n][k] \in Entry /\ store[n][k].context \in Vector
  BY EntryParts, Zenon DEF TypeOK
<1>3. ASSUME NEW n \in Nodes, round[n] # NoRound
      PROVE  /\ round[n] \in Rounds /\ round[n].peer \in Nodes /\ round[n].held \in Entry
             /\ round[n].local \in Digest /\ round[n].remote \in Digest /\ round[n].todo \in SUBSET Keys
  <2>1. round[n] \in Rounds
    BY <1>3, Zenon DEF TypeOK
  <2> QED BY <2>1, Zenon DEF Rounds
<1> QED BY <1>1, <1>2, <1>3, Zenon

\* The clock of a node that has keys.
LEMMA ClockResult ==
  ASSUME IndInv, NEW n \in Nodes, Keys # {}
  PROVE  /\ Clock(n) \in Vector /\ Within(written, Clock(n))
         /\ \A k \in Keys : Leq(store[n][k].context, Clock(n))
         /\ Clock(n)[n] = Len(written[n])
<1>1. /\ TypeOK /\ NodeOK(n) /\ written \in Histories /\ Len(written[n]) \in Nat
      /\ \A k \in Keys : /\ store[n][k].context \in Vector
                         /\ Within(written, store[n][k].context)
  BY Types, Zenon DEF IndInv, NodeOK, Grounded
<1>2. ASSUME NEW a \in Actors
      PROVE  /\ Clock(n)[a] \in Nat /\ Clock(n)[a] <= Len(written[a])
             /\ \A k \in Keys : store[n][k].context[a] <= Clock(n)[a]
  <2> DEFINE S == {store[n][k].context[a] : k \in Keys}
  <2>1. Len(written[a]) \in Nat
    BY <1>1 DEF Histories
  <2>2. \A k \in Keys : store[n][k].context[a] \in Nat /\ store[n][k].context[a] <= Len(written[a])
    BY <1>1, Zenon DEF Vector, Within
  <2>3. S \in SUBSET Nat /\ S # {} /\ \A x \in S : x <= Len(written[a])
    BY <2>2, Zenon
  <2>4. \E m \in S : \A x \in S : m >= x
    <3> HIDE DEF S
    <3> QED BY <2>1, <2>3, BoundedMaximum, Zenon
  <2>5. \E m \in S : \A k \in Keys : m >= store[n][k].context[a]
    BY <2>4, Zenon
  <2>6. Clock(n)[a] = CHOOSE m \in S : \A k \in Keys : m >= store[n][k].context[a]
    BY Zenon DEF Clock
  <2>7. Clock(n)[a] \in S /\ \A k \in Keys : Clock(n)[a] >= store[n][k].context[a]
    BY <2>5, <2>6, Zenon
  <2> QED BY <2>2, <2>3, <2>7, Zenon
<1>3. Clock(n) \in Vector
  BY <1>2, Zenon DEF Clock, Vector
<1>4. Clock(n)[n] = Len(written[n])
  <2>1. n \in Actors /\ Clock(n)[n] \in Nat /\ Clock(n)[n] <= Len(written[n])
        /\ \A k \in Keys : store[n][k].context[n] <= Clock(n)[n] /\ store[n][k].context[n] \in Nat
    BY <1>1, <1>2, Zenon DEF Nodes, Vector
  <2>2. CASE Len(written[n]) = 0
    BY <2>1, <2>2
  <2>3. CASE Len(written[n]) > 0
    BY <1>1, <2>1, <2>3 DEF NodeOK
  <2> QED BY <1>1, <2>2, <2>3
<1> QED BY <1>2, <1>3, <1>4, Zenon DEF Within, Leq

\* Entries that grow and stay grounded keep a node in order.
LEMMA GrowStep ==
  ASSUME IndInv, written' = written, store' \in [Nodes -> [Keys -> Entry]],
         NEW n \in Nodes,
         \A k \in Keys : Grounded(written, k, store'[n][k]) /\ EntryLeq(store[n][k], store'[n][k])
  PROVE  NodeOK(n)'
<1>1. /\ TypeOK /\ NodeOK(n) /\ written \in Histories /\ Len(written[n]) \in Nat /\ n \in Actors
      /\ \A k \in Keys : store[n][k] \in Entry /\ store'[n][k] \in Entry
  BY Types, Zenon DEF IndInv, Nodes
<1>2. \A k \in Keys : OwnComplete(written, k, store'[n][k], n)
  BY <1>1, CompleteGrows, Zenon DEF NodeOK
<1>3. ASSUME Len(written[n]) > 0
      PROVE  \E k \in Keys : store'[n][k].context[n] >= Len(written[n])
  <2>1. PICK k \in Keys : store[n][k].context[n] >= Len(written[n])
    BY <1>1, <1>3, Zenon DEF NodeOK
  <2>2. /\ store[n][k].context[n] \in Nat /\ store'[n][k].context[n] \in Nat
        /\ store[n][k].context[n] <= store'[n][k].context[n]
    BY <1>1, EntryParts, Zenon DEF Vector, EntryLeq, Leq
  <2> QED BY <1>1, <2>1, <2>2
<1> QED BY <1>2, <1>3, Zenon DEF NodeOK

LEMMA EntryLeqSelf ==
  ASSUME NEW e \in Entry
  PROVE  EntryLeq(e, e)
<1>1. e.version \in Vector /\ e.context \in Vector
  BY EntryParts, Zenon
<1> QED BY <1>1, LeqOrder, Zenon DEF EntryLeq

LEMMA MergeStep ==
  ASSUME IndInv, written' = written, NEW n \in Nodes, NEW k \in Keys, NEW e \in Entry,
         Grounded(written, k, e),
         store' = [store EXCEPT ![n][k] = MergeEntries(store[n][k], e)]
  PROVE  store' \in [Nodes -> [Keys -> Entry]] /\ \A m \in Nodes : NodeOK(m)'
<1> DEFINE f == MergeEntries(store[n][k], e)
<1>1. /\ TypeOK /\ \A m \in Nodes : NodeOK(m) /\ written \in Histories
      /\ \A m \in Nodes, j \in Keys : store[m][j] \in Entry
  BY Types, Zenon DEF IndInv
<1>2. f \in Entry /\ Grounded(written, k, f) /\ EntryLeq(store[n][k], f)
  BY <1>1, MergeEntriesResult, MergeIsGrounded, Zenon DEF NodeOK
<1> HIDE DEF f
<1>3. /\ store' \in [Nodes -> [Keys -> Entry]] /\ store'[n][k] = f
      /\ \A j \in Keys \ {k} : store'[n][j] = store[n][j]
      /\ \A m \in Nodes \ {n} : store'[m] = store[m]
  BY <1>1, <1>2, Zenon DEF TypeOK, f
<1>4. ASSUME NEW m \in Nodes, NEW j \in Keys
      PROVE  Grounded(written, j, store'[m][j]) /\ EntryLeq(store[m][j], store'[m][j])
  <2>1. CASE m = n /\ j = k
    BY <1>2, <1>3, <2>1, Zenon
  <2>2. CASE m # n \/ j # k
    <3>1. store'[m][j] = store[m][j]
      BY <1>3, <2>2, Zenon
    <3> QED BY <1>1, <3>1, EntryLeqSelf, Zenon DEF NodeOK
  <2> QED BY <2>1, <2>2, Zenon
<1>5. ASSUME NEW m \in Nodes PROVE NodeOK(m)'
  BY <1>3, <1>4, GrowStep, Zenon
<1> QED BY <1>3, <1>5, Zenon

\* crdt_type is one of the types.
LEMMA TypeIsOne ==
  ASSUME NEW e
  PROVE  TypeOf(e) \in EntryTypes
BY DEF TypeOf, TypeOfKind, EntryTypes

LEMMA DigestResult ==
  ASSUME TypeOK, NEW entries \in [Keys -> Entry], NEW m,
         \A k \in Keys : Within(written, entries[k].context)
  PROVE  DigestOf(entries, m) \in Digest /\ DigestOK(written, DigestOf(entries, m))
<1> DEFINE d == DigestOf(entries, m)
<1>1. written \in Histories /\ Zero \in Vector
  BY Types, NoEntryIsEntry, Zenon
<1>2. Within(written, Zero)
  BY <1>1, NothingIsGrounded, Zenon
<1>3. ASSUME NEW k \in Keys
      PROVE  /\ d[k] \in [type: EntryTypes, version: Vector, context: Vector]
             /\ Within(written, d[k].context)
  <2>1. entries[k].version \in Vector /\ entries[k].context \in Vector
    BY EntryParts, Zenon
  <2>2. d[k] = DigestEntry(entries[k]) \/ d[k] = Blank
    BY Zenon DEF DigestOf
  <2>3. /\ DigestEntry(entries[k]) \in [type: EntryTypes, version: Vector, context: Vector]
        /\ Blank \in [type: EntryTypes, version: Vector, context: Vector]
    BY <1>1, <2>1, TypeIsOne, Zenon DEF DigestEntry, Blank, EntryTypes
  <2>4. DigestEntry(entries[k]).context = entries[k].context /\ Blank.context = Zero
    BY Zenon DEF DigestEntry, Blank
  <2> HIDE DEF d
  <2> QED BY <1>2, <2>2, <2>3, <2>4, Zenon
<1>4. d = [k \in Keys |-> d[k]]
  BY Zenon DEF DigestOf
<1> HIDE DEF d
<1>5. d \in Digest /\ DigestOK(written, d)
  BY <1>3, <1>4, Zenon DEF Digest, DigestOK
<1> QED BY <1>5, Zenon DEF d

LEMMA HandleDigestStep ==
  ASSUME IndInv, written' = written, NEW p \in Nodes, NEW d \in Digest, DigestOK(written, d),
         NEW entries, entries = HandleDigest(p, d), store' = [store EXCEPT ![p] = entries]
  PROVE  /\ entries \in [Keys -> Entry] /\ \A k \in Keys : Within(written, entries[k].context)
         /\ store' \in [Nodes -> [Keys -> Entry]] /\ \A m \in Nodes : NodeOK(m)'
<1>1. /\ TypeOK /\ \A m \in Nodes : NodeOK(m) /\ written \in Histories
      /\ \A m \in Nodes, j \in Keys : store[m][j] \in Entry
  BY Types, Zenon DEF IndInv
<1>2. ASSUME NEW k \in Keys
      PROVE  /\ entries[k] \in Entry /\ Grounded(written, k, entries[k])
             /\ EntryLeq(store[p][k], entries[k])
  <2> DEFINE o == OnlyContext(d[k].context)
  <2>1. d[k].context \in Vector /\ Within(written, d[k].context)
    BY Zenon DEF Digest, DigestOK
  <2>2. o \in Entry /\ Grounded(written, k, o)
    BY <1>1, <2>1, NoEntryIsEntry, ContextIsGrounded, Zenon
  <2>3. entries[k] = MergeEntries(store[p][k], o) \/ entries[k] = store[p][k]
    BY Zenon DEF HandleDigest
  <2> HIDE DEF o
  <2>4. CASE entries[k] = MergeEntries(store[p][k], o)
    BY <1>1, <2>2, <2>4, MergeEntriesResult, MergeIsGrounded DEF NodeOK
  <2>5. CASE entries[k] = store[p][k]
    BY <1>1, <2>5, EntryLeqSelf, Zenon DEF NodeOK
  <2> QED BY <2>3, <2>4, <2>5, Zenon
<1>3. entries = [k \in Keys |-> entries[k]]
  BY Zenon DEF HandleDigest
<1>4. entries \in [Keys -> Entry] /\ \A k \in Keys : Within(written, entries[k].context)
  BY <1>2, <1>3, Zenon DEF Grounded
<1>5. /\ store' \in [Nodes -> [Keys -> Entry]] /\ store'[p] = entries
      /\ \A m \in Nodes \ {p} : store'[m] = store[m]
  BY <1>1, <1>4, Zenon DEF TypeOK
<1>6. ASSUME NEW m \in Nodes, NEW j \in Keys
      PROVE  Grounded(written, j, store'[m][j]) /\ EntryLeq(store[m][j], store'[m][j])
  <2>1. CASE m = p
    BY <1>2, <1>5, <2>1, Zenon
  <2>2. CASE m # p
    BY <1>1, <1>5, <2>2, EntryLeqSelf, Zenon DEF NodeOK
  <2> QED BY <2>1, <2>2, Zenon
<1>7. ASSUME NEW m \in Nodes PROVE NodeOK(m)'
  BY <1>5, <1>6, GrowStep, Zenon
<1> QED BY <1>4, <1>5, <1>7, Zenon

\* A step that changes the round of one node to r and nothing of the history.
LEMMA RoundStep ==
  ASSUME IndInv, written' = written, NEW n \in Nodes, NEW r \in Rounds \cup {NoRound},
         RoundOK(written, r), round' = [round EXCEPT ![n] = r]
  PROVE  /\ round' \in [Nodes -> Rounds \cup {NoRound}]
         /\ \A m \in Nodes : RoundOK(written', round'[m])
<1>1. /\ round' \in [Nodes -> Rounds \cup {NoRound}] /\ round'[n] = r
      /\ \A m \in Nodes \ {n} : round'[m] = round[m]
  BY Zenon DEF IndInv, TypeOK
<1> QED BY <1>1, Zenon DEF IndInv

LEMMA NoRoundIsOK ==
  ASSUME NEW w
  PROVE  RoundOK(w, NoRound)
BY Zenon DEF RoundOK

\* Steps that change neither entries nor the history.
LEMMA SameStore ==
  ASSUME IndInv, written' = written, store' = store
  PROVE  store' \in [Nodes -> [Keys -> Entry]] /\ \A m \in Nodes : NodeOK(m)'
BY Zenon DEF IndInv, TypeOK, NodeOK

\* The parts of the invariant together.
LEMMA Assemble ==
  ASSUME IndInv, written' = written,
         store' \in [Nodes -> [Keys -> Entry]], \A m \in Nodes : NodeOK(m)',
         round' \in [Nodes -> Rounds \cup {NoRound}],
         \A m \in Nodes : RoundOK(written', round'[m]),
         RestOK'
  PROVE  IndInv'
BY Zenon DEF IndInv, TypeOK, RestOK

LEMMA RestStays ==
  ASSUME IndInv, SameRest
  PROVE  RestOK'
BY Zenon DEF IndInv, TypeOK, RestOK, SameRest

LEMMA NewRound ==
  ASSUME IndInv, NEW n \in Nodes, NEW p \in Nodes, NEW b \in BOOLEAN
  PROVE  Round(n, p, b) \in Rounds /\ RoundOK(written, Round(n, p, b))
<1> DEFINE local == DigestOf(store[n], Limit(b))
           remote == [k \in Keys |-> Blank]
<1>1. TypeOK /\ NodeOK(n) /\ written \in Histories /\ store[n] \in [Keys -> Entry]
  BY Types, Zenon DEF IndInv, TypeOK
<1>2. local \in Digest /\ DigestOK(written, local)
  BY <1>1, DigestResult, Zenon DEF NodeOK, Grounded
<1>3. Zero \in Vector /\ NoEntry \in Entry /\ Within(written, Zero)
  BY <1>1, NoEntryIsEntry, NothingIsGrounded, Zenon
<1>4. remote \in Digest /\ DigestOK(written, remote)
  BY <1>3, Zenon DEF Digest, DigestOK, Blank, EntryTypes
<1> HIDE DEF local, remote
<1>5. Round(n, p, b) = [peer |-> p, local |-> local, remote |-> remote, recovery |-> b, todo |-> {},
                        stage |-> "digest", held |-> NoEntry]
  BY Zenon DEF Round, local, remote
<1>6. Round(n, p, b) \in Rounds
  BY <1>2, <1>3, <1>4, <1>5 DEF Rounds
<1>7. RoundOK(written, Round(n, p, b))
  BY <1>2, <1>4, <1>5 DEF RoundOK
<1> QED BY <1>6, <1>7, Zenon

LEMMA DoneStep ==
  ASSUME IndInv, written' = written, NEW n \in Nodes, NEW k, round[n] # NoRound, Done(n, k)
  PROVE  /\ round' \in [Nodes -> Rounds \cup {NoRound}]
         /\ \A m \in Nodes : RoundOK(written', round'[m])
<1> DEFINE r == [round[n] EXCEPT !.todo = @ \ {k}, !.stage = "next", !.held = NoEntry]
<1>1. TypeOK /\ round[n] \in Rounds /\ NoEntry \in Entry /\ RoundOK(written, round[n])
  BY Types, NoEntryIsEntry, Zenon DEF IndInv
<1>2. r \in Rounds /\ r.local = round[n].local /\ r.remote = round[n].remote /\ r.stage = "next"
  BY <1>1, Zenon DEF Rounds
<1>3. round' = [round EXCEPT ![n] = NoRound] \/ round' = [round EXCEPT ![n] = r]
  <2>1. round' = [round EXCEPT ![n] = IF round[n].todo = {k} THEN NoRound ELSE r]
    BY Zenon DEF Done
  <2> HIDE DEF r
  <2> QED BY <2>1, Zenon
<1> HIDE DEF r
<1>4. RoundOK(written, r)
  BY <1>1, <1>2, Zenon DEF RoundOK
<1>5. CASE round' = [round EXCEPT ![n] = NoRound]
  BY <1>5, NoRoundIsOK, RoundStep, Zenon
<1>6. CASE round' = [round EXCEPT ![n] = r]
  BY <1>2, <1>4, <1>6, RoundStep
<1> QED BY <1>3, <1>5, <1>6, Zenon

LEMMA HoldStep ==
  ASSUME IndInv, written' = written, NEW n \in Nodes, NEW k \in Keys, NEW e \in Entry,
         NEW stage \in {"merge", "send", "send_metadata"},
         round[n] # NoRound, k \in First(round[n].todo, 1), Hold(n, stage, e),
         stage \in {"merge", "send"} => Grounded(written, k, e),
         stage = "send_metadata" => Within(written, e.context)
  PROVE  /\ round' \in [Nodes -> Rounds \cup {NoRound}]
         /\ \A m \in Nodes : RoundOK(written', round'[m])
<1> DEFINE r == [round[n] EXCEPT !.stage = stage, !.held = e]
<1>1. TypeOK /\ round[n] \in Rounds /\ round[n].todo \in SUBSET Keys /\ RoundOK(written, round[n])
  BY Types, Zenon DEF IndInv
<1>2. /\ r \in Rounds /\ r.local = round[n].local /\ r.remote = round[n].remote
      /\ r.stage = stage /\ r.held = e /\ r.todo = round[n].todo
  BY <1>1, Zenon DEF Rounds
<1>3. round' = [round EXCEPT ![n] = r]
  BY <1>1, Zenon DEF Hold, TypeOK
<1> HIDE DEF r
<1>4. \A j \in First(r.todo, 1) : j = k
  BY <1>1, <1>2, FirstIsUnique, Zenon
<1>5. RoundOK(written, r)
  BY <1>1, <1>2, <1>4 DEF RoundOK
<1> QED BY <1>2, <1>3, <1>5, RoundStep, Zenon
-----------------------------------------------------------------------------
(* Rounds *)

LEMMA BeginRoundStep ==
  ASSUME IndInv, NEW n \in Nodes, NEW p \in Nodes, BeginRound(n, p)
  PROVE  IndInv'
<1>1. /\ written' = written /\ store' = store /\ SameRest
      /\ round' = [round EXCEPT ![n] = Round(n, p, FALSE)]
  BY Zenon DEF BeginRound, SameRest
<1>2. /\ round' \in [Nodes -> Rounds \cup {NoRound}]
      /\ \A m \in Nodes : RoundOK(written', round'[m])
  BY <1>1, NewRound, RoundStep, Zenon
<1> QED BY <1>1, <1>2, SameStore, RestStays, Assemble, Zenon

\* A round ends, and of the rest only what no entry depends on changes.
LEMMA EndStep ==
  ASSUME IndInv, NEW n \in Nodes, written' = written, store' = store,
         round' = [round EXCEPT ![n] = NoRound], RestOK'
  PROVE  IndInv'
<1>1. /\ round' \in [Nodes -> Rounds \cup {NoRound}]
      /\ \A m \in Nodes : RoundOK(written', round'[m])
  BY NoRoundIsOK, RoundStep, Zenon
<1> QED BY <1>1, SameStore, Assemble, Zenon

LEMMA RestartStep ==
  ASSUME IndInv, NEW n \in Nodes, Restart(n)
  PROVE  IndInv'
<1>1. /\ written' = written /\ store' = store /\ round' = [round EXCEPT ![n] = NoRound]
      /\ kind' = kind /\ kind \in [Nodes -> Seq(Kinds)]
  BY Zenon DEF Restart, IndInv, TypeOK
<1>2. recovering' \in [Nodes -> SUBSET Nodes] /\ down' \subseteq Nodes
  BY Zenon DEF Restart, IndInv, TypeOK, PeersOf
<1>3. incidents' \in 0..MaxIncidents
  BY AntiEntropyAssumption DEF Restart, IndInv, TypeOK
<1>4. RestOK'
  BY <1>1, <1>2, <1>3, Zenon DEF RestOK
<1> QED BY <1>1, <1>4, EndStep, Zenon

LEMMA RecoverStep ==
  ASSUME IndInv, NEW n \in Nodes, NEW p \in Nodes, Recover(n, p)
  PROVE  IndInv'
<1>1. /\ written' = written /\ store' = store
      /\ round' = [round EXCEPT ![n] = Round(n, p, TRUE)]
  BY Zenon DEF Recover
<1>2. recovering' \in [Nodes -> SUBSET Nodes]
  BY Zenon DEF Recover, IndInv, TypeOK
<1>3. RestOK'
  BY <1>2, Zenon DEF Recover, RestOK, IndInv, TypeOK
<1>4. /\ round' \in [Nodes -> Rounds \cup {NoRound}]
      /\ \A m \in Nodes : RoundOK(written', round'[m])
  BY <1>1, NewRound, RoundStep, Zenon
<1> QED BY <1>1, <1>3, <1>4, SameStore, Assemble, Zenon

LEMMA RoundFailsStep ==
  ASSUME IndInv, NEW n \in Nodes, RoundFails(n)
  PROVE  IndInv'
<1>1. /\ written' = written /\ store' = store /\ round' = [round EXCEPT ![n] = NoRound]
      /\ kind' = kind /\ recovering' = recovering /\ down' = down
  BY Zenon DEF RoundFails
<1>2. incidents' \in 0..MaxIncidents
  BY AntiEntropyAssumption DEF RoundFails, ExchangeFails, IndInv, TypeOK
<1>3. RestOK'
  BY <1>1, <1>2, Zenon DEF RestOK, IndInv, TypeOK
<1> QED BY <1>1, <1>3, EndStep, Zenon

LEMMA RoundRaisesStep ==
  ASSUME IndInv, NEW n \in Nodes, NEW k \in Keys, RoundRaises(n, k)
  PROVE  IndInv'
<1>1. /\ written' = written /\ store' = store /\ round' = [round EXCEPT ![n] = NoRound]
      /\ kind' = kind /\ incidents' = incidents
      /\ down' = down \/ down' = down \cup {n}
      /\ recovering' = recovering \/ recovering' = [recovering EXCEPT ![n] = {}]
  BY Zenon DEF RoundRaises
<1>2. recovering' \in [Nodes -> SUBSET Nodes] /\ down' \subseteq Nodes
  BY <1>1, Zenon DEF IndInv, TypeOK
<1>3. RestOK'
  BY <1>1, <1>2, Zenon DEF RestOK, IndInv, TypeOK
<1> QED BY <1>1, <1>3, EndStep, Zenon

LEMMA ExchangeStep ==
  ASSUME IndInv, NEW n \in Nodes, Exchange(n)
  PROVE  IndInv'
<1> DEFINE p == round[n].peer
           local == round[n].local
           limit == IF Listed(local) = {} THEN 1 ELSE Cardinality(Listed(local))
           entries == HandleDigest(p, local)
           remote == DigestOf(entries, limit)
           keys == First(Listed(local) \cup Listed(remote), Limit(round[n].recovery))
           r == [round[n] EXCEPT !.remote = remote, !.todo = keys, !.stage = "next"]
<1>1. /\ round[n] # NoRound /\ written' = written
      /\ store' = [store EXCEPT ![p] = entries]
      /\ round' = [round EXCEPT ![n] = IF keys = {} THEN NoRound ELSE r]
      /\ SameRest /\ TypeOK
  BY Zenon DEF Exchange, SameRest, IndInv
<1>2. p \in Nodes /\ local \in Digest /\ round[n] \in Rounds /\ RoundOK(written, round[n])
  BY <1>1, Types, Zenon DEF IndInv
<1>3. DigestOK(written, local)
  BY <1>1, <1>2, Zenon DEF RoundOK
<1>4. keys \in SUBSET Keys
  BY Zenon DEF First, Listed
<1> HIDE DEF p, keys, limit, entries
<1>5. /\ entries \in [Keys -> Entry] /\ \A k \in Keys : Within(written, entries[k].context)
      /\ store' \in [Nodes -> [Keys -> Entry]] /\ \A m \in Nodes : NodeOK(m)'
  <2> HIDE DEF local
  <2> QED BY <1>1, <1>2, <1>3, HandleDigestStep, Zenon DEF entries
<1>6. remote \in Digest /\ DigestOK(written, remote)
  BY <1>1, <1>5, DigestResult, Zenon
<1> HIDE DEF remote
<1>7. r \in Rounds /\ r.local = local /\ r.remote = remote /\ r.stage = "next"
  BY <1>2, <1>4, <1>6, Zenon DEF Rounds
<1> HIDE DEF r
<1>8. RoundOK(written, r)
  BY <1>3, <1>6, <1>7, Zenon DEF RoundOK
<1>9. /\ round' \in [Nodes -> Rounds \cup {NoRound}]
      /\ \A m \in Nodes : RoundOK(written', round'[m])
  <2>1. CASE keys = {}
    BY <1>1, <2>1, NoRoundIsOK, RoundStep, Zenon
  <2>2. CASE keys # {}
    BY <1>1, <1>7, <1>8, <2>2, RoundStep, Zenon
  <2> QED BY <2>1, <2>2, Zenon
<1> QED BY <1>1, <1>5, <1>9, RestStays, Assemble, Zenon
-----------------------------------------------------------------------------
(* The turns of the loop over the keys *)

\* What holds when the round of n is at key k.
LEMMA AtKey ==
  ASSUME IndInv, NEW n \in Nodes, NEW k \in Keys, NEW stage, At(n, k, stage)
  PROVE  /\ TypeOK /\ written \in Histories
         /\ round[n] # NoRound /\ round[n].stage = stage /\ k \in First(round[n].todo, 1)
         /\ round[n].peer \in Nodes /\ round[n].held \in Entry
         /\ round[n].local[k].context \in Vector /\ round[n].remote[k].context \in Vector
         /\ Within(written, round[n].local[k].context)
         /\ Within(written, round[n].remote[k].context)
         /\ stage \in {"merge", "send"} => Grounded(written, k, round[n].held)
         /\ stage = "send_metadata" => Within(written, round[n].held.context)
         /\ \A m \in Nodes : store[m][k] \in Entry /\ Grounded(written, k, store[m][k])
<1>1. /\ TypeOK /\ written \in Histories
      /\ round[n] # NoRound /\ round[n].stage = stage /\ k \in First(round[n].todo, 1)
      /\ RoundOK(written, round[n])
  BY Types, Zenon DEF IndInv, At, TypeOK
<1>2. /\ round[n].peer \in Nodes /\ round[n].held \in Entry
      /\ round[n].local \in Digest /\ round[n].remote \in Digest
  BY <1>1, Types, Zenon
<1>3. round[n].local[k].context \in Vector /\ round[n].remote[k].context \in Vector
  BY <1>2, Zenon DEF Digest
<1>4. \A m \in Nodes : store[m][k] \in Entry /\ Grounded(written, k, store[m][k])
  BY <1>1, Types, Zenon DEF IndInv, NodeOK
<1>5. Within(written, round[n].local[k].context) /\ Within(written, round[n].remote[k].context)
  BY <1>1, Zenon DEF RoundOK, DigestOK
<1>6. /\ stage \in {"merge", "send"} => Grounded(written, k, round[n].held)
      /\ stage = "send_metadata" => Within(written, round[n].held.context)
  BY <1>1, Zenon DEF RoundOK
<1> QED BY <1>1, <1>2, <1>3, <1>4, <1>5, <1>6, Zenon

LEMMA SkipEqualStep ==
  ASSUME IndInv, NEW n \in Nodes, NEW k \in Keys, SkipEqual(n, k)
  PROVE  IndInv'
<1>1. /\ At(n, k, "next") /\ Done(n, k)
      /\ written' = written /\ store' = store /\ SameRest
  BY Zenon DEF SkipEqual, SameRest
<1>2. /\ round' \in [Nodes -> Rounds \cup {NoRound}]
      /\ \A m \in Nodes : RoundOK(written', round'[m])
  BY <1>1, AtKey, DoneStep, Zenon
<1> QED BY <1>1, <1>2, SameStore, RestStays, Assemble, Zenon

LEMMA FetchStateStep ==
  ASSUME IndInv, NEW n \in Nodes, NEW k \in Keys, FetchState(n, k)
  PROVE  IndInv'
<1>1. /\ At(n, k, "next") /\ Hold(n, "merge", store[round[n].peer][k])
      /\ written' = written /\ store' = store /\ SameRest
  BY Zenon DEF FetchState, SameRest
<1>2. /\ round' \in [Nodes -> Rounds \cup {NoRound}]
      /\ \A m \in Nodes : RoundOK(written', round'[m])
  BY <1>1, AtKey, HoldStep
<1> QED BY <1>1, <1>2, SameStore, RestStays, Assemble, Zenon

LEMMA ReadToSendStep ==
  ASSUME IndInv, NEW n \in Nodes, NEW k \in Keys, ReadToSend(n, k)
  PROVE  IndInv'
<1>1. /\ At(n, k, "next") /\ Hold(n, "send", store[n][k])
      /\ written' = written /\ store' = store /\ SameRest
  BY Zenon DEF ReadToSend, SameRest
<1>2. /\ round' \in [Nodes -> Rounds \cup {NoRound}]
      /\ \A m \in Nodes : RoundOK(written', round'[m])
  BY <1>1, AtKey, HoldStep, Zenon
<1> QED BY <1>1, <1>2, SameStore, RestStays, Assemble, Zenon

LEMMA MergeFetchedStep ==
  ASSUME IndInv, NEW n \in Nodes, NEW k \in Keys, MergeFetched(n, k)
  PROVE  IndInv'
<1> DEFINE merged == MergeEntries(store[n][k], round[n].held)
<1>1. /\ At(n, k, "merge") /\ store' = [store EXCEPT ![n][k] = merged]
      /\ Hold(n, "send", merged) \/ Done(n, k)
      /\ written' = written /\ SameRest
  BY Zenon DEF MergeFetched, SameRest
<1>2. merged \in Entry /\ Grounded(written, k, merged)
  BY <1>1, AtKey, MergeEntriesResult, MergeIsGrounded, Zenon
<1>3. store' \in [Nodes -> [Keys -> Entry]] /\ \A m \in Nodes : NodeOK(m)'
  <2>1. round[n].held \in Entry /\ Grounded(written, k, round[n].held)
    BY <1>1, AtKey, Zenon
  <2> QED BY <1>1, <2>1, MergeStep, Zenon
<1> HIDE DEF merged
<1>4. /\ round' \in [Nodes -> Rounds \cup {NoRound}]
      /\ \A m \in Nodes : RoundOK(written', round'[m])
  BY <1>1, <1>2, AtKey, DoneStep, HoldStep, Zenon
<1> QED BY <1>1, <1>3, <1>4, RestStays, Assemble, Zenon

LEMMA SendStateStep ==
  ASSUME IndInv, NEW n \in Nodes, NEW k \in Keys, SendState(n, k)
  PROVE  IndInv'
<1>1. /\ At(n, k, "send") /\ Done(n, k)
      /\ store' = [store EXCEPT ![round[n].peer][k] = MergeEntries(@, round[n].held)]
      /\ written' = written /\ SameRest
  BY Zenon DEF SendState, SameRest
<1>2. store' = [store EXCEPT ![round[n].peer][k] = MergeEntries(store[round[n].peer][k], round[n].held)]
  BY <1>1, AtKey, Zenon DEF TypeOK
<1>3. store' \in [Nodes -> [Keys -> Entry]] /\ \A m \in Nodes : NodeOK(m)'
  <2> DEFINE p == round[n].peer
             e == round[n].held
  <2>1. p \in Nodes /\ e \in Entry /\ Grounded(written, k, e)
    BY <1>1, AtKey, Zenon
  <2>2. store' = [store EXCEPT ![p][k] = MergeEntries(store[p][k], e)]
    BY <1>2, Zenon
  <2> HIDE DEF p, e
  <2> QED BY <1>1, <2>1, <2>2, MergeStep, Zenon
<1>4. /\ round' \in [Nodes -> Rounds \cup {NoRound}]
      /\ \A m \in Nodes : RoundOK(written', round'[m])
  BY <1>1, AtKey, DoneStep, Zenon
<1> QED BY <1>1, <1>3, <1>4, RestStays, Assemble, Zenon

LEMMA MergeMetadataStep ==
  ASSUME IndInv, NEW n \in Nodes, NEW k \in Keys, MergeMetadata(n, k)
  PROVE  IndInv'
<1> DEFINE proof == Merge(round[n].local[k].context, round[n].remote[k].context)
           merged == MergeEntries(store[n][k], OnlyContext(proof))
           held == [merged EXCEPT !.context = proof]
<1>1. /\ At(n, k, "next") /\ store' = [store EXCEPT ![n][k] = merged]
      /\ Hold(n, "send_metadata", held)
      /\ written' = written /\ SameRest
  BY Zenon DEF MergeMetadata, SameRest
<1>2. proof \in Vector /\ Within(written, proof)
  BY <1>1, AtKey, MergeIsJoin, WithinMerge
<1> HIDE DEF proof
<1>3. OnlyContext(proof) \in Entry /\ Grounded(written, k, OnlyContext(proof))
  BY <1>1, <1>2, AtKey, NoEntryIsEntry, ContextIsGrounded, Zenon
<1>4. merged \in Entry
  BY <1>1, <1>3, AtKey, MergeEntriesResult
<1>5. store' \in [Nodes -> [Keys -> Entry]] /\ \A m \in Nodes : NodeOK(m)'
  BY <1>1, <1>3, MergeStep, Zenon
<1> HIDE DEF merged
<1>6. held \in Entry /\ held.context = proof
  BY <1>2, <1>4 DEF Entry
<1> HIDE DEF held
<1>7. /\ round' \in [Nodes -> Rounds \cup {NoRound}]
      /\ \A m \in Nodes : RoundOK(written', round'[m])
  BY <1>1, <1>2, <1>6, AtKey, HoldStep, Zenon
<1> QED BY <1>1, <1>5, <1>7, RestStays, Assemble, Zenon

LEMMA SendMetadataStep ==
  ASSUME IndInv, NEW n \in Nodes, NEW k \in Keys, SendMetadata(n, k)
  PROVE  IndInv'
<1> DEFINE p == round[n].peer
           e == round[n].held
           digest == [j \in Keys |-> IF j = k THEN DigestEntry(e) ELSE Blank]
<1>1. /\ At(n, k, "send_metadata") /\ Done(n, k)
      /\ store' = [store EXCEPT ![p] = HandleDigest(p, digest)]
      /\ written' = written /\ SameRest
  BY Zenon DEF SendMetadata, SameRest
<1>2. /\ e \in Entry /\ Within(written, e.context) /\ p \in Nodes
      /\ Zero \in Vector /\ Within(written, Zero)
  BY <1>1, AtKey, NoEntryIsEntry, NothingIsGrounded
<1>3. e.version \in Vector /\ e.context \in Vector
  BY <1>2, EntryParts, Zenon
<1> HIDE DEF e, p
<1>4. digest \in Digest /\ DigestOK(written, digest)
  <2>1. /\ DigestEntry(e) \in [type: EntryTypes, version: Vector, context: Vector]
        /\ Blank \in [type: EntryTypes, version: Vector, context: Vector]
    BY <1>2, <1>3, TypeIsOne, Zenon DEF DigestEntry, Blank, EntryTypes
  <2>2. DigestEntry(e).context = e.context /\ Blank.context = Zero
    BY Zenon DEF DigestEntry, Blank
  <2> QED BY <1>2, <2>1, <2>2, Zenon DEF Digest, DigestOK
<1> HIDE DEF digest
<1>5. store' \in [Nodes -> [Keys -> Entry]] /\ \A m \in Nodes : NodeOK(m)'
  BY <1>1, <1>2, <1>4, HandleDigestStep, Zenon
<1>6. /\ round' \in [Nodes -> Rounds \cup {NoRound}]
      /\ \A m \in Nodes : RoundOK(written', round'[m])
  BY <1>1, AtKey, DoneStep, Zenon
<1> QED BY <1>1, <1>5, <1>6, RestStays, Assemble, Zenon
-----------------------------------------------------------------------------
(* Mutations and their fast path *)

LEMMA ReplicateStep ==
  ASSUME IndInv, NEW n \in Nodes, NEW p \in Nodes, NEW k \in Keys, Replicate(n, p, k)
  PROVE  IndInv'
<1>1. /\ written' = written /\ round' = round /\ SameRest
      /\ store' = [store EXCEPT ![p][k] = MergeEntries(@, store[n][k])]
      /\ TypeOK /\ store[n][k] \in Entry /\ Grounded(written, k, store[n][k])
  BY Types, Zenon DEF Replicate, SameRest, IndInv, NodeOK
<1>2. store' = [store EXCEPT ![p][k] = MergeEntries(store[p][k], store[n][k])]
  BY <1>1, Zenon DEF TypeOK
<1>3. store' \in [Nodes -> [Keys -> Entry]] /\ \A m \in Nodes : NodeOK(m)'
  BY <1>1, <1>2, MergeStep, Zenon
<1> QED BY <1>1, <1>3, Zenon DEF IndInv, TypeOK, SameRest

LEMMA ExtendContextStep ==
  ASSUME IndInv, NEW n \in Nodes, NEW p \in Nodes, NEW k \in Keys, ExtendContext(n, p, k)
  PROVE  IndInv'
<1> DEFINE o == OnlyContext(Clock(p))
<1>1. /\ written' = written /\ round' = round
      /\ kind' = kind /\ recovering' = recovering /\ down' = down
      /\ store' = [store EXCEPT ![n][k] = MergeEntries(@, o)]
      /\ TypeOK /\ written \in Histories
  BY Types, Zenon DEF ExtendContext, IndInv
<1>2. Clock(p) \in Vector /\ Within(written, Clock(p))
  BY ClockResult, Zenon
<1>3. o \in Entry /\ Grounded(written, k, o)
  BY <1>1, <1>2, NoEntryIsEntry, ContextIsGrounded, Zenon
<1> HIDE DEF o
<1>4. store' = [store EXCEPT ![n][k] = MergeEntries(store[n][k], o)]
  BY <1>1, Zenon DEF TypeOK
<1>5. store' \in [Nodes -> [Keys -> Entry]] /\ \A m \in Nodes : NodeOK(m)'
  BY <1>1, <1>3, <1>4, MergeStep
<1>6. incidents' \in 0..MaxIncidents
  BY AntiEntropyAssumption DEF ExtendContext, IndInv, TypeOK
<1> QED BY <1>1, <1>5, <1>6, Zenon DEF IndInv, TypeOK

LEMMA RoundGrows ==
  ASSUME NEW w \in Histories, NEW w2 \in Histories, Extends(w, w2),
         NEW r \in Rounds \cup {NoRound}, RoundOK(w, r)
  PROVE  RoundOK(w2, r)
<1> SUFFICES ASSUME r # NoRound
             PROVE  /\ DigestOK(w2, r.local) /\ DigestOK(w2, r.remote)
                    /\ r.stage \in {"merge", "send"} =>
                         \A k \in First(r.todo, 1) : Grounded(w2, k, r.held)
                    /\ r.stage = "send_metadata" => Within(w2, r.held.context)
  BY Zenon DEF RoundOK
<1>1. r.local \in Digest /\ r.remote \in Digest /\ r.held \in Entry /\ r.todo \in SUBSET Keys
  BY Zenon DEF Rounds
<1>2. r.held.context \in Vector
  BY <1>1, EntryParts, Zenon
<1>3. \A k \in Keys : r.local[k].context \in Vector /\ r.remote[k].context \in Vector
  BY <1>1, Zenon DEF Digest
<1>4. DigestOK(w2, r.local) /\ DigestOK(w2, r.remote)
  BY <1>3, WithinGrows DEF RoundOK, DigestOK
<1>5. ASSUME r.stage \in {"merge", "send"}, NEW k \in First(r.todo, 1) PROVE Grounded(w2, k, r.held)
  <2>1. k \in Keys
    BY <1>1, Zenon DEF First
  <2> QED BY <1>1, <1>5, <2>1, GroundedGrows, Zenon DEF RoundOK
<1>6. r.stage = "send_metadata" => Within(w2, r.held.context)
  BY <1>2, WithinGrows, Zenon DEF RoundOK
<1> QED BY <1>4, <1>5, <1>6, Zenon

LEMMA WriteStep ==
  ASSUME IndInv, NEW n \in Nodes, NEW k \in Keys, NEW o \in Kinds, Write(n, k, o)
  PROVE  IndInv'
<1> DEFINE base == Clock(n)
           counter == Clock(n)[n] + 1
           f == Mutated(store[n][k], base, n, counter)
<1>1. /\ written' = [written EXCEPT ![n] = Append(@, k)]
      /\ round' = round /\ recovering' = recovering /\ down' = down /\ incidents' = incidents
      /\ TypeOK /\ \A m \in Nodes : NodeOK(m) /\ RoundOK(written, round[m])
      /\ written \in Histories /\ n \in Actors /\ Nodes = Actors
      /\ \A m \in Nodes, j \in Keys : store[m][j] \in Entry
  BY Types, Zenon DEF Write, IndInv, Nodes
<1>2. store' = [store EXCEPT ![n][k] = f]
  BY <1>1, Zenon DEF Write, TypeOK
<1>3. written' \in Histories /\ Appended(written, written', n, k)
  BY <1>1, AppendExtends, Zenon
<1>4. Extends(written, written')
  BY <1>1, <1>3, AppendedExtends, Zenon
<1>5. /\ base \in Vector /\ Within(written, base) /\ Leq(store[n][k].context, base)
      /\ base[n] = Len(written[n]) /\ Len(written[n]) \in Nat
  BY <1>1, ClockResult, Types, Zenon
<1>6. counter \in Nat /\ counter = Len(written[n]) + 1
  BY <1>5
<1> HIDE DEF base, counter
<1>7. /\ f \in Entry /\ Grounded(written', k, f) /\ OwnComplete(written', k, f, n)
      /\ f.context[n] = Len(written'[n])
  <2> DEFINE e == store[n][k]
             w2 == written'
  <2>1. /\ written \in Histories /\ w2 \in Histories /\ Appended(written, w2, n, k)
        /\ e \in Entry /\ n \in Actors /\ Grounded(written, k, e) /\ OwnComplete(written, k, e, n)
        /\ Leq(e.context, base) /\ f = Mutated(e, base, n, counter)
    BY <1>1, <1>3, <1>5 DEF NodeOK
  <2> HIDE DEF e, w2, f
  <2>2. /\ f \in Entry /\ Grounded(w2, k, f) /\ OwnComplete(w2, k, f, n)
        /\ WithDot(base, n, counter)[n] = Len(w2[n]) /\ f.context = WithDot(base, n, counter)
    BY <1>5, <1>6, <2>1, MutationIsGrounded
  <2>3. f.context[n] = Len(w2[n])
    BY <2>2, Zenon
  <2> USE DEF w2
  <2> QED BY <2>2, <2>3, Zenon
<1> HIDE DEF f
<1>8. /\ store' \in [Nodes -> [Keys -> Entry]] /\ store'[n][k] = f
      /\ \A j \in Keys \ {k} : store'[n][j] = store[n][j]
      /\ \A m \in Nodes \ {n} : store'[m] = store[m]
  BY <1>1, <1>2, <1>7, Zenon DEF TypeOK
<1>9. Len(written'[n]) \in Nat
  BY <1>1, <1>3 DEF Histories
<1>10. ASSUME NEW m \in Nodes, NEW j \in Keys
       PROVE  Grounded(written', j, store'[m][j]) /\ OwnComplete(written', j, store'[m][j], m)
  <2>1. CASE m = n /\ j = k
    BY <1>7, <1>8, <2>1, Zenon
  <2>2. CASE m # n \/ j # k
    <3>1. store'[m][j] = store[m][j]
      BY <1>8, <2>2, Zenon
    <3>2. Grounded(written, j, store[m][j]) /\ OwnComplete(written, j, store[m][j], m)
      BY <1>1, Zenon DEF NodeOK
    <3>3. Grounded(written', j, store[m][j])
      BY <1>1, <1>3, <1>4, <3>2, GroundedGrows, Zenon
    <3>4. OwnComplete(written', j, store[m][j], m)
      BY <1>1, <1>3, <2>2, <3>2, CompleteElsewhere, Zenon
    <3> QED BY <3>1, <3>3, <3>4, Zenon
  <2> QED BY <2>1, <2>2, Zenon
<1>11. ASSUME NEW m \in Nodes, Len(written'[m]) > 0
       PROVE  \E j \in Keys : store'[m][j].context[m] >= Len(written'[m])
  <2>1. CASE m = n
    <3>1. store'[m][k].context[m] >= Len(written'[m])
      BY <1>7, <1>8, <1>9, <2>1
    <3> QED BY <3>1, Zenon
  <2>2. CASE m # n
    <3>1. written'[m] = written[m]
      BY <1>1, <2>2, Zenon DEF TypeOK
    <3> QED BY <1>1, <1>8, <1>11, <2>2, <3>1, Zenon DEF NodeOK
  <2> QED BY <2>1, <2>2, Zenon
<1>12. ASSUME NEW m \in Nodes PROVE NodeOK(m)'
  BY <1>10, <1>11, Zenon DEF NodeOK
<1>13. ASSUME NEW m \in Nodes PROVE RoundOK(written', round'[m])
  <2>1. round[m] \in Rounds \cup {NoRound}
    BY <1>1, Zenon DEF TypeOK
  <2> QED BY <1>1, <1>3, <1>4, <2>1, RoundGrows
<1>14. written' \in [Nodes -> Seq(Keys)]
  BY <1>1, <1>3, Zenon DEF Histories
<1>15. TypeOK'
  <2>1. kind[n] \in Seq(Kinds) /\ kind' = [kind EXCEPT ![n] = Append(kind[n], o)]
    BY <1>1, Zenon DEF Write, TypeOK
  <2>2. Append(kind[n], o) \in Seq(Kinds)
    BY <2>1
  <2>3. kind' \in [Nodes -> Seq(Kinds)]
    BY <1>1, <2>1, <2>2, Zenon DEF TypeOK
  <2> QED BY <1>1, <1>8, <1>14, <2>3, Zenon DEF TypeOK
<1> QED BY <1>12, <1>13, <1>15, Zenon DEF IndInv
-----------------------------------------------------------------------------
(* The theorems *)

LEMMA InitIndInv ==
  ASSUME Init
  PROVE  IndInv
<1>1. written \in [Nodes -> Seq(Keys)] /\ \A n \in Nodes : written[n] = <<>> /\ Len(written[n]) = 0
  BY DEF Init
<1>2. written \in Histories
  BY <1>1, Zenon DEF Histories, Nodes
<1>3. NoEntry \in Entry
  BY NoEntryIsEntry, Zenon
<1>4. TypeOK
  BY <1>1, <1>3, AntiEntropyAssumption DEF Init, TypeOK
<1>5. ASSUME NEW n \in Nodes PROVE NodeOK(n)
  <2>1. \A k \in Keys : store[n][k] = NoEntry
    BY Zenon DEF Init
  <2>2. \A k \in Keys : Grounded(written, k, NoEntry)
    BY <1>2, NothingIsGrounded, Zenon
  <2>3. \A k \in Keys : OwnComplete(written, k, NoEntry, n)
    BY <1>1 DEF OwnComplete
  <2>4. ~(Len(written[n]) > 0)
    BY <1>1
  <2> QED BY <2>1, <2>2, <2>3, <2>4, Zenon DEF NodeOK
<1>6. ASSUME NEW n \in Nodes PROVE RoundOK(written, round[n])
  BY NoRoundIsOK, Zenon DEF Init
<1> QED BY <1>4, <1>5, <1>6, Zenon DEF IndInv

LEMMA NextIndInv ==
  ASSUME IndInv, [Next]_vars
  PROVE  IndInv'
<1>1. ASSUME NEW n \in Nodes, NEW k \in Keys, KeyStep(n, k) PROVE IndInv'
  BY <1>1, SkipEqualStep, FetchStateStep, MergeFetchedStep, ReadToSendStep, SendStateStep,
     MergeMetadataStep, SendMetadataStep, RoundRaisesStep DEF KeyStep
<1>2. ASSUME NEW n \in Nodes, Proceed(n) PROVE IndInv'
  BY <1>1, <1>2, RecoverStep, ExchangeStep, RoundFailsStep, Zenon DEF Proceed
<1>3. CASE UNCHANGED vars
  BY <1>3 DEF vars, IndInv, TypeOK, NodeOK
<1>4. CASE Next
  BY <1>2, <1>4, BeginRoundStep, RoundFailsStep, RestartStep, WriteStep, ReplicateStep,
     ExtendContextStep, Zenon DEF Next
<1> QED BY <1>3, <1>4, Zenon

\* Entries, digests and the rounds of run_once() keep their shape.
THEOREM AntiEntropyTypeCorrect == Spec => []TypeOK
<1>1. Init => IndInv
  BY InitIndInv, Zenon
<1>2. IndInv /\ [Next]_vars => IndInv'
  BY NextIndInv
<1>3. IndInv => TypeOK
  BY Zenon DEF IndInv
<1> QED BY <1>1, <1>2, <1>3, PTL DEF Spec

\* However old the digests on which run_once() acts, and wherever a round fails
\* or its node restarts, the version of every entry tells exactly which mutations
\* the entry contains.
THEOREM RepairKeepsExact == Spec => []VersionsStayExact
<1>1. Init => IndInv
  BY InitIndInv
<1>2. IndInv /\ [Next]_vars => IndInv'
  BY NextIndInv, Zenon
<1>3. IndInv => VersionsStayExact
  BY Zenon DEF IndInv, NodeOK, Grounded, VersionsStayExact
<1> QED BY <1>1, <1>2, <1>3, PTL DEF Spec
=============================================================================
