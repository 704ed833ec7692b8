-------------------------- MODULE TaskRoutingProofs --------------------------
(***************************************************************************)
(* TaskRouting for any nodes, requests, rings and limits: no slot of a     *)
(* node or of a worker pool leaks or is freed twice, a task is executed    *)
(* again only after a loss, and a half-open breaker refuses only on        *)
(* account of probes that are under way.                                   *)
(*                                                                         *)
(* IndInv adds to these what they rest on: where a request stands with its *)
(* candidate and its attempts (RequestOK), and that executions are         *)
(* numbered per request, so that each has a slot of its own (ExecOK).      *)
(***************************************************************************)
EXTENDS TaskRouting, FiniteSetTheorems, TLAPS

\* A request that is being forwarded has a candidate of the ring.  Attempts are
\* counted from zero for each candidate and one is left before each of them.
RequestOK(q, r) ==
  /\ q.cand # 0
  /\ q.pc \in {"forward", "sent", "remote", "replied"} => q.cand <= Len(Candidates[r])
  /\ q.pc \in {"new", "route"} => q.tries = 0
  /\ q.pc = "forward" => q.tries < MaxAttempts

\* Two executions differ in their request or their number.
Distinct(E) == \A e, f \in E : e.req = f.req /\ e.no = f.no => e = f

\* A handler awaits at most one local execution of a request, and the request is
\* then at that point.
LocalOK(E, q) ==
  \A e \in E : ~e.remote /\ e.waiting =>
    /\ q[e.req].pc = "local"
    /\ \A f \in E : ~f.remote /\ f.waiting /\ f.req = e.req => f = e

ExecOK ==
  /\ IsFiniteSet(execs)
  /\ Distinct(execs)
  /\ \A e \in execs : e.no <= started[e.req]
  /\ LocalOK(execs, req)

IndInv ==
  /\ TypeOK
  /\ SlotsExact
  /\ RepeatsNeedLoss
  /\ ProbeSlotsHeld
  /\ \A r \in Requests : RequestOK(req[r], r)
  /\ ExecOK
-----------------------------------------------------------------------------
(* The candidates of a key *)

\* A set of naturals that is not empty has a least element.
LEMMA LeastNatural ==
  ASSUME NEW S \in SUBSET Nat, S # {}
  PROVE  \E m \in S : \A x \in S : m <= x
<1> DEFINE R == OpToRel(<, Nat)
<1>1. PICK m \in S : \A y \in S : ~(<<y, m>> \in R)
  <2> HIDE DEF R
  <2>1. IsWellFoundedOn(R, Nat)
    BY NatLessThanWellFounded, Zenon DEF R
  <2> QED BY <2>1, WFMin, Zenon
<1>2. ASSUME NEW x \in S PROVE m <= x
  <2>1. x \in Nat /\ m \in Nat
    OBVIOUS
  <2>2. ~(x < m)
    BY <1>1, <2>1, Zenon DEF OpToRel
  <2> QED BY <2>1, <2>2
<1> QED BY <1>2, Zenon

\* What the loop of candidates() has found after i points.
FoundAfter(walk, f, n) ==
  f = [i \in 0..n |->
         IF i = 0 THEN <<>>
         ELSE IF walk[i] \in Range(f[i - 1]) THEN f[i - 1] ELSE Append(f[i - 1], walk[i])]

\* The loop runs to any point of the walk and finds nodes of the ring.
LEMMA LoopRuns ==
  ASSUME NEW walk \in Seq(Nodes), NEW n \in 0..Len(walk)
  PROVE  \E f \in [0..n -> Seq(Nodes)] : FoundAfter(walk, f, n)
<1> DEFINE P(k) == \E f \in [0..k -> Seq(Nodes)] : FoundAfter(walk, f, k)
           Bad == {k \in 0..Len(walk) : ~P(k)}
<1>1. P(0)
  <2> DEFINE f == [i \in 0..0 |-> <<>>]
  <2>1. f \in [0..0 -> Seq(Nodes)]
    OBVIOUS
  <2>2. FoundAfter(walk, f, 0)
    BY DEF FoundAfter
  <2> QED BY <2>1, <2>2, Zenon
<1>2. ASSUME NEW k \in 0..Len(walk), k # 0, P(k - 1)
      PROVE  P(k)
  <2>1. PICK f \in [0..(k - 1) -> Seq(Nodes)] : FoundAfter(walk, f, k - 1)
    BY <1>2, Zenon
  <2> DEFINE last == IF walk[k] \in Range(f[k - 1]) THEN f[k - 1] ELSE Append(f[k - 1], walk[k])
             g == [i \in 0..k |-> IF i = k THEN last ELSE f[i]]
  <2>2. k \in Nat /\ k - 1 \in 0..(k - 1) /\ walk[k] \in Nodes /\ f[k - 1] \in Seq(Nodes)
    BY <1>2
  <2>3. last \in Seq(Nodes)
    <3> HIDE DEF g
    <3>1. Append(f[k - 1], walk[k]) \in Seq(Nodes)
      BY <2>2
    <3> QED BY <2>2, <3>1, Zenon
  <2>4. g \in [0..k -> Seq(Nodes)]
    <3>1. ASSUME NEW i \in 0..k PROVE g[i] \in Seq(Nodes)
      <4> HIDE DEF last
      <4>1. i = k \/ i \in 0..(k - 1)
        BY <2>2
      <4> QED BY <2>3, <4>1, Zenon
    <3> HIDE DEF last
    <3> QED BY <3>1, Zenon
  <2>5. ASSUME NEW i \in 0..k
        PROVE  g[i] = IF i = 0 THEN <<>>
                      ELSE IF walk[i] \in Range(g[i - 1]) THEN g[i - 1] ELSE Append(g[i - 1], walk[i])
    <3>1. CASE i = k
      <4>1. g[i] = last /\ g[i - 1] = f[k - 1]
        <5> HIDE DEF last
        <5> QED BY <2>2, <3>1
      <4> QED BY <1>2, <3>1, <4>1, Zenon
    <3>2. CASE i # k
      <4>1. i \in 0..(k - 1) /\ (i # 0 => i - 1 \in 0..(k - 1))
        BY <2>2, <3>2
      <4>2. g[i] = f[i] /\ (i # 0 => g[i - 1] = f[i - 1])
        <5> HIDE DEF last
        <5> QED BY <2>2, <4>1
      <4>3. f[i] = IF i = 0 THEN <<>>
                   ELSE IF walk[i] \in Range(f[i - 1]) THEN f[i - 1] ELSE Append(f[i - 1], walk[i])
        BY <2>1, <4>1, Zenon DEF FoundAfter
      <4> HIDE DEF g
      <4> QED BY <4>2, <4>3, Zenon
    <3> QED BY <3>1, <3>2, Zenon
  <2>6. FoundAfter(walk, g, k)
    BY <2>5, Zenon DEF FoundAfter
  <2> HIDE DEF g
  <2> QED BY <2>4, <2>6, Zenon
<1> HIDE DEF P
<1>3. Bad = {}
  <2> SUFFICES ASSUME Bad # {} PROVE FALSE
    OBVIOUS
  <2>1. PICK m \in Bad : \A x \in Bad : m <= x
    <3>1. Bad \in SUBSET Nat
      OBVIOUS
    <3> HIDE DEF Bad
    <3> QED BY <3>1, LeastNatural, Zenon
  <2>2. m \in 0..Len(walk) /\ ~P(m) /\ m # 0 /\ m - 1 \in 0..Len(walk)
    BY <1>1
  <2>3. P(m - 1)
    BY <2>1, <2>2
  <2> QED BY <1>2, <2>2, <2>3, Zenon
<1> QED BY <1>3, Zenon DEF P

\* The reference: s lists the owners of the first i points of the walk, each once
\* and in the order of its first point.
ListsOwners(s, walk, i) ==
  /\ s \in Seq(Nodes)
  /\ \A x \in Nodes : x \in Range(s) <=> \E j \in 1..i : walk[j] = x
  /\ \A a, b \in 1..Len(s) :
       a < b => \E j \in 1..i : walk[j] = s[a] /\ \A k \in 1..j : walk[k] # s[b]

\* One iteration of the loop.
LEMMA LoopStep ==
  ASSUME NEW walk \in Seq(Nodes), NEW i \in 1..Len(walk), NEW s, ListsOwners(s, walk, i - 1)
  PROVE  ListsOwners(IF walk[i] \in Range(s) THEN s ELSE Append(s, walk[i]), walk, i)
<1> DEFINE n == Len(s)
<1>1. /\ s \in Seq(Nodes) /\ n \in Nat /\ walk[i] \in Nodes /\ i \in Nat /\ i - 1 \in Nat
      /\ \A j : j \in 1..i <=> j \in 1..(i - 1) \/ j = i
  BY DEF ListsOwners
<1>2. \A x \in Nodes : x \in Range(s) <=> \E j \in 1..(i - 1) : walk[j] = x
  BY Zenon DEF ListsOwners
<1>3. ASSUME NEW a \in 1..n, NEW b \in 1..n, a < b
      PROVE  \E j \in 1..i : walk[j] = s[a] /\ \A k \in 1..j : walk[k] # s[b]
  BY <1>1, <1>3 DEF ListsOwners
<1>4. CASE walk[i] \in Range(s)
  <2>1. ASSUME NEW x \in Nodes PROVE x \in Range(s) <=> \E j \in 1..i : walk[j] = x
    BY <1>1, <1>2, <1>4, Zenon
  <2> QED BY <1>1, <1>3, <1>4, <2>1 DEF ListsOwners
<1>5. CASE walk[i] \notin Range(s)
  <2> DEFINE t == Append(s, walk[i])
  <2>1. /\ t \in Seq(Nodes) /\ Len(t) = n + 1 /\ t[n + 1] = walk[i]
        /\ \A a \in 1..n : t[a] = s[a] /\ s[a] \in Nodes
        /\ \A a : a \in 1..(n + 1) <=> a \in 1..n \/ a = n + 1
    BY <1>1
  <2> HIDE DEF t, n
  <2>2. ASSUME NEW x \in Nodes PROVE x \in Range(t) <=> \E j \in 1..i : walk[j] = x
    <3>1. x \in Range(t) <=> x \in Range(s) \/ x = walk[i]
      <4>1. DOMAIN t = 1..(n + 1) /\ DOMAIN s = 1..n
        BY <1>1, <2>1 DEF n
      <4>2. x \in Range(t) <=> \E a \in 1..(n + 1) : x = t[a]
        BY <4>1, Zenon DEF Range
      <4>3. x \in Range(s) <=> \E a \in 1..n : x = s[a]
        BY <4>1, Zenon DEF Range
      <4> QED BY <2>1, <4>2, <4>3, Zenon
    <3> QED BY <1>1, <1>2, <3>1, Zenon
  <2>3. ASSUME NEW a \in 1..(n + 1), NEW b \in 1..(n + 1), a < b
        PROVE  \E j \in 1..i : walk[j] = t[a] /\ \A k \in 1..j : walk[k] # t[b]
    <3>1. a \in 1..n /\ (b \in 1..n \/ b = n + 1)
      BY <1>1, <2>1, <2>3
    <3>2. CASE b \in 1..n
      BY <1>3, <2>1, <2>3, <3>1, <3>2
    <3>3. CASE b = n + 1
      <4>1. s[a] \in Range(s) /\ s[a] \in Nodes
        BY <2>1, <3>1 DEF Range, n
      <4>2. PICK j \in 1..(i - 1) : walk[j] = s[a]
        BY <1>2, <4>1, Zenon
      <4>3. j \in 1..i /\ \A k \in 1..j : k \in 1..(i - 1)
        BY <1>1
      <4>4. \A k \in 1..(i - 1) : walk[k] # walk[i]
        BY <1>1, <1>2, <1>5, Zenon
      <4> QED BY <2>1, <3>1, <3>3, <4>2, <4>3, <4>4, Zenon
    <3> QED BY <3>1, <3>2, <3>3, Zenon
  <2>4. ListsOwners(t, walk, i)
    BY <2>1, <2>2, <2>3 DEF ListsOwners
  <2> QED BY <1>5, <2>4, Zenon DEF t
<1> QED BY <1>4, <1>5, Zenon

\* candidates() of ConsistentHashRing lists exactly the owners of the ring's
\* points, each once and in the order of its first point, whatever the ring.
THEOREM OwnersInOrder ==
  ASSUME NEW walk \in Seq(Nodes)
  PROVE  ListsOwners(FirstOwners(walk), walk, Len(walk))
<1> DEFINE n == Len(walk)
           f == CHOOSE g : FoundAfter(walk, g, n)
<1>1. n \in Nat /\ n \in 0..n
  OBVIOUS
<1>2. PICK h \in [0..n -> Seq(Nodes)] : FoundAfter(walk, h, n)
  BY <1>1, LoopRuns, Zenon
<1>3. FoundAfter(walk, f, n)
  BY <1>2, Zenon
<1>4. FirstOwners(walk) = f[n]
  BY Zenon DEF FirstOwners, FoundAfter
<1> HIDE DEF f
<1> DEFINE Bad == {i \in 0..n : ~ListsOwners(f[i], walk, i)}
<1>5. ASSUME NEW i \in 0..n
      PROVE  f[i] = IF i = 0 THEN <<>>
                    ELSE IF walk[i] \in Range(f[i - 1]) THEN f[i - 1] ELSE Append(f[i - 1], walk[i])
  BY <1>3, Zenon DEF FoundAfter
<1>6. Bad = {}
  <2> SUFFICES ASSUME Bad # {} PROVE FALSE
    OBVIOUS
  <2>1. PICK m \in Bad : \A x \in Bad : m <= x
    <3>1. Bad \in SUBSET Nat
      OBVIOUS
    <3> HIDE DEF Bad
    <3> QED BY <3>1, LeastNatural, Zenon
  <2>2. m \in 0..n /\ ~ListsOwners(f[m], walk, m)
    OBVIOUS
  <2>3. m # 0
    <3>1. 0 \in 0..n
      BY <1>1
    <3>2. f[0] = <<>>
      BY <1>5, <3>1, Zenon
    <3>3. <<>> \in Seq(Nodes) /\ Len(<<>>) = 0
      OBVIOUS
    <3>4. ListsOwners(<<>>, walk, 0)
      BY <3>3 DEF ListsOwners, Range
    <3> QED BY <2>2, <3>2, <3>4, Zenon
  <2>4. m - 1 \in 0..n /\ m \in 1..Len(walk) /\ m - 1 < m
    BY <2>2, <2>3
  <2>5. ListsOwners(f[m - 1], walk, m - 1)
    <3>1. m - 1 \notin Bad
      <4> HIDE DEF Bad
      <4>1. ~(m <= m - 1)
        BY <2>2
      <4> QED BY <2>1, <4>1, Zenon
    <3> QED BY <2>4, <3>1, Zenon
  <2> DEFINE s == f[m - 1]
             t == f[m]
  <2>6. t = IF walk[m] \in Range(s) THEN s ELSE Append(s, walk[m])
    BY <1>5, <2>2, <2>3, Zenon
  <2> HIDE DEF Bad, s, t
  <2>7. ListsOwners(t, walk, m)
    BY <2>4, <2>5, <2>6, LoopStep, Zenon DEF s
  <2> QED BY <2>2, <2>7, Zenon DEF t
<1> QED BY <1>1, <1>4, <1>6, Zenon

\* In particular candidates() returns nodes of the ring.
LEMMA OwnersAreNodes ==
  ASSUME NEW walk \in Seq(Nodes)
  PROVE  FirstOwners(walk) \in Seq(Nodes)
BY OwnersInOrder, Zenon DEF ListsOwners

\* So a request is only ever sent to nodes.
LEMMA CandidateSequence ==
  ASSUME NEW r \in Requests
  PROVE  Candidates[r] \in Seq(Nodes) /\ Len(Candidates[r]) \in Nat
<1>1. Candidates[r] = IF r \in Keyed THEN FirstOwners(Walk[r]) ELSE <<Origin[r]>>
  BY Zenon DEF Candidates
<1>2. FirstOwners(Walk[r]) \in Seq(Nodes)
  <2>1. Walk[r] \in Seq(Nodes)
    BY RoutingAssumption, Zenon
  <2> QED BY <2>1, OwnersAreNodes, Zenon
<1>3. <<Origin[r]>> \in Seq(Nodes)
  BY RoutingAssumption
<1>4. Candidates[r] \in Seq(Nodes)
  BY <1>1, <1>2, <1>3, Zenon
<1> QED BY <1>4

-----------------------------------------------------------------------------
(* What a step leaves to be shown when it changes one request and no slot *)

AccountedIn(q) ==
  \/ q.pc \in {"local", "remote"}
  \/ q.pc \in {"replied", "done"} /\ q.code \in {"OK", "INTERNAL_ERROR", "TIMEOUT"}

\* A request that stands at q holds a probe of the breaker of l.
Probing(q, r, l) ==
  /\ q.pc \in {"sent", "remote", "replied"}
  /\ <<Origin[r], Candidates[r][q.cand]>> = l /\ q.start = "HALF_OPEN"

LEMMA Types ==
  ASSUME IndInv
  PROVE  /\ req \in [Requests -> Request] /\ tokens \in [Nodes -> 0..Burst]
         /\ breaker \in [Nodes \X Nodes -> Breaker]
         /\ admitted \in [Nodes -> 0..Capacity] /\ pending \in [Nodes -> 0..MaxPending]
         /\ broken \subseteq Nodes /\ execs \subseteq Execution
         /\ started \in [Requests -> Nat] /\ lost \in [Requests -> Nat]
BY Zenon DEF IndInv, TypeOK

LEMMA RequestFrame ==
  ASSUME IndInv, NEW r \in Requests, NEW q \in Request, RequestOK(q, r),
         req' = [req EXCEPT ![r] = q]
  PROVE  /\ req' \in [Requests -> Request]
         /\ \A s \in Requests : RequestOK(req'[s], s)
<1>1. req \in [Requests -> Request]
  BY Types, Zenon
<1>2. \A s \in Requests : RequestOK(req[s], s)
  BY Zenon DEF IndInv
<1>3. \A s \in Requests : req'[s] = IF s = r THEN q ELSE req[s]
  BY <1>1, Zenon
<1> QED BY <1>1, <1>2, <1>3, Zenon

LEMMA CountFrame ==
  ASSUME IndInv, NEW r \in Requests, NEW q \in Request, req' = [req EXCEPT ![r] = q],
         NEW i \in Nat, started' = [started EXCEPT ![r] = i],
         NEW j \in Nat, lost' = [lost EXCEPT ![r] = j],
         i <= j + (IF AccountedIn(q) THEN 1 ELSE 0)
  PROVE  RepeatsNeedLoss' /\ started' \in [Requests -> Nat] /\ lost' \in [Requests -> Nat]
<1>1. req \in [Requests -> Request] /\ started \in [Requests -> Nat] /\ lost \in [Requests -> Nat]
  BY Types, Zenon
<1>2. \A s \in Requests : started[s] <= lost[s] + (IF AccountedIn(req[s]) THEN 1 ELSE 0)
  BY Zenon DEF IndInv, RepeatsNeedLoss, Accounted, AccountedIn
<1>3. ASSUME NEW s \in Requests
      PROVE  started'[s] <= lost'[s] + (IF AccountedIn(req'[s]) THEN 1 ELSE 0)
  <2>1. CASE s = r
    BY <1>1, <2>1, Zenon
  <2>2. CASE s # r
    BY <1>1, <1>2, <2>2, Zenon
  <2> QED BY <2>1, <2>2, Zenon
<1>4. RepeatsNeedLoss'
  BY <1>3, Zenon DEF RepeatsNeedLoss, Accounted, AccountedIn
<1> QED BY <1>1, <1>4, Zenon

LEMMA ProbeSets ==
  ASSUME NEW l
  PROVE  /\ ProbesUnderWay(l) = {s \in Requests : Probing(req[s], s, l)}
         /\ ProbesUnderWay(l)' = {s \in Requests : Probing(req'[s], s, l)}
BY Zenon DEF ProbesUnderWay, Probing, Link, Candidate

LEMMA ProbesFinite ==
  ASSUME NEW S \in SUBSET Requests, NEW T \in SUBSET S
  PROVE  /\ IsFiniteSet(S) /\ IsFiniteSet(T) /\ Cardinality(S) \in Nat
         /\ Cardinality(T) \in Nat /\ Cardinality(T) <= Cardinality(S)
<1>1. IsFiniteSet(Requests)
  BY RoutingAssumption, Zenon
<1>2. IsFiniteSet(S)
  BY <1>1, FS_Subset, Zenon
<1>3. IsFiniteSet(T) /\ Cardinality(T) <= Cardinality(S)
  BY <1>2, FS_Subset, Zenon
<1> QED BY <1>2, <1>3, FS_CardinalityType, Zenon

\* A breaker that stays half-open takes no slot, and its probes go on.
LEMMA ProbeFrame ==
  ASSUME IndInv, breaker' \in [Nodes \X Nodes -> Breaker],
         \A l \in Nodes \X Nodes : breaker'[l].state = "HALF_OPEN" =>
           /\ breaker[l].state = "HALF_OPEN" /\ breaker'[l].probes = breaker[l].probes
           /\ \A s \in Requests : Probing(req[s], s, l) => Probing(req'[s], s, l)
  PROVE  ProbeSlotsHeld'
<1> SUFFICES ASSUME NEW l \in Nodes \X Nodes, breaker'[l].state = "HALF_OPEN"
             PROVE  breaker'[l].probes <= Cardinality(ProbesUnderWay(l)')
  BY Zenon DEF ProbeSlotsHeld
<1> DEFINE S == ProbesUnderWay(l)'
           T == ProbesUnderWay(l)
<1>1. T \in SUBSET S /\ S \in SUBSET Requests
  BY ProbeSets, Zenon
<1>2. breaker[l].probes <= Cardinality(T) /\ breaker'[l].probes = breaker[l].probes
  BY Zenon DEF IndInv, ProbeSlotsHeld
<1>3. breaker'[l].probes \in Nat
  BY Zenon DEF Breaker
<1> HIDE DEF S, T
<1>4. Cardinality(T) <= Cardinality(S) /\ Cardinality(T) \in Nat /\ Cardinality(S) \in Nat
  BY <1>1, ProbesFinite, Zenon
<1>5. breaker'[l].probes <= Cardinality(S)
  BY <1>2, <1>3, <1>4
<1> QED BY <1>5, Zenon DEF S

\* The breakers do not change and the probe of the request goes on.
LEMMA ProbeKept ==
  ASSUME IndInv, NEW r \in Requests, NEW q \in Request, req' = [req EXCEPT ![r] = q],
         UNCHANGED breaker, \A l : Probing(req[r], r, l) => Probing(q, r, l)
  PROVE  ProbeSlotsHeld'
<1>1. req \in [Requests -> Request] /\ breaker' \in [Nodes \X Nodes -> Breaker]
  BY Types, Zenon
<1>2. \A s \in Requests : req'[s] = IF s = r THEN q ELSE req[s]
  BY <1>1, Zenon
<1>3. \A l : \A s \in Requests : Probing(req[s], s, l) => Probing(req'[s], s, l)
  BY <1>2, Zenon
<1> QED BY <1>1, <1>3, ProbeFrame, Zenon

\* An exchange ends: a probe never leaves its breaker half-open, and another call
\* takes none of its slots.
LEMMA ProbeEnds ==
  ASSUME IndInv, NEW r \in Requests, NEW q \in Request, req' = [req EXCEPT ![r] = q],
         NEW b \in Breaker, breaker' = [breaker EXCEPT ![Link(r)] = b],
         b.state = "HALF_OPEN" => /\ req[r].start # "HALF_OPEN"
                                  /\ breaker[Link(r)].state = "HALF_OPEN"
                                  /\ breaker[Link(r)].probes = b.probes
  PROVE  ProbeSlotsHeld' /\ breaker' \in [Nodes \X Nodes -> Breaker]
<1> DEFINE L == Link(r)
<1>1. req \in [Requests -> Request] /\ breaker \in [Nodes \X Nodes -> Breaker]
  BY Types, Zenon
<1>2. \A s \in Requests : req'[s] = IF s = r THEN q ELSE req[s]
  BY <1>1, Zenon
<1>3. \A l : Probing(req[r], r, l) => l = L /\ req[r].start = "HALF_OPEN"
  BY Zenon DEF Probing, Link, Candidate
<1> HIDE DEF L
<1>4. breaker' = [breaker EXCEPT ![L] = b]
  BY Zenon DEF L
<1>5. breaker' \in [Nodes \X Nodes -> Breaker]
  BY <1>1, <1>4, Zenon
<1>6. ASSUME NEW l \in Nodes \X Nodes, breaker'[l].state = "HALF_OPEN"
      PROVE  /\ breaker[l].state = "HALF_OPEN" /\ breaker'[l].probes = breaker[l].probes
             /\ \A s \in Requests : Probing(req[s], s, l) => Probing(req'[s], s, l)
  <2>1. CASE l = L
    <3>1. breaker'[l] = b
      BY <1>1, <1>4, <2>1, Zenon
    <3>2. req[r].start # "HALF_OPEN" /\ breaker[l].state = "HALF_OPEN" /\ breaker[l].probes = b.probes
      BY <1>6, <2>1, <3>1, Zenon DEF L
    <3> QED BY <1>2, <1>3, <3>1, <3>2, Zenon
  <2>2. CASE l # L
    <3>1. breaker'[l] = breaker[l]
      BY <1>1, <1>4, <2>2, Zenon
    <3> QED BY <1>2, <1>3, <1>6, <2>2, <3>1, Zenon
  <2> QED BY <2>1, <2>2, Zenon
<1> QED BY <1>5, <1>6, ProbeFrame, Zenon

LEMMA LocalFrame ==
  ASSUME IndInv, NEW r \in Requests, NEW q \in Request, req' = [req EXCEPT ![r] = q],
         req[r].pc = "local" => q.pc = "local"
  PROVE  LocalOK(execs, req')
<1>1. req \in [Requests -> Request] /\ execs \subseteq Execution
  BY Types, Zenon
<1>2. \A s \in Requests : req'[s] = IF s = r THEN q ELSE req[s]
  BY <1>1, Zenon
<1>3. \A e \in execs : e.req \in Requests
  BY <1>1, Zenon DEF Execution
<1>4. LocalOK(execs, req)
  BY Zenon DEF IndInv, ExecOK
<1> QED BY <1>2, <1>3, <1>4 DEF LocalOK

\* The executions and the slots do not change.
LEMMA SlotsFrame ==
  ASSUME IndInv, UNCHANGED <<admitted, pending, broken, execs>>
  PROVE  /\ SlotsExact'
         /\ admitted' \in [Nodes -> 0..Capacity] /\ pending' \in [Nodes -> 0..MaxPending]
         /\ broken' \subseteq Nodes /\ execs' \subseteq Execution
         /\ IsFiniteSet(execs') /\ Distinct(execs')
<1>1. SlotsExact'
  BY Zenon DEF IndInv, SlotsExact, JobDone
<1>2. IsFiniteSet(execs') /\ Distinct(execs')
  BY Zenon DEF IndInv, ExecOK
<1> QED BY <1>1, <1>2, Types, Zenon

\* A step of a request at its origin that starts and ends no execution.
LEMMA OriginFrame ==
  ASSUME IndInv, NEW r \in Requests, NEW q \in Request, req' = [req EXCEPT ![r] = q],
         RequestOK(q, r), req[r].pc = "local" => q.pc = "local", UNCHANGED slots,
         tokens' \in [Nodes -> 0..Burst], breaker' \in [Nodes \X Nodes -> Breaker],
         ProbeSlotsHeld',
         NEW j \in Nat, lost' = [lost EXCEPT ![r] = j],
         started[r] <= j + (IF AccountedIn(q) THEN 1 ELSE 0)
  PROVE  IndInv'
<1>1. UNCHANGED <<admitted, pending, broken, execs>> /\ started' = started
  BY Zenon DEF slots
<1>2. started[r] \in Nat /\ started' = [started EXCEPT ![r] = started[r]]
  <2>1. started \in [Requests -> Nat]
    BY Types, Zenon
  <2> QED BY <1>1, <2>1, Zenon
<1>3. RepeatsNeedLoss' /\ started' \in [Requests -> Nat] /\ lost' \in [Requests -> Nat]
  <2> DEFINE i == started[r]
  <2>1. i \in Nat /\ started' = [started EXCEPT ![r] = i] /\ i <= j + (IF AccountedIn(q) THEN 1 ELSE 0)
    BY <1>2, Zenon
  <2> HIDE DEF i
  <2> QED BY <2>1, CountFrame, Zenon
<1>4. req' \in [Requests -> Request] /\ \A s \in Requests : RequestOK(req'[s], s)
  BY RequestFrame, Zenon
<1>5. LocalOK(execs', req')
  BY <1>1, LocalFrame, Zenon
<1>6. \A e \in execs' : e.no <= started'[e.req]
  BY <1>1, Zenon DEF IndInv, ExecOK
<1>7. ExecOK' /\ SlotsExact' /\ (\A s \in Requests : RequestOK(req[s], s)')
  BY <1>1, <1>4, <1>5, <1>6, SlotsFrame, Zenon DEF ExecOK, RequestOK, LocalOK, Distinct
<1>8. TypeOK'
  BY <1>1, <1>3, <1>4, SlotsFrame, Zenon DEF TypeOK
<1> QED BY <1>3, <1>7, <1>8, Zenon DEF IndInv
\* No request and no slot changes.
LEMMA SameFrame ==
  ASSUME IndInv, UNCHANGED req, UNCHANGED slots, UNCHANGED lost,
         tokens' \in [Nodes -> 0..Burst], breaker' \in [Nodes \X Nodes -> Breaker],
         ProbeSlotsHeld'
  PROVE  IndInv'
<1>1. UNCHANGED <<admitted, pending, broken, execs>> /\ started' = started
  BY Zenon DEF slots
<1>2. RepeatsNeedLoss' /\ started' \in [Requests -> Nat] /\ lost' \in [Requests -> Nat]
  BY <1>1, Types, Zenon DEF IndInv, RepeatsNeedLoss, Accounted
<1>3. TypeOK'
  BY <1>1, <1>2, SlotsFrame, Types, Zenon DEF TypeOK
<1>4. ExecOK' /\ \A s \in Requests : RequestOK(req[s], s)'
  BY <1>1, Zenon DEF IndInv, ExecOK, Distinct, LocalOK, RequestOK
<1> QED BY <1>1, <1>2, <1>3, <1>4, SlotsFrame, Zenon DEF IndInv

-----------------------------------------------------------------------------
(* The steps of a request that start and end no execution *)

Answered(code) == [Received EXCEPT !.pc = "done", !.code = code]
FailedOver(q) == [Received EXCEPT !.pc = "route", !.late = q.late, !.cand = q.cand + 1]

LEMMA ReceivedRecord == Received \in Request
<1>1. 0 \in 0..MaxAttempts /\ 1 \in Nat
  BY RoutingAssumption
<1> QED BY <1>1, Zenon DEF Received, Request, Pcs, CircuitState, Codes

LEMMA AnsweredRecord ==
  ASSUME NEW r \in Requests, NEW code \in Codes
  PROVE  /\ Answered(code) \in Request /\ RequestOK(Answered(code), r)
         /\ Answered(code).pc = "done" /\ Answered(code).code = code
<1>1. Answered(code) \in Request
  BY ReceivedRecord, Zenon DEF Answered, Request, Pcs
<1>2. /\ Answered(code).pc = "done" /\ Answered(code).code = code
      /\ Answered(code).cand = 1
  BY Zenon DEF Answered, Received
<1>3. RequestOK(Answered(code), r)
  BY <1>2 DEF RequestOK
<1> QED BY <1>1, <1>2, <1>3, Zenon

LEMMA FailedOverRecord ==
  ASSUME NEW r \in Requests, NEW q \in Request
  PROVE  /\ FailedOver(q) \in Request /\ RequestOK(FailedOver(q), r)
         /\ FailedOver(q).pc = "route"
<1>1. q.cand + 1 \in Nat /\ q.cand + 1 # 0 /\ q.late \in BOOLEAN
  BY DEF Request
<1>2. FailedOver(q) \in Request
  <2> DEFINE c == q.cand + 1
             t == q.late
  <2>1. FailedOver(q) = [Received EXCEPT !.pc = "route", !.late = t, !.cand = c]
    BY Zenon DEF FailedOver
  <2>2. c \in Nat /\ t \in BOOLEAN
    BY <1>1, Zenon
  <2> HIDE DEF c, t
  <2> QED BY <2>1, <2>2, ReceivedRecord, Zenon DEF Request, Pcs
<1>3. FailedOver(q).pc = "route" /\ FailedOver(q).cand = q.cand + 1 /\ FailedOver(q).tries = 0
  BY Zenon DEF FailedOver, Received
<1>4. RequestOK(FailedOver(q), r)
  BY <1>1, <1>3, Zenon DEF RequestOK
<1> QED BY <1>2, <1>3, <1>4, Zenon

\* Before a request is executed, what was executed for it is lost.
LEMMA NothingUnderWay ==
  ASSUME IndInv, NEW r \in Requests, req[r].pc \in {"new", "route", "forward", "sent"}
  PROVE  started[r] <= lost[r]
<1>1. started[r] \in Nat /\ lost[r] \in Nat
  BY Types, Zenon
<1>2. ~Accounted(r)
  BY Zenon DEF Accounted
<1> QED BY <1>1, <1>2 DEF IndInv, RepeatsNeedLoss

\* A request that no execution and no answer stands for may end, or go on to its
\* next candidate, in any way.
LEMMA LeaveStep ==
  ASSUME IndInv, NEW r \in Requests, NEW q \in Request, req' = [req EXCEPT ![r] = q],
         RequestOK(q, r), req[r].pc \in {"new", "route", "forward"}, UNCHANGED slots,
         tokens' \in [Nodes -> 0..Burst], UNCHANGED <<breaker, lost>>
  PROVE  IndInv'
<1>1. lost \in [Requests -> Nat] /\ started \in [Requests -> Nat]
      /\ breaker' \in [Nodes \X Nodes -> Breaker]
  BY Types, Zenon
<1>2. started[r] <= lost[r]
  BY <1>1, NothingUnderWay, Zenon
<1>3. ProbeSlotsHeld'
  <2>1. \A l : ~Probing(req[r], r, l)
    BY Zenon DEF Probing
  <2> QED BY <2>1, ProbeKept, Zenon
<1> DEFINE j == lost[r]
<1>4. /\ j \in Nat /\ lost' = [lost EXCEPT ![r] = j]
      /\ started[r] <= j + (IF AccountedIn(q) THEN 1 ELSE 0)
  BY <1>1, <1>2
<1> HIDE DEF j
<1> QED BY <1>1, <1>3, <1>4, OriginFrame, Zenon

LEMMA ReceiveStep ==
  ASSUME IndInv, NEW r \in Requests, Receive(r)
  PROVE  IndInv'
<1>1. /\ req \in [Requests -> Request] /\ tokens \in [Nodes -> 0..Burst]
      /\ req[r] \in Request /\ RequestOK(req[r], r) /\ req[r].pc = "new"
  BY Types, Zenon DEF IndInv, Receive
<1>2. UNCHANGED slots /\ UNCHANGED <<breaker, lost>>
  BY Zenon DEF Receive
<1>3. CASE Allow(Origin[r]) /\ req' = [req EXCEPT ![r].pc = "route"]
  <2> DEFINE q == [req[r] EXCEPT !.pc = "route"]
  <2>1. q \in Request /\ RequestOK(q, r)
    BY <1>1, Zenon DEF Request, RequestOK, Pcs
  <2>2. req' = [req EXCEPT ![r] = q]
    BY <1>1, <1>3, Zenon
  <2>3. tokens' \in [Nodes -> 0..Burst]
    <3>1. Origin[r] \in Nodes /\ Burst \in Nat
      BY RoutingAssumption, Zenon
    <3> QED BY <1>1, <1>3, <3>1 DEF Allow
  <2> HIDE DEF q
  <2> QED BY <1>1, <1>2, <2>1, <2>2, <2>3, LeaveStep, Zenon
<1>4. CASE Finish(r, "RATE_LIMITED") /\ UNCHANGED tokens
  <2> DEFINE q == Answered("RATE_LIMITED")
  <2>1. q \in Request /\ RequestOK(q, r)
    BY AnsweredRecord, Zenon DEF Codes
  <2>2. req' = [req EXCEPT ![r] = q] /\ tokens' \in [Nodes -> 0..Burst]
    BY <1>1, <1>4, Zenon DEF Finish, Answered
  <2> HIDE DEF q
  <2> QED BY <1>1, <1>2, <2>1, <2>2, LeaveStep, Zenon
<1> QED BY <1>3, <1>4, Zenon DEF Receive

LEMMA ExpireStep ==
  ASSUME IndInv, NEW r \in Requests, Expire(r)
  PROVE  IndInv'
<1> DEFINE q == [req[r] EXCEPT !.late = TRUE]
           j == lost[r]
<1>1. /\ req \in [Requests -> Request] /\ tokens' \in [Nodes -> 0..Burst]
      /\ breaker' \in [Nodes \X Nodes -> Breaker] /\ UNCHANGED <<breaker, lost>>
      /\ req[r] \in Request /\ RequestOK(req[r], r) /\ UNCHANGED slots
      /\ lost \in [Requests -> Nat] /\ started \in [Requests -> Nat]
  BY Types, Zenon DEF IndInv, Expire
<1>2. q \in Request
  BY <1>1, Zenon DEF Request
<1>3. q.pc = req[r].pc /\ q.cand = req[r].cand /\ q.tries = req[r].tries
      /\ q.start = req[r].start /\ q.code = req[r].code
  BY <1>1, Zenon DEF Request
<1>4. req' = [req EXCEPT ![r] = q]
  BY <1>1, Zenon DEF Expire
<1>5. started[r] <= lost[r] + (IF AccountedIn(req[r]) THEN 1 ELSE 0)
  BY Zenon DEF IndInv, RepeatsNeedLoss, Accounted, AccountedIn
<1> HIDE DEF q
<1>6. RequestOK(q, r) /\ AccountedIn(q) = AccountedIn(req[r])
      /\ \A l : Probing(req[r], r, l) => Probing(q, r, l)
  BY <1>1, <1>3, Zenon DEF RequestOK, AccountedIn, Probing
<1>7. ProbeSlotsHeld'
  BY <1>1, <1>2, <1>4, <1>6, ProbeKept, Zenon
<1>8. j \in Nat /\ lost' = [lost EXCEPT ![r] = j] /\ started[r] <= j + (IF AccountedIn(q) THEN 1 ELSE 0)
  BY <1>1, <1>5, <1>6, Zenon
<1> HIDE DEF j
<1> QED BY <1>1, <1>2, <1>3, <1>4, <1>6, <1>7, <1>8, OriginFrame, Zenon

LEMMA RouteStep ==
  ASSUME IndInv, NEW r \in Requests, Route(r)
  PROVE  IndInv'
<1>1. /\ req \in [Requests -> Request] /\ tokens' \in [Nodes -> 0..Burst]
      /\ req[r] \in Request /\ RequestOK(req[r], r) /\ req[r].pc = "route"
      /\ UNCHANGED slots /\ UNCHANGED <<breaker, lost>>
  BY Types, Zenon DEF IndInv, Route
<1>2. ASSUME NEW code \in Codes, Finish(r, code)
      PROVE  IndInv'
  <2> DEFINE q == Answered(code)
  <2>1. q \in Request /\ RequestOK(q, r)
    BY AnsweredRecord, Zenon
  <2>2. req' = [req EXCEPT ![r] = q]
    BY <1>2, Zenon DEF Finish, Answered
  <2> HIDE DEF q
  <2> QED BY <1>1, <2>1, <2>2, LeaveStep, Zenon
<1>3. CASE req[r].cand > Len(Candidates[r])
  BY <1>2, <1>3, Zenon DEF Route, Codes
<1>4. CASE req[r].cand <= Len(Candidates[r]) /\ req[r].late
  <2>1. ~(req[r].cand > Len(Candidates[r]))
    <3>1. req[r].cand \in Nat
      BY <1>1, Zenon DEF Request
    <3>2. Candidates[r] \in Seq(Nodes)
      BY CandidateSequence, Zenon
    <3>3. Len(Candidates[r]) \in Nat
      <4> HIDE DEF Candidates
      <4> QED BY <3>2
    <3> QED BY <1>4, <3>1, <3>3
  <2>2. Finish(r, "TIMEOUT")
    BY <1>4, <2>1, Zenon DEF Route
  <2> QED BY <1>2, <2>2, Zenon DEF Codes
<1>5. CASE ~(req[r].cand > Len(Candidates[r])) /\ ~(req[r].cand <= Len(Candidates[r]) /\ req[r].late)
  <2> DEFINE q == [req[r] EXCEPT !.pc = "forward"]
  <2>1. req' = [req EXCEPT ![r].pc = "forward"]
    BY <1>5, Zenon DEF Route
  <2>2. req' = [req EXCEPT ![r] = q] /\ q \in Request
    BY <1>1, <2>1, Zenon DEF Request, Pcs
  <2>3. q.pc = "forward" /\ q.cand = req[r].cand /\ q.tries = req[r].tries
    BY <1>1, Zenon DEF Request
  <2> HIDE DEF q
  <2>4. q.cand <= Len(Candidates[r])
    <3>1. req[r].cand \in Nat
      BY <1>1 DEF Request
    <3>2. Len(Candidates[r]) \in Nat
      BY CandidateSequence, Zenon
    <3> QED BY <1>5, <2>3, <3>1, <3>2
  <2>5. q.tries < MaxAttempts
    <3>1. q.tries = 0
      BY <1>1, <2>3, Zenon DEF RequestOK
    <3> QED BY <3>1, RoutingAssumption
  <2>6. RequestOK(q, r)
    BY <1>1, <2>3, <2>4, <2>5, Zenon DEF RequestOK
  <2> QED BY <1>1, <2>2, <2>6, LeaveStep, Zenon
<1> QED BY <1>3, <1>4, <1>5, Zenon

\* The candidate refuses: the request goes on to the next one or is answered.
LEMMA RefusedLocally ==
  ASSUME IndInv, NEW r \in Requests, req[r].pc = "route", NEW code \in Codes,
         NextCandidate(r) \/ Finish(r, code), UNCHANGED slots, UNCHANGED <<tokens, breaker, lost>>
  PROVE  IndInv'
<1>1. /\ req[r] \in Request /\ tokens' \in [Nodes -> 0..Burst]
  BY Types, Zenon
<1>2. CASE NextCandidate(r)
  <2> DEFINE q == FailedOver(req[r])
  <2>1. q \in Request /\ RequestOK(q, r)
    BY <1>1, FailedOverRecord, Zenon
  <2>2. req' = [req EXCEPT ![r] = q]
    BY <1>2, Zenon DEF NextCandidate, FailedOver
  <2> HIDE DEF q
  <2> QED BY <1>1, <2>1, <2>2, LeaveStep, Zenon
<1>3. CASE Finish(r, code)
  <2> DEFINE q == Answered(code)
  <2>1. q \in Request /\ RequestOK(q, r)
    BY AnsweredRecord, Zenon
  <2>2. req' = [req EXCEPT ![r] = q]
    BY <1>3, Zenon DEF Finish, Answered
  <2> HIDE DEF q
  <2> QED BY <1>1, <2>1, <2>2, LeaveStep, Zenon
<1> QED BY <1>2, <1>3, Zenon

LEMMA RefusalCode ==
  ASSUME NEW r, NEW n
  PROVE  Refusal(r, n) \in {"OVERLOADED", "INTERNAL_ERROR", "NONE"}
BY Zenon DEF Refusal

LEMMA RefillStep ==
  ASSUME IndInv, NEW n \in Nodes, Refill(n)
  PROVE  IndInv'
<1>1. tokens' \in [Nodes -> 0..Burst]
  <2>1. tokens \in [Nodes -> 0..Burst] /\ Burst \in Nat
    BY Types, RoutingAssumption, Zenon
  <2> QED BY <2>1 DEF Refill
<1>2. UNCHANGED <<req, breaker, lost>> /\ UNCHANGED slots
  BY Zenon DEF Refill
<1> QED BY <1>1, <1>2, SameFrame, Types, Zenon DEF IndInv, ProbeSlotsHeld, ProbesUnderWay, Link, Candidate

LEMMA CoolDownStep ==
  ASSUME IndInv, NEW l \in Nodes \X Nodes, CoolDown(l)
  PROVE  IndInv'
<1>1. UNCHANGED <<req, tokens, lost>> /\ UNCHANGED slots
  BY Zenon DEF CoolDown
<1>2. breaker' = [breaker EXCEPT ![l] = Cooled(breaker[l])] /\ breaker[l].state = "OPEN"
  BY Zenon DEF CoolDown
<1>3. breaker \in [Nodes \X Nodes -> Breaker]
  BY Types, Zenon
<1>4. Cooled(breaker[l]) \in Breaker /\ Cooled(breaker[l]).state = "OPEN"
  BY <1>2, <1>3, Zenon DEF Cooled, Breaker
<1>5. breaker' \in [Nodes \X Nodes -> Breaker]
  BY <1>2, <1>3, <1>4, Zenon
<1>6. ProbeSlotsHeld'
  <2>1. ASSUME NEW k \in Nodes \X Nodes, breaker'[k].state = "HALF_OPEN"
        PROVE  breaker'[k] = breaker[k]
    BY <1>2, <1>3, <1>4, <2>1, Zenon
  <2> QED BY <1>1, <1>5, <2>1, ProbeFrame, Zenon
<1> QED BY <1>1, <1>5, <1>6, SameFrame, Types, Zenon
-----------------------------------------------------------------------------
(* Exchanges and the breaker *)

LEMMA LinkType ==
  ASSUME IndInv, NEW r \in Requests, req[r].pc \in {"forward", "sent", "remote", "replied"}
  PROVE  Link(r) \in Nodes \X Nodes /\ Candidate(r) \in Nodes /\ breaker[Link(r)] \in Breaker
<1>1. req[r] \in Request /\ RequestOK(req[r], r) /\ breaker \in [Nodes \X Nodes -> Breaker]
  BY Types, Zenon DEF IndInv
<1>2. req[r].cand \in Nat /\ req[r].cand # 0 /\ req[r].cand <= Len(Candidates[r])
  BY <1>1, Zenon DEF Request, RequestOK
<1>3. Candidates[r] \in Seq(Nodes) /\ Len(Candidates[r]) \in Nat
  BY CandidateSequence, Zenon
<1>4. req[r].cand \in 1..Len(Candidates[r])
  BY <1>2, <1>3
<1>5. Candidates[r][req[r].cand] \in Nodes
  <2> HIDE DEF Candidates
  <2> QED BY <1>3, <1>4
<1>6. Origin[r] \in Nodes
  BY RoutingAssumption, Zenon
<1> QED BY <1>1, <1>5, <1>6, Zenon DEF Link, Candidate

LEMMA BreakerAdmits ==
  ASSUME NEW b \in Breaker, Admits(b)
  PROVE  /\ BeforeCall(b) \in Breaker /\ BeforeCall(b).state \in {"CLOSED", "HALF_OPEN"}
         /\ b.state = "CLOSED" => BeforeCall(b).state = "CLOSED"
         /\ b.state = "OPEN" => BeforeCall(b).probes = 1
         /\ b.state = "HALF_OPEN" => BeforeCall(b).probes = b.probes + 1
<1>1. b.state \in {"CLOSED", "OPEN", "HALF_OPEN"} /\ b.probes \in Nat
  BY Zenon DEF Breaker, CircuitState
<1>2. CASE b.state = "CLOSED"
  BY <1>2, Zenon DEF BeforeCall
<1>3. CASE b.state = "OPEN"
  <2>1. BeforeCall(b) = [b EXCEPT !.state = "HALF_OPEN", !.probes = 1]
    BY <1>3, Zenon DEF BeforeCall
  <2>2. BeforeCall(b) \in Breaker
    <3> DEFINE k == "HALF_OPEN"
               p == 1
    <3>1. k \in CircuitState /\ p \in Nat
      BY Zenon DEF CircuitState
    <3>2. BeforeCall(b) = [b EXCEPT !.state = k, !.probes = p]
      BY <2>1, Zenon
    <3> HIDE DEF k, p
    <3> QED BY <3>1, <3>2, Zenon DEF Breaker
  <2>3. BeforeCall(b).state = "HALF_OPEN" /\ BeforeCall(b).probes = 1
    BY <2>1, Zenon DEF Breaker
  <2> QED BY <1>3, <2>2, <2>3, Zenon
<1>4. CASE b.state = "HALF_OPEN"
  <2> DEFINE p == b.probes + 1
  <2>1. BeforeCall(b) = [b EXCEPT !.probes = p] /\ p \in Nat
    BY <1>1, <1>4 DEF BeforeCall
  <2>2. BeforeCall(b) \in Breaker /\ BeforeCall(b).state = "HALF_OPEN" /\ BeforeCall(b).probes = p
    <3> HIDE DEF p
    <3> QED BY <1>4, <2>1, Zenon DEF Breaker
  <2>3. BeforeCall(b).probes = b.probes + 1
    BY <2>2, Zenon
  <2> HIDE DEF p
  <2> QED BY <1>4, <2>2, <2>3, Zenon
<1> QED BY <1>1, <1>2, <1>3, <1>4, Zenon

\* A result leaves a breaker half-open only if it is not that of a probe, and
\* then takes and frees no slot.
LEMMA BreakerResult ==
  ASSUME NEW b \in Breaker, NEW start \in CircuitState,
         NEW c \in {RecordSuccess(b, start), RecordFailure(b, start)}
  PROVE  /\ c \in Breaker
         /\ c.state = "HALF_OPEN" => /\ start # "HALF_OPEN" /\ b.state = "HALF_OPEN"
                                     /\ b.probes = c.probes
<1> DEFINE p == ProbeOver(b.probes)
           m == b.failures + 1
<1>1. p \in Nat /\ m \in Nat /\ FailureThreshold \in Nat
  BY BreakerAssumption DEF Breaker, ProbeOver
<1> HIDE DEF p
<1>2. CASE c = RecordSuccess(b, start) /\ start = "HALF_OPEN"
  <2>1. c = [state |-> "CLOSED", failures |-> 0, probes |-> p, cooled |-> FALSE]
    BY <1>2, Zenon DEF RecordSuccess, p
  <2> QED BY <1>1, <2>1, Zenon DEF Breaker, CircuitState
<1>3. CASE c = RecordSuccess(b, start) /\ start # "HALF_OPEN"
  <2>1. c = [b EXCEPT !.failures = 0]
    BY <1>3, Zenon DEF RecordSuccess
  <2> QED BY <1>3, <2>1 DEF Breaker
<1>4. CASE c = RecordFailure(b, start) /\ start = "HALF_OPEN"
  <2>1. c = [state |-> "OPEN", failures |-> FailureThreshold, probes |-> p, cooled |-> FALSE]
    BY <1>4, Zenon DEF RecordFailure, p
  <2> QED BY <1>1, <2>1, Zenon DEF Breaker, CircuitState
<1>5. CASE c = RecordFailure(b, start) /\ start # "HALF_OPEN" /\ m >= FailureThreshold
  <2>1. c = [b EXCEPT !.state = "OPEN", !.failures = m, !.cooled = FALSE]
    BY <1>5, Zenon DEF RecordFailure
  <2> HIDE DEF m
  <2> QED BY <1>1, <2>1, Zenon DEF Breaker, CircuitState
<1>6. CASE c = RecordFailure(b, start) /\ start # "HALF_OPEN" /\ ~(m >= FailureThreshold)
  <2>1. c = [b EXCEPT !.failures = m]
    BY <1>6, Zenon DEF RecordFailure
  <2> HIDE DEF m
  <2> QED BY <1>1, <1>6, <2>1, Zenon DEF Breaker
<1> QED BY <1>2, <1>3, <1>4, <1>5, <1>6, Zenon

\* A request that leaves an exchange, the result of which goes to its breaker.
LEMMA ExchangeEnds ==
  ASSUME IndInv, NEW r \in Requests, req[r].pc \in {"sent", "remote", "replied"},
         NEW b \in {RecordSuccess(breaker[Link(r)], req[r].start),
                    RecordFailure(breaker[Link(r)], req[r].start)},
         breaker' = [breaker EXCEPT ![Link(r)] = b],
         NEW q \in Request, req' = [req EXCEPT ![r] = q], RequestOK(q, r),
         UNCHANGED slots, UNCHANGED tokens,
         NEW j \in Nat, lost' = [lost EXCEPT ![r] = j],
         started[r] <= j + (IF AccountedIn(q) THEN 1 ELSE 0)
  PROVE  IndInv'
<1>1. breaker[Link(r)] \in Breaker
  BY LinkType, Zenon
<1>2. req[r].start \in CircuitState
  BY Types, Zenon DEF Request
<1>3. /\ b \in Breaker
      /\ b.state = "HALF_OPEN" => /\ req[r].start # "HALF_OPEN"
                                  /\ breaker[Link(r)].state = "HALF_OPEN"
                                  /\ breaker[Link(r)].probes = b.probes
  BY <1>1, <1>2, BreakerResult, Zenon
<1>4. ProbeSlotsHeld' /\ breaker' \in [Nodes \X Nodes -> Breaker]
  BY <1>3, ProbeEnds, Zenon
<1>5. tokens' \in [Nodes -> 0..Burst]
  BY Types, Zenon
<1> QED BY <1>4, <1>5, OriginFrame, Zenon

\* An admitted attempt takes its slot of a half-open breaker together with the
\* request.
LEMMA ProbeStarts ==
  ASSUME IndInv, NEW r \in Requests, req[r].pc = "forward", Admits(breaker[Link(r)]),
         NEW b, b = BeforeCall(breaker[Link(r)]), breaker' = [breaker EXCEPT ![Link(r)] = b],
         NEW q \in Request, req' = [req EXCEPT ![r] = q],
         q.pc = "sent", q.cand = req[r].cand, q.start = b.state
  PROVE  ProbeSlotsHeld' /\ breaker' \in [Nodes \X Nodes -> Breaker]
<1> DEFINE L == Link(r)
           old == breaker[L]
<1>1. req \in [Requests -> Request] /\ breaker \in [Nodes \X Nodes -> Breaker]
  BY Types, Zenon
<1>2. L \in Nodes \X Nodes /\ old \in Breaker
  BY LinkType, Zenon
<1>3. \A s \in Requests : req'[s] = IF s = r THEN q ELSE req[s]
  BY <1>1, Zenon
<1>4. /\ \A l : ~Probing(req[r], r, l)
      /\ \A l : Probing(q, r, l) <=> (l = L /\ b.state = "HALF_OPEN")
  BY Zenon DEF Probing, Link, Candidate
<1>5. breaker' = [breaker EXCEPT ![L] = b] /\ b = BeforeCall(old) /\ Admits(old)
  OBVIOUS
<1> HIDE DEF L, old
<1>6. /\ b \in Breaker /\ b.state \in {"CLOSED", "HALF_OPEN"}
      /\ old.state = "CLOSED" => b.state = "CLOSED"
      /\ old.state = "OPEN" => b.probes = 1
      /\ old.state = "HALF_OPEN" => b.probes = old.probes + 1
  BY <1>2, <1>5, BreakerAdmits, Zenon
<1>7. breaker' \in [Nodes \X Nodes -> Breaker]
  BY <1>1, <1>5, <1>6, Zenon
<1>8. ASSUME NEW l \in Nodes \X Nodes, breaker'[l].state = "HALF_OPEN"
      PROVE  breaker'[l].probes <= Cardinality(ProbesUnderWay(l)')
  <2> DEFINE S == ProbesUnderWay(l)'
             T == ProbesUnderWay(l)
  <2>1. T = {s \in Requests : Probing(req[s], s, l)} /\ S = {s \in Requests : Probing(req'[s], s, l)}
    BY ProbeSets, Zenon
  <2>2. T \in SUBSET S /\ S \in SUBSET Requests /\ r \notin T
    BY <1>3, <1>4, <2>1, Zenon
  <2>3. breaker[l].state = "HALF_OPEN" => breaker[l].probes <= Cardinality(T)
    BY Zenon DEF IndInv, ProbeSlotsHeld
  <2>4. l = L => S = T \cup {r}
    <3>1. ASSUME l = L PROVE Probing(q, r, l)
      <4>1. b.state = "HALF_OPEN"
        BY <1>1, <1>2, <1>5, <1>8, <3>1, Zenon
      <4> QED BY <1>4, <3>1, <4>1, Zenon
    <3> HIDE DEF S, T
    <3> QED BY <1>3, <1>4, <2>1, <3>1
  <2> HIDE DEF S, T
  <2>5. /\ IsFiniteSet(T) /\ Cardinality(T) \in Nat /\ Cardinality(S) \in Nat
        /\ Cardinality(T) <= Cardinality(S)
    BY <2>2, ProbesFinite, Zenon
  <2>6. CASE l # L
    <3>1. breaker'[l] = breaker[l]
      BY <1>1, <1>5, <2>6, Zenon
    <3>2. breaker[l].probes \in Nat
      BY <1>1, Zenon DEF Breaker
    <3>3. breaker[l].probes <= Cardinality(S)
      BY <1>8, <2>3, <2>5, <3>1, <3>2
    <3> QED BY <3>1, <3>3, Zenon DEF S
  <2>7. CASE l = L
    <3>1. breaker'[l] = b /\ old = breaker[l]
      BY <1>1, <1>5, <2>7, Zenon DEF old
    <3>2. Cardinality(S) = Cardinality(T) + 1
      BY <2>2, <2>4, <2>5, <2>7, FS_AddElement
    <3>3. old.probes \in Nat /\ old.state \in {"CLOSED", "OPEN", "HALF_OPEN"}
      BY <1>2, Zenon DEF Breaker, CircuitState
    <3>4. b.probes <= Cardinality(T) + 1
      <4>1. CASE old.state = "OPEN"
        BY <1>6, <2>5, <4>1
      <4>2. CASE old.state = "HALF_OPEN"
        BY <1>6, <2>3, <2>5, <3>1, <3>3, <4>2
      <4>3. old.state # "CLOSED"
        BY <1>6, <1>8, <3>1, Zenon
      <4> QED BY <3>3, <4>1, <4>2, <4>3, Zenon
    <3>5. b.probes <= Cardinality(S)
      BY <3>2, <3>4, Zenon
    <3> QED BY <3>1, <3>5, Zenon DEF S
  <2> QED BY <2>6, <2>7, Zenon
<1>9. ProbeSlotsHeld'
  BY <1>8, Zenon DEF ProbeSlotsHeld
<1> QED BY <1>7, <1>9, Zenon

LEMMA AttemptStep ==
  ASSUME IndInv, NEW r \in Requests, Attempt(r)
  PROVE  IndInv'
<1>1. /\ req \in [Requests -> Request] /\ tokens' \in [Nodes -> 0..Burst]
      /\ req[r] \in Request /\ RequestOK(req[r], r) /\ req[r].pc = "forward"
      /\ UNCHANGED slots /\ UNCHANGED <<tokens, lost>>
  BY Types, Zenon DEF IndInv, Attempt
<1>2. CASE Finish(r, "TIMEOUT") /\ UNCHANGED breaker
  <2> DEFINE q == Answered("TIMEOUT")
  <2>1. q \in Request /\ RequestOK(q, r)
    BY AnsweredRecord, Zenon DEF Codes
  <2>2. req' = [req EXCEPT ![r] = q]
    BY <1>2, Zenon DEF Finish, Answered
  <2> HIDE DEF q
  <2> QED BY <1>1, <1>2, <2>1, <2>2, LeaveStep, Zenon
<1>3. CASE NextCandidate(r) /\ UNCHANGED breaker
  <2> DEFINE q == FailedOver(req[r])
  <2>1. q \in Request /\ RequestOK(q, r)
    BY <1>1, FailedOverRecord, Zenon
  <2>2. req' = [req EXCEPT ![r] = q]
    BY <1>3, Zenon DEF NextCandidate, FailedOver
  <2> HIDE DEF q
  <2> QED BY <1>1, <1>3, <2>1, <2>2, LeaveStep, Zenon
<1>4. CASE /\ Admits(breaker[Link(r)])
           /\ breaker' = [breaker EXCEPT ![Link(r)] = BeforeCall(breaker[Link(r)])]
           /\ req' = [req EXCEPT ![r].pc = "sent", ![r].tries = @ + 1,
                                 ![r].start = BeforeCall(breaker[Link(r)]).state]
  <2> DEFINE b == BeforeCall(breaker[Link(r)])
             t == req[r].tries + 1
             k == b.state
             q == [req[r] EXCEPT !.pc = "sent", !.tries = t, !.start = k]
             j == lost[r]
  <2>1. k \in CircuitState
    <3>1. k \in {"CLOSED", "HALF_OPEN"}
      BY <1>1, <1>4, LinkType, BreakerAdmits, Zenon
    <3> HIDE DEF k
    <3> QED BY <3>1, Zenon DEF CircuitState
  <2>2. t \in 0..MaxAttempts
    <3>1. req[r].tries \in Nat /\ req[r].tries < MaxAttempts /\ MaxAttempts \in Nat
      BY <1>1, RoutingAssumption DEF Request, RequestOK
    <3> QED BY <3>1
  <2>3. breaker' = [breaker EXCEPT ![Link(r)] = b] /\ Admits(breaker[Link(r)]) /\ k = b.state
    BY <1>4, Zenon
  <2>4. req' = [req EXCEPT ![r] = q]
    BY <1>1, <1>4, Zenon
  <2> HIDE DEF b, t, k
  <2>5. q \in Request /\ q.pc = "sent" /\ q.cand = req[r].cand /\ q.start = k
    BY <1>1, <2>1, <2>2, Zenon DEF Request, Pcs
  <2> HIDE DEF q
  <2>6. RequestOK(q, r)
    BY <1>1, <2>5, Zenon DEF RequestOK
  <2>7. ProbeSlotsHeld' /\ breaker' \in [Nodes \X Nodes -> Breaker]
    BY <1>1, <2>3, <2>4, <2>5, ProbeStarts, Zenon DEF b
  <2>8. /\ j \in Nat /\ lost' = [lost EXCEPT ![r] = j]
        /\ started[r] <= j + (IF AccountedIn(q) THEN 1 ELSE 0)
    <3>1. lost \in [Requests -> Nat] /\ started \in [Requests -> Nat]
      BY Types, Zenon
    <3>2. started[r] <= lost[r]
      BY <1>1, NothingUnderWay, Zenon
    <3> QED BY <1>1, <3>1, <3>2
  <2> HIDE DEF j
  <2> QED BY <1>1, <2>4, <2>5, <2>6, <2>7, <2>8, OriginFrame, Zenon
<1> QED BY <1>2, <1>3, <1>4, Zenon DEF Attempt

\* The peer refuses: its answer is on its way and stands for no execution.
LEMMA RefusedRemotely ==
  ASSUME IndInv, NEW r \in Requests, req[r].pc = "sent", NEW code \in Codes,
         req' = [req EXCEPT ![r].pc = "replied", ![r].code = code],
         UNCHANGED slots, UNCHANGED <<tokens, breaker, lost>>
  PROVE  IndInv'
<1> DEFINE q == [req[r] EXCEPT !.pc = "replied", !.code = code]
           j == lost[r]
<1>1. /\ req \in [Requests -> Request] /\ tokens' \in [Nodes -> 0..Burst]
      /\ breaker' \in [Nodes \X Nodes -> Breaker]
      /\ lost \in [Requests -> Nat] /\ started \in [Requests -> Nat]
      /\ req[r] \in Request /\ RequestOK(req[r], r)
  BY Types, Zenon DEF IndInv
<1>2. q \in Request /\ req' = [req EXCEPT ![r] = q]
  BY <1>1, Zenon DEF Request, Pcs
<1>3. q.pc = "replied" /\ q.cand = req[r].cand /\ q.start = req[r].start
  BY <1>1, Zenon DEF Request
<1> HIDE DEF q
<1>4. RequestOK(q, r)
  BY <1>1, <1>3, Zenon DEF RequestOK
<1>5. ProbeSlotsHeld'
  <2>1. \A l : Probing(req[r], r, l) => Probing(q, r, l)
    BY <1>3, Zenon DEF Probing
  <2> QED BY <1>2, <2>1, ProbeKept, Zenon
<1>6. started[r] <= lost[r]
  BY <1>1, NothingUnderWay, Zenon
<1>7. /\ j \in Nat /\ lost' = [lost EXCEPT ![r] = j]
      /\ started[r] <= j + (IF AccountedIn(q) THEN 1 ELSE 0)
  BY <1>1, <1>6
<1> HIDE DEF j
<1> QED BY <1>1, <1>2, <1>4, <1>5, <1>7, OriginFrame, Zenon

\* An exchange that fails has lost what the peer began to execute for it.
LEMMA NoAnswerStep ==
  ASSUME IndInv, NEW r \in Requests, NoAnswer(r),
         AfterFailure(r) \/ Finish(r, "INTERNAL_ERROR")
  PROVE  IndInv'
<1> DEFINE b == RecordFailure(breaker[Link(r)], req[r].start)
           nothing == req[r].pc = "sent" \/ (req[r].pc = "replied" /\ req[r].code = "OVERLOADED")
           j == IF nothing THEN lost[r] ELSE lost[r] + 1
<1>1. /\ req \in [Requests -> Request] /\ req[r] \in Request /\ RequestOK(req[r], r)
      /\ lost \in [Requests -> Nat] /\ started \in [Requests -> Nat]
  BY Types, Zenon DEF IndInv
<1>2. /\ req[r].pc \in {"sent", "remote", "replied"} /\ UNCHANGED slots /\ UNCHANGED tokens
      /\ lost' = IF nothing THEN lost ELSE [lost EXCEPT ![r] = @ + 1]
  BY Zenon DEF NoAnswer
<1>3. breaker' = [breaker EXCEPT ![Link(r)] = b]
  BY Zenon DEF NoAnswer
<1>4. started[r] <= lost[r] + (IF AccountedIn(req[r]) THEN 1 ELSE 0)
  BY Zenon DEF IndInv, RepeatsNeedLoss, Accounted, AccountedIn
<1>5. nothing => ~AccountedIn(req[r])
  BY Zenon DEF AccountedIn
<1>6. j \in Nat /\ lost' = [lost EXCEPT ![r] = j] /\ started[r] <= j
  <2> HIDE DEF nothing
  <2>1. CASE nothing
    BY <1>1, <1>2, <1>4, <1>5, <2>1
  <2>2. CASE ~nothing
    <3>1. j = lost[r] + 1 /\ lost' = [lost EXCEPT ![r] = lost[r] + 1]
      BY <1>1, <1>2, <2>2, Zenon
    <3>2. started[r] <= lost[r] + 1
      BY <1>1, <1>4
    <3>3. lost[r] + 1 \in Nat
      BY <1>1
    <3> HIDE DEF j
    <3> QED BY <3>1, <3>2, <3>3, Zenon
  <2> QED BY <2>1, <2>2, Zenon
<1> HIDE DEF b, j
<1>7. ASSUME NEW q \in Request, req' = [req EXCEPT ![r] = q], RequestOK(q, r)
      PROVE  IndInv'
  <2>1. started[r] <= j + (IF AccountedIn(q) THEN 1 ELSE 0)
    BY <1>1, <1>6
  <2> QED BY <1>2, <1>3, <1>6, <1>7, <2>1, ExchangeEnds, Zenon DEF b
<1>8. CASE NextCandidate(r)
  <2> DEFINE q == FailedOver(req[r])
  <2>1. q \in Request /\ RequestOK(q, r)
    BY <1>1, FailedOverRecord, Zenon
  <2>2. req' = [req EXCEPT ![r] = q]
    BY <1>8, Zenon DEF NextCandidate, FailedOver
  <2> HIDE DEF q
  <2> QED BY <1>7, <2>1, <2>2, Zenon
<1>9. ASSUME NEW code \in {"TIMEOUT", "INTERNAL_ERROR"}, Finish(r, code) PROVE IndInv'
  <2> DEFINE q == Answered(code)
  <2>1. q \in Request /\ RequestOK(q, r)
    BY AnsweredRecord DEF Codes
  <2>2. req' = [req EXCEPT ![r] = q]
    BY <1>9, Zenon DEF Finish, Answered
  <2> HIDE DEF q
  <2> QED BY <1>7, <2>1, <2>2, Zenon
<1>10. CASE /\ req[r].tries < MaxAttempts
            /\ req' = [req EXCEPT ![r].pc = "forward", ![r].start = "CLOSED", ![r].code = "NONE"]
  <2> DEFINE q == [req[r] EXCEPT !.pc = "forward", !.start = "CLOSED", !.code = "NONE"]
  <2>1. q \in Request /\ req' = [req EXCEPT ![r] = q]
    BY <1>1, <1>10, Zenon DEF Request, Pcs, CircuitState, Codes
  <2>2. q.pc = "forward" /\ q.cand = req[r].cand /\ q.tries = req[r].tries
    BY <1>1, Zenon DEF Request
  <2> HIDE DEF q
  <2>3. RequestOK(q, r)
    BY <1>1, <1>2, <1>10, <2>2, Zenon DEF RequestOK
  <2> QED BY <1>7, <2>1, <2>3, Zenon
<1> QED BY <1>2, <1>8, <1>9, <1>10, Zenon DEF AfterFailure

LEMMA ExchangeReturnsStep ==
  ASSUME IndInv, NEW r \in Requests, ExchangeReturns(r)
  PROVE  IndInv'
<1> DEFINE b == RecordSuccess(breaker[Link(r)], req[r].start)
           j == lost[r]
<1>1. /\ req \in [Requests -> Request] /\ req[r] \in Request /\ RequestOK(req[r], r)
      /\ lost \in [Requests -> Nat] /\ started \in [Requests -> Nat]
  BY Types DEF IndInv
<1>2. /\ req[r].pc = "replied" /\ UNCHANGED slots /\ UNCHANGED <<tokens, lost>>
      /\ IF req[r].code = "OVERLOADED" THEN NextCandidate(r) ELSE Finish(r, req[r].code)
  BY Zenon DEF ExchangeReturns
<1>3. breaker' = [breaker EXCEPT ![Link(r)] = b]
  BY Zenon DEF ExchangeReturns
<1>4. started[r] <= lost[r] + (IF AccountedIn(req[r]) THEN 1 ELSE 0)
  BY DEF IndInv, RepeatsNeedLoss, Accounted, AccountedIn
<1>5. j \in Nat /\ lost' = [lost EXCEPT ![r] = j]
  BY <1>1, <1>2, Zenon
<1> HIDE DEF b
<1>6. ASSUME NEW q \in Request, req' = [req EXCEPT ![r] = q], RequestOK(q, r),
             AccountedIn(req[r]) => AccountedIn(q)
      PROVE  IndInv'
  <2>1. started[r] <= j + (IF AccountedIn(q) THEN 1 ELSE 0)
    BY <1>1, <1>4, <1>6
  <2> HIDE DEF j
  <2> QED BY <1>2, <1>3, <1>5, <1>6, <2>1, ExchangeEnds, Zenon DEF b
<1>7. CASE req[r].code = "OVERLOADED"
  <2> DEFINE q == FailedOver(req[r])
  <2>1. q \in Request /\ RequestOK(q, r)
    BY <1>1, FailedOverRecord
  <2>2. req' = [req EXCEPT ![r] = q]
    BY <1>2, <1>7, Zenon DEF NextCandidate, FailedOver
  <2>3. ~AccountedIn(req[r])
    BY <1>2, <1>7, Zenon DEF AccountedIn
  <2> HIDE DEF q
  <2> QED BY <1>6, <2>1, <2>2, <2>3, Zenon
<1>8. CASE req[r].code # "OVERLOADED"
  <2> DEFINE code == req[r].code
             q == Answered(code)
  <2>1. code \in Codes
    BY <1>1, Zenon DEF Request
  <2>2. AccountedIn(req[r]) => code \in {"OK", "INTERNAL_ERROR", "TIMEOUT"}
    BY <1>2, Zenon DEF AccountedIn
  <2>3. req' = [req EXCEPT ![r] = q]
    BY <1>2, <1>8, Zenon DEF Finish, Answered
  <2> HIDE DEF code
  <2>4. q \in Request /\ RequestOK(q, r) /\ q.pc = "done" /\ q.code = code
    BY <2>1, AnsweredRecord, Zenon
  <2> HIDE DEF q
  <2> QED BY <1>6, <2>2, <2>3, <2>4, Zenon DEF AccountedIn
<1> QED BY <1>7, <1>8, Zenon
-----------------------------------------------------------------------------
(* Counting executions *)

Awaited(E, n) == {e \in E : e.node = n /\ e.waiting}
Held(E, n) == {e \in E : e.node = n /\ e.req \in CpuTasks /\ ~JobDone(e)}
One(cond) == IF cond THEN 1 ELSE 0

LEMMA SlotCounts ==
  ASSUME IndInv, NEW n \in Nodes
  PROVE  /\ IsFiniteSet(Awaited(execs, n)) /\ IsFiniteSet(Held(execs, n))
         /\ admitted[n] = Cardinality(Awaited(execs, n)) /\ admitted[n] \in 0..Capacity
         /\ pending[n] = Cardinality(Held(execs, n)) /\ pending[n] \in 0..MaxPending
<1>1. Awaited(execs, n) \subseteq execs /\ Held(execs, n) \subseteq execs /\ IsFiniteSet(execs)
  BY Zenon DEF Awaited, Held, IndInv, ExecOK
<1>2. IsFiniteSet(Awaited(execs, n)) /\ IsFiniteSet(Held(execs, n))
  BY <1>1, FS_Subset, Zenon
<1>3. /\ admitted[n] = Cardinality(Awaited(execs, n))
      /\ pending[n] = Cardinality(Held(execs, n))
  BY Zenon DEF IndInv, SlotsExact, Awaited, Held
<1>4. admitted[n] \in 0..Capacity /\ pending[n] \in 0..MaxPending
  BY Types, Zenon
<1> QED BY <1>2, <1>3, <1>4, Zenon

\* The size of a set in which x may take the place of e.
LEMMA SwapCount ==
  ASSUME NEW S, IsFiniteSet(S), NEW e, NEW x, x \notin S \ {e}, NEW X \in SUBSET {x},
         NEW U, U = (S \ {e}) \cup X
  PROVE  /\ IsFiniteSet(U) /\ Cardinality(S) \in Nat
         /\ Cardinality(U) = Cardinality(S) - One(e \in S) + One(x \in X)
<1> DEFINE T == S \ {e}
<1>1. Cardinality(S) \in Nat
  BY FS_CardinalityType, Zenon
<1>2. IsFiniteSet(T) /\ Cardinality(T) = Cardinality(S) - One(e \in S) /\ Cardinality(T) \in Nat
  <2>1. CASE e \in S
    <3>1. IsFiniteSet(T) /\ Cardinality(T) = Cardinality(S) - 1
      BY <2>1, FS_RemoveElement, Zenon
    <3>2. Cardinality(T) \in Nat
      BY <3>1, FS_CardinalityType, Zenon
    <3> QED BY <2>1, <3>1, <3>2, Zenon DEF One
  <2>2. CASE e \notin S
    <3>1. T = S
      BY <2>2, Zenon
    <3> QED BY <1>1, <2>2, <3>1 DEF One
  <2> QED BY <2>1, <2>2, Zenon
<1> HIDE DEF T
<1>3. IsFiniteSet(T \cup X) /\ Cardinality(T \cup X) = Cardinality(T) + One(x \in X)
  <2>1. CASE x \in X
    <3>1. T \cup X = T \cup {x} /\ x \notin T
      BY <2>1, Zenon DEF T
    <3>2. IsFiniteSet(T \cup {x}) /\ Cardinality(T \cup {x}) = Cardinality(T) + 1
      BY <1>2, <3>1, FS_AddElement, Zenon
    <3> QED BY <2>1, <3>1, <3>2, Zenon DEF One
  <2>2. CASE x \notin X
    <3>1. T \cup X = T
      BY <2>2, Zenon
    <3>2. One(x \in X) = 0
      BY <2>2, Zenon DEF One
    <3>3. Cardinality(T) = Cardinality(T) + 0
      BY <1>2
    <3> QED BY <1>2, <3>1, <3>2, <3>3, Zenon
  <2> QED BY <2>1, <2>2, Zenon
<1>4. One(e \in S) \in Nat /\ One(x \in X) \in Nat
  BY Zenon DEF One
<1> QED BY <1>1, <1>2, <1>3, <1>4, Zenon DEF T

\* x is what becomes of e: the same execution further on.
Successor(e, x) ==
  /\ x \in Execution /\ x.req = e.req /\ x.no = e.no /\ x.node = e.node /\ x.remote = e.remote
  /\ x.waiting => e.waiting

LEMMA ChangeCounts ==
  ASSUME IndInv, NEW e \in execs, NEW x, Successor(e, x), NEW X \in SUBSET {x}, NEW n \in Nodes,
         NEW E, E = (execs \ {e}) \cup X
  PROVE  /\ Cardinality(Awaited(E, n)) = Cardinality(Awaited(execs, n))
              - One(n = e.node /\ e.waiting) + One(n = e.node /\ x \in X /\ x.waiting)
         /\ Cardinality(Held(E, n)) = Cardinality(Held(execs, n))
              - One(n = e.node /\ e.req \in CpuTasks /\ ~JobDone(e))
              + One(n = e.node /\ x \in X /\ e.req \in CpuTasks /\ ~JobDone(x))
<1> DEFINE A == Awaited(execs, n)
           H == Held(execs, n)
           Y == {f \in X : f.node = n /\ f.waiting}
           Z == {f \in X : f.node = n /\ f.req \in CpuTasks /\ ~JobDone(f)}
<1>1. x \notin execs \ {e}
  BY Zenon DEF IndInv, ExecOK, Distinct, Successor
<1>2. x \notin A \ {e} /\ x \notin H \ {e}
  BY <1>1, Zenon DEF Awaited, Held
<1>3. Awaited(E, n) = (A \ {e}) \cup Y /\ Held(E, n) = (H \ {e}) \cup Z
  BY Zenon DEF Awaited, Held
<1>4. Y \in SUBSET {x} /\ Z \in SUBSET {x}
  OBVIOUS
<1>5. /\ (e \in A) = (n = e.node /\ e.waiting)
      /\ (e \in H) = (n = e.node /\ e.req \in CpuTasks /\ ~JobDone(e))
      /\ (x \in Y) = (n = e.node /\ x \in X /\ x.waiting)
      /\ (x \in Z) = (n = e.node /\ x \in X /\ e.req \in CpuTasks /\ ~JobDone(x))
  <2>1. e \in Execution /\ x \in Execution
    BY Types, Zenon DEF Successor
  <2>2. e.waiting \in BOOLEAN /\ x.waiting \in BOOLEAN
    BY <2>1, Zenon DEF Execution
  <2>3. (e \in A) = (n = e.node /\ e.waiting)
    BY <2>2 DEF Awaited
  <2>4. (e \in H) = (n = e.node /\ e.req \in CpuTasks /\ ~JobDone(e))
    BY DEF Held
  <2>5. (x \in Y) = (n = e.node /\ x \in X /\ x.waiting)
    BY <2>2 DEF Successor
  <2>6. (x \in Z) = (n = e.node /\ x \in X /\ e.req \in CpuTasks /\ ~JobDone(x))
    BY DEF Successor
  <2> QED BY <2>3, <2>4, <2>5, <2>6, Zenon
<1>6. IsFiniteSet(A) /\ IsFiniteSet(H)
  BY SlotCounts, Zenon
<1> HIDE DEF A, H, Y, Z
<1> DEFINE A2 == Awaited(E, n)
           H2 == Held(E, n)
<1>7. Cardinality(A2) = Cardinality(A) - One(e \in A) + One(x \in Y)
  <2>1. IsFiniteSet(A) /\ x \notin A \ {e} /\ Y \in SUBSET {x}
        /\ A2 = (A \ {e}) \cup Y
    BY <1>2, <1>3, <1>4, <1>6, Zenon
  <2> HIDE DEF A2
  <2> QED BY <2>1, SwapCount
<1>8. Cardinality(H2) = Cardinality(H) - One(e \in H) + One(x \in Z)
  <2>1. IsFiniteSet(H) /\ x \notin H \ {e} /\ Z \in SUBSET {x}
        /\ H2 = (H \ {e}) \cup Z
    BY <1>2, <1>3, <1>4, <1>6, Zenon
  <2> HIDE DEF H2
  <2> QED BY <2>1, SwapCount
<1> QED BY <1>5, <1>7, <1>8, Zenon DEF A, H

LEMMA ChangeShape ==
  ASSUME IndInv, NEW e \in execs, NEW x, Successor(e, x), NEW X \in SUBSET {x},
         execs' = (execs \ {e}) \cup X, started' = started
  PROVE  /\ execs' \subseteq Execution /\ IsFiniteSet(execs') /\ Distinct(execs')
         /\ \A f \in execs' : f.no <= started'[f.req]
         /\ LocalOK(execs', req)
         /\ \A f \in execs' : ~f.remote /\ f.waiting /\ f.req = e.req /\ ~e.remote /\ e.waiting
              => f = x /\ x.waiting
<1>1. execs \subseteq Execution /\ x \in Execution
  BY Types, Zenon DEF Successor
<1>2. IsFiniteSet(execs) /\ Distinct(execs) /\ LocalOK(execs, req)
      /\ \A f \in execs : f.no <= started[f.req]
  BY Zenon DEF IndInv, ExecOK
<1>3. x.req = e.req /\ x.no = e.no /\ x.remote = e.remote /\ (x.waiting => e.waiting)
  BY Zenon DEF Successor
<1>4. \A f \in execs' : (f \in execs /\ f # e) \/ f = x
  OBVIOUS
<1>5. execs' \subseteq Execution
  BY <1>1, <1>4, Zenon
<1>6. IsFiniteSet(execs')
  <2>1. execs' \subseteq execs \cup {x}
    OBVIOUS
  <2>2. IsFiniteSet(execs \cup {x})
    BY <1>2, FS_AddElement, Zenon
  <2> QED BY <2>1, <2>2, FS_Subset, Zenon
<1>7. Distinct(execs')
  BY <1>2, <1>3, <1>4 DEF Distinct
<1>8. \A f \in execs' : f.no <= started'[f.req]
  BY <1>2, <1>3, <1>4, Zenon
<1>9. LocalOK(execs', req)
  <2> SUFFICES ASSUME NEW f \in execs', ~f.remote, f.waiting
               PROVE  /\ req[f.req].pc = "local"
                      /\ \A g \in execs' : ~g.remote /\ g.waiting /\ g.req = f.req => g = f
    BY Zenon DEF LocalOK
  <2>1. \A g \in execs : ~g.remote /\ g.waiting =>
          /\ req[g.req].pc = "local"
          /\ \A h \in execs : ~h.remote /\ h.waiting /\ h.req = g.req => h = g
    BY <1>2, Zenon DEF LocalOK
  <2>2. CASE f = x
    BY <1>3, <1>4, <2>1, <2>2, Zenon
  <2>3. CASE f \in execs /\ f # e
    BY <1>3, <1>4, <2>1, <2>3
  <2> QED BY <1>4, <2>2, <2>3, Zenon
<1>10. ASSUME NEW f \in execs', ~f.remote, f.waiting, f.req = e.req, ~e.remote, e.waiting
       PROVE  f = x /\ x.waiting
  BY <1>2, <1>4, <1>10, Zenon DEF LocalOK
<1> QED BY <1>5, <1>6, <1>7, <1>8, <1>9, <1>10, Zenon

\* One node's counters change along with its executions.
LEMMA SlotsAssemble ==
  ASSUME IndInv, NEW n \in Nodes, NEW a \in 0..Capacity, NEW p \in 0..MaxPending,
         admitted' = [admitted EXCEPT ![n] = a], pending' = [pending EXCEPT ![n] = p],
         Cardinality(Awaited(execs', n)) = a, Cardinality(Held(execs', n)) = p,
         \A m \in Nodes \ {n} : /\ Cardinality(Awaited(execs', m)) = Cardinality(Awaited(execs, m))
                                /\ Cardinality(Held(execs', m)) = Cardinality(Held(execs, m))
  PROVE  /\ SlotsExact'
         /\ admitted' \in [Nodes -> 0..Capacity] /\ pending' \in [Nodes -> 0..MaxPending]
<1>1. /\ admitted \in [Nodes -> 0..Capacity] /\ pending \in [Nodes -> 0..MaxPending]
      /\ Capacity \in Nat /\ MaxPending \in Nat
  BY Types, RoutingAssumption, Zenon
<1>2. admitted' \in [Nodes -> 0..Capacity] /\ pending' \in [Nodes -> 0..MaxPending]
  BY <1>1, Zenon
<1>3. ASSUME NEW m \in Nodes
      PROVE  /\ admitted'[m] <= Capacity /\ pending'[m] <= MaxPending
             /\ admitted'[m] = Cardinality(Awaited(execs', m))
             /\ pending'[m] = Cardinality(Held(execs', m))
  <2>1. admitted'[m] <= Capacity /\ pending'[m] <= MaxPending
    BY <1>1, <1>2
  <2>2. CASE m = n
    BY <1>1, <2>1, <2>2, Zenon
  <2>3. CASE m # n
    <3>1. admitted'[m] = admitted[m] /\ pending'[m] = pending[m]
      BY <1>1, <2>3, Zenon
    <3>2. admitted[m] = Cardinality(Awaited(execs, m)) /\ pending[m] = Cardinality(Held(execs, m))
      BY SlotCounts, Zenon
    <3> QED BY <2>1, <2>3, <3>1, <3>2, Zenon
  <2> QED BY <2>2, <2>3, Zenon
<1>4. SlotsExact'
  BY <1>3, Zenon DEF SlotsExact, Awaited, Held, JobDone
<1> QED BY <1>2, <1>4, Zenon

\* The counters of e's node once e has become x, or nothing if X is empty.
Counted(e, x, X, a, p) ==
  /\ a = admitted[e.node] - One(e.waiting) + One(x \in X /\ x.waiting)
  /\ p = pending[e.node] - One(e.req \in CpuTasks /\ ~JobDone(e))
                         + One(x \in X /\ e.req \in CpuTasks /\ ~JobDone(x))
  /\ x \in X /\ ~JobDone(x) => ~JobDone(e)

LEMMA ChangeSlots ==
  ASSUME IndInv, NEW e \in execs, NEW x, Successor(e, x), NEW X \in SUBSET {x},
         execs' = (execs \ {e}) \cup X, NEW a, NEW p, Counted(e, x, X, a, p),
         admitted' = [admitted EXCEPT ![e.node] = a], pending' = [pending EXCEPT ![e.node] = p]
  PROVE  /\ SlotsExact'
         /\ admitted' \in [Nodes -> 0..Capacity] /\ pending' \in [Nodes -> 0..MaxPending]
<1> DEFINE n == e.node
           A == Awaited(execs, n)
           H == Held(execs, n)
<1>1. e \in Execution /\ x \in Execution /\ n \in Nodes /\ e.waiting \in BOOLEAN /\ x.waiting \in BOOLEAN
      /\ Capacity \in Nat /\ MaxPending \in Nat
  BY Types, RoutingAssumption, Zenon DEF Execution, Successor
<1>2. /\ IsFiniteSet(A) /\ IsFiniteSet(H) /\ admitted[n] = Cardinality(A) /\ admitted[n] \in 0..Capacity
      /\ pending[n] = Cardinality(H) /\ pending[n] \in 0..MaxPending
  BY <1>1, SlotCounts, Zenon
<1>3. Cardinality(Awaited(execs', n)) = a /\ Cardinality(Held(execs', n)) = p
  <2>1. /\ One(n = e.node /\ e.waiting) = One(e.waiting)
        /\ One(n = e.node /\ x \in X /\ x.waiting) = One(x \in X /\ x.waiting)
        /\ One(n = e.node /\ e.req \in CpuTasks /\ ~JobDone(e)) = One(e.req \in CpuTasks /\ ~JobDone(e))
        /\ One(n = e.node /\ x \in X /\ e.req \in CpuTasks /\ ~JobDone(x))
             = One(x \in X /\ e.req \in CpuTasks /\ ~JobDone(x))
    BY Zenon DEF One
  <2>2. /\ Cardinality(Awaited(execs', n)) = Cardinality(Awaited(execs, n))
             - One(n = e.node /\ e.waiting) + One(n = e.node /\ x \in X /\ x.waiting)
        /\ Cardinality(Held(execs', n)) = Cardinality(Held(execs, n))
             - One(n = e.node /\ e.req \in CpuTasks /\ ~JobDone(e))
             + One(n = e.node /\ x \in X /\ e.req \in CpuTasks /\ ~JobDone(x))
    <3> DEFINE E == execs'
    <3>1. E = (execs \ {e}) \cup X /\ n \in Nodes
      BY <1>1, Zenon
    <3> HIDE DEF n, E
    <3>2. /\ Cardinality(Awaited(E, n)) = Cardinality(Awaited(execs, n))
               - One(n = e.node /\ e.waiting) + One(n = e.node /\ x \in X /\ x.waiting)
          /\ Cardinality(Held(E, n)) = Cardinality(Held(execs, n))
               - One(n = e.node /\ e.req \in CpuTasks /\ ~JobDone(e))
               + One(n = e.node /\ x \in X /\ e.req \in CpuTasks /\ ~JobDone(x))
      BY <3>1, ChangeCounts
    <3> QED BY <3>2, Zenon DEF E
  <2> QED BY <1>2, <2>1, <2>2, Zenon DEF Counted
<1>4. e.waiting => e \in A
  BY Zenon DEF Awaited
<1>5. e.req \in CpuTasks /\ ~JobDone(e) => e \in H
  BY Zenon DEF Held
<1> HIDE DEF A, H
<1>6. ASSUME NEW S, IsFiniteSet(S), e \in S PROVE Cardinality(S) # 0
  BY <1>6, FS_EmptySet, Zenon
<1>7. a \in 0..Capacity
  <2>1. x \in X /\ x.waiting => e.waiting
    BY Zenon DEF Successor
  <2>2. e.waiting => admitted[n] # 0
    BY <1>2, <1>4, <1>6, Zenon
  <2>3. CASE ~e.waiting
    BY <1>2, <2>1, <2>3 DEF One, Counted
  <2>4. CASE e.waiting
    BY <1>1, <1>2, <2>2, <2>4 DEF One, Counted
  <2> QED BY <2>3, <2>4, Zenon
<1>8. p \in 0..MaxPending
  <2> DEFINE held == e.req \in CpuTasks /\ ~JobDone(e)
             stays == x \in X /\ e.req \in CpuTasks /\ ~JobDone(x)
  <2>1. stays => held
    BY Zenon DEF Counted
  <2>2. held => pending[n] # 0
    BY <1>2, <1>5, <1>6, Zenon
  <2>3. p = pending[n] - One(held) + One(stays)
    BY Zenon DEF Counted
  <2> HIDE DEF held, stays
  <2>4. CASE ~held
    BY <1>2, <2>1, <2>3, <2>4 DEF One
  <2>5. CASE held
    BY <1>1, <1>2, <2>2, <2>3, <2>5 DEF One
  <2> QED BY <2>4, <2>5, Zenon
<1>9. ASSUME NEW m \in Nodes \ {n}
      PROVE  /\ Cardinality(Awaited(execs', m)) = Cardinality(Awaited(execs, m))
             /\ Cardinality(Held(execs', m)) = Cardinality(Held(execs, m))
  <2>1. Awaited(execs', m) = Awaited(execs, m) /\ Held(execs', m) = Held(execs, m)
    BY Zenon DEF Awaited, Held, Successor
  <2> QED BY <2>1, Zenon
<1>10. admitted' = [admitted EXCEPT ![n] = a] /\ pending' = [pending EXCEPT ![n] = p]
  OBVIOUS
<1> HIDE DEF n
<1> QED BY <1>1, <1>3, <1>7, <1>8, <1>9, <1>10, SlotsAssemble, Zenon
-----------------------------------------------------------------------------
(* The steps of executions *)

\* Update() keeps the successor while its job or its handler is left.
Remainder(x) == {f \in {x} : ~JobDone(f) \/ f.waiting}

LEMMA UpdateShape ==
  ASSUME NEW e, NEW x, Update(e, x)
  PROVE  execs' = (execs \ {e}) \cup Remainder(x) /\ Remainder(x) \in SUBSET {x}
         /\ (x \in Remainder(x) <=> ~JobDone(x) \/ x.waiting)
BY Zenon DEF Update, Remainder

\* A step of the pool, which no request notices.
LEMMA JobFrame ==
  ASSUME IndInv, NEW e \in execs, NEW x, Successor(e, x), NEW X \in SUBSET {x},
         execs' = (execs \ {e}) \cup X, SlotsExact',
         admitted' \in [Nodes -> 0..Capacity], pending' \in [Nodes -> 0..MaxPending],
         UNCHANGED <<req, tokens, breaker, broken, started, lost>>
  PROVE  IndInv'
<1>1. TypeOK'
  BY ChangeShape, Types, Zenon DEF TypeOK
<1>2. RepeatsNeedLoss'
  BY Zenon DEF IndInv, RepeatsNeedLoss, Accounted
<1>3. ProbeSlotsHeld'
  BY Zenon DEF IndInv, ProbeSlotsHeld, ProbesUnderWay, Link, Candidate
<1>4. \A r \in Requests : RequestOK(req[r], r)'
  BY Zenon DEF IndInv, RequestOK
<1>5. ExecOK'
  BY ChangeShape, Zenon DEF ExecOK, Distinct, LocalOK
<1> QED BY <1>1, <1>2, <1>3, <1>4, <1>5, Zenon DEF IndInv

LEMMA JobStartsStep ==
  ASSUME IndInv, NEW e \in execs, JobStarts(e)
  PROVE  IndInv'
<1> DEFINE x == [e EXCEPT !.job = "running"]
           X == Remainder(x)
           a == admitted[e.node]
           p == pending[e.node]
<1>1. e \in Execution /\ e.job = "queued" /\ Update(e, x)
      /\ UNCHANGED <<req, tokens, breaker, admitted, pending, broken, started, lost>>
  BY Types, Zenon DEF JobStarts
<1>2. x \in Execution /\ x.job = "running" /\ x.waiting = e.waiting /\ Successor(e, x)
  BY <1>1, Zenon DEF Execution, Successor
<1>3. ~JobDone(e) /\ ~JobDone(x) /\ e.waiting \in BOOLEAN /\ e.node \in Nodes
  BY <1>1, <1>2, Zenon DEF JobDone, Execution
<1> HIDE DEF x
<1>4. execs' = (execs \ {e}) \cup X /\ X \in SUBSET {x} /\ x \in X
  BY <1>1, <1>3, UpdateShape, Zenon
<1>5. admitted[e.node] \in Nat /\ pending[e.node] \in Nat
  BY <1>3, Types
<1> HIDE DEF X
<1>6. Counted(e, x, X, a, p)
  BY <1>2, <1>3, <1>4, <1>5 DEF One, Counted
<1>7. admitted' = [admitted EXCEPT ![e.node] = a] /\ pending' = [pending EXCEPT ![e.node] = p]
  BY <1>1, Types, Zenon
<1> HIDE DEF a, p
<1>8. /\ SlotsExact'
      /\ admitted' \in [Nodes -> 0..Capacity] /\ pending' \in [Nodes -> 0..MaxPending]
  BY <1>2, <1>4, <1>6, <1>7, ChangeSlots, Zenon
<1> QED BY <1>1, <1>2, <1>4, <1>8, JobFrame, Zenon

\* A job that holds a slot can give it back.
LEMMA ReleaseExact ==
  ASSUME IndInv, NEW e \in execs, ~JobDone(e), ReleasePending(e.node, Slots(e.req))
  PROVE  pending' = [pending EXCEPT ![e.node] = pending[e.node] - One(e.req \in CpuTasks)]
<1> DEFINE n == e.node
           H == Held(execs, n)
<1>1. n \in Nodes
  BY Types, Zenon DEF Execution
<1>2. IsFiniteSet(H) /\ pending[n] = Cardinality(H) /\ pending[n] \in Nat
  BY <1>1, SlotCounts
<1>3. e.req \in CpuTasks => e \in H
  BY Zenon DEF Held
<1>4. e.req \in CpuTasks => pending[n] # 0
  <2> HIDE DEF H
  <2> QED BY <1>2, <1>3, FS_EmptySet, Zenon
<1>5. ~(pending[n] < Slots(e.req)) /\ Slots(e.req) = One(e.req \in CpuTasks)
  BY <1>2, <1>4 DEF Slots, One
<1> HIDE DEF n
<1>6. pending' = [pending EXCEPT ![n] = IF pending[n] < Slots(e.req) THEN 0
                                        ELSE pending[n] - Slots(e.req)]
  BY Zenon DEF ReleasePending, n
<1> QED BY <1>5, <1>6, Zenon DEF n

LEMMA JobEndsStep ==
  ASSUME IndInv, NEW e \in execs, JobEnds(e)
  PROVE  IndInv'
<1>1. PICK result \in {"OK", "INTERNAL_ERROR"} : Update(e, [e EXCEPT !.job = result])
  BY Zenon DEF JobEnds
<1> DEFINE x == [e EXCEPT !.job = result]
           X == Remainder(x)
           a == admitted[e.node]
           p == pending[e.node] - One(e.req \in CpuTasks)
<1>2. e \in Execution /\ e.job = "running" /\ ReleasePending(e.node, Slots(e.req))
      /\ UNCHANGED <<req, tokens, breaker, admitted, broken, started, lost>>
  BY Types, Zenon DEF JobEnds
<1>3. x \in Execution /\ x.job = result /\ x.waiting = e.waiting /\ Successor(e, x)
  BY <1>2, Zenon DEF Execution, Successor
<1>4. ~JobDone(e) /\ JobDone(x) /\ e.waiting \in BOOLEAN /\ e.node \in Nodes
  BY <1>2, <1>3, Zenon DEF JobDone, Execution
<1>5. pending' = [pending EXCEPT ![e.node] = p]
  BY <1>2, <1>4, ReleaseExact, Zenon
<1>6. Update(e, x)
  BY <1>1, Zenon
<1> HIDE DEF x
<1>7. execs' = (execs \ {e}) \cup X /\ X \in SUBSET {x} /\ (x \in X <=> x.waiting)
  BY <1>4, <1>6, UpdateShape, Zenon
<1>8. admitted[e.node] \in Nat /\ pending[e.node] \in Nat
  BY <1>4, Types
<1> HIDE DEF X
<1>9. a = admitted[e.node] - One(e.waiting) + One(x \in X /\ x.waiting)
  BY <1>3, <1>4, <1>7, <1>8 DEF One
<1>10. p = pending[e.node] - One(e.req \in CpuTasks /\ ~JobDone(e))
                           + One(x \in X /\ e.req \in CpuTasks /\ ~JobDone(x))
  <2>1. One(x \in X /\ e.req \in CpuTasks /\ ~JobDone(x)) = 0
        /\ One(e.req \in CpuTasks /\ ~JobDone(e)) = One(e.req \in CpuTasks)
        /\ One(e.req \in CpuTasks) \in Nat
    BY <1>4, Zenon DEF One
  <2> QED BY <1>8, <2>1
<1>11. admitted' = [admitted EXCEPT ![e.node] = a]
  BY <1>2, Types, Zenon
<1> HIDE DEF a, p
<1>12. Counted(e, x, X, a, p)
  BY <1>4, <1>9, <1>10, Zenon DEF Counted
<1>13. /\ SlotsExact'
       /\ admitted' \in [Nodes -> 0..Capacity] /\ pending' \in [Nodes -> 0..MaxPending]
  BY <1>3, <1>5, <1>7, <1>11, <1>12, ChangeSlots, Zenon
<1> QED BY <1>2, <1>3, <1>7, <1>13, JobFrame

\* What Answer() does with the request: a local execution ends it, a remote one
\* answers the exchange that still waits for it, and any other result is dropped.
LEMMA AnswerStep ==
  ASSUME IndInv, NEW e \in execs, e.waiting,
         NEW code \in {"OK", "INTERNAL_ERROR", "TIMEOUT"}, Answer(e, code),
         execs' \subseteq Execution, LocalOK(execs', req),
         \A f \in execs' : ~f.remote /\ f.waiting /\ f.req = e.req => e.remote
  PROVE  /\ req' \in [Requests -> Request] /\ \A s \in Requests : RequestOK(req'[s], s)
         /\ RepeatsNeedLoss' /\ ProbeSlotsHeld' /\ LocalOK(execs', req')
<1> DEFINE r == e.req
           i == started[r]
           j == lost[r]
<1>1. /\ r \in Requests /\ req \in [Requests -> Request] /\ req[r] \in Request
      /\ RequestOK(req[r], r) /\ started \in [Requests -> Nat] /\ lost \in [Requests -> Nat]
      /\ UNCHANGED <<tokens, breaker, broken, started, lost>>
  <2>1. r \in Requests
    BY Types DEF Execution
  <2> QED BY <2>1, Types, Zenon DEF IndInv, Answer
<1>2. /\ i \in Nat /\ started' = [started EXCEPT ![r] = i]
      /\ j \in Nat /\ lost' = [lost EXCEPT ![r] = j] /\ i <= j + 1
  <2>1. i <= j + (IF AccountedIn(req[r]) THEN 1 ELSE 0)
    BY <1>1, Zenon DEF IndInv, RepeatsNeedLoss, Accounted, AccountedIn
  <2>2. i \in Nat /\ j \in Nat
    BY <1>1, Zenon
  <2>3. started' = [started EXCEPT ![r] = i] /\ lost' = [lost EXCEPT ![r] = j]
    BY <1>1, Zenon
  <2> HIDE DEF i, j
  <2>4. i <= j + 1
    BY <2>1, <2>2
  <2> QED BY <2>2, <2>3, <2>4, Zenon
<1>3. ~e.remote => req[r].pc = "local"
  BY Zenon DEF IndInv, ExecOK, LocalOK
<1>4. \A f \in execs' : ~f.remote /\ f.waiting /\ f.req = r => e.remote
  OBVIOUS
<1>5. CASE UNCHANGED req
  <2>1. RepeatsNeedLoss'
    BY <1>1, <1>5 DEF IndInv, RepeatsNeedLoss, Accounted
  <2>2. ProbeSlotsHeld'
    BY <1>1, <1>5, Zenon DEF IndInv, ProbeSlotsHeld, ProbesUnderWay, Link, Candidate
  <2>3. req' \in [Requests -> Request] /\ \A s \in Requests : RequestOK(req'[s], s)
    BY <1>1, <1>5 DEF IndInv
  <2> QED BY <1>5, <2>1, <2>2, <2>3, Zenon
<1>6. ASSUME NEW q \in Request, RequestOK(q, r), req' = [req EXCEPT ![r] = q], AccountedIn(q),
             \A l : Probing(req[r], r, l) => Probing(q, r, l),
             \A f \in execs' : ~(~f.remote /\ f.waiting /\ f.req = r)
      PROVE  /\ req' \in [Requests -> Request] /\ \A s \in Requests : RequestOK(req'[s], s)
             /\ RepeatsNeedLoss' /\ ProbeSlotsHeld' /\ LocalOK(execs', req')
  <2>1. i <= j + (IF AccountedIn(q) THEN 1 ELSE 0)
    BY <1>2, <1>6
  <2> HIDE DEF r, i, j
  <2>2. RepeatsNeedLoss'
    BY <1>1, <1>2, <1>6, <2>1, CountFrame, Zenon
  <2>3. req' \in [Requests -> Request] /\ \A s \in Requests : RequestOK(req'[s], s)
    BY <1>1, <1>6, RequestFrame, Zenon
  <2>4. ProbeSlotsHeld'
    BY <1>1, <1>6, ProbeKept, Zenon
  <2>5. LocalOK(execs', req')
    <3>1. ASSUME NEW f \in execs', ~f.remote, f.waiting PROVE req'[f.req] = req[f.req]
      <4>1. f.req \in Requests
        BY Zenon DEF Execution
      <4>2. f.req # r
        BY <1>6, <3>1, Zenon
      <4> QED BY <1>1, <1>6, <4>1, <4>2, Zenon
    <3> QED BY <3>1 DEF LocalOK
  <2> QED BY <2>2, <2>3, <2>4, <2>5, Zenon
<1>7. CASE ~e.remote
  <2> DEFINE q == Answered(code)
  <2>1. q \in Request /\ RequestOK(q, r) /\ q.pc = "done" /\ q.code = code
    <3> HIDE DEF r
    <3> QED BY <1>1, AnsweredRecord, Zenon DEF Codes
  <2>2. req' = [req EXCEPT ![r] = q]
    BY <1>7, Zenon DEF Answer, Finish, Answered
  <2>3. \A l : ~Probing(req[r], r, l)
    BY <1>3, <1>7, Zenon DEF Probing
  <2>4. \A f \in execs' : ~(~f.remote /\ f.waiting /\ f.req = r)
    BY <1>4, <1>7, Zenon
  <2> HIDE DEF q
  <2>5. AccountedIn(q)
    BY <2>1 DEF AccountedIn
  <2> HIDE DEF r
  <2> QED BY <1>6, <2>1, <2>2, <2>3, <2>4, <2>5, Zenon
<1>8. CASE e.remote /\ req[r].pc = "remote" /\ started[r] = e.no
  <2> DEFINE q == [req[r] EXCEPT !.pc = "replied", !.code = code]
  <2>1. q \in Request /\ q.pc = "replied" /\ q.code = code
        /\ q.cand = req[r].cand /\ q.start = req[r].start
    BY <1>1, Zenon DEF Request, Pcs, Codes
  <2>2. req' = [req EXCEPT ![r].pc = "replied", ![r].code = code]
    BY <1>8, Zenon DEF Answer
  <2>3. req' = [req EXCEPT ![r] = q]
    BY <1>1, <2>2, Zenon
  <2> HIDE DEF q
  <2>4. RequestOK(q, r) /\ AccountedIn(q) /\ \A l : Probing(req[r], r, l) => Probing(q, r, l)
    BY <1>1, <1>8, <2>1, Zenon DEF RequestOK, AccountedIn, Probing
  <2>5. \A f \in execs' : ~(~f.remote /\ f.waiting /\ f.req = r)
    BY <1>8, Zenon DEF LocalOK
  <2> HIDE DEF r
  <2> QED BY <1>6, <2>1, <2>3, <2>4, <2>5, Zenon
<1>9. CASE e.remote /\ ~(req[r].pc = "remote" /\ started[r] = e.no)
  BY <1>5, <1>9, Zenon DEF Answer
<1> QED BY <1>7, <1>8, <1>9, Zenon

\* The handler of e has its result or has given up.
LEMMA AnswerFrame ==
  ASSUME IndInv, NEW e \in execs, e.waiting,
         NEW code \in {"OK", "INTERNAL_ERROR", "TIMEOUT"}, Answer(e, code),
         NEW x, Successor(e, x), ~x.waiting, NEW X \in SUBSET {x}, execs' = (execs \ {e}) \cup X,
         SlotsExact', admitted' \in [Nodes -> 0..Capacity], pending' \in [Nodes -> 0..MaxPending]
  PROVE  IndInv'
<1>1. UNCHANGED <<tokens, breaker, broken, started, lost>>
  BY Zenon DEF Answer
<1>2. /\ execs' \subseteq Execution /\ IsFiniteSet(execs') /\ Distinct(execs')
      /\ \A f \in execs' : f.no <= started'[f.req]
      /\ LocalOK(execs', req)
      /\ \A f \in execs' : ~f.remote /\ f.waiting /\ f.req = e.req /\ ~e.remote /\ e.waiting
           => f = x /\ x.waiting
  BY <1>1, ChangeShape, Zenon
<1>3. \A f \in execs' : ~f.remote /\ f.waiting /\ f.req = e.req => e.remote
  <2>1. e.remote \in BOOLEAN
    BY Types, Zenon DEF Execution
  <2> QED BY <1>2, <2>1, Zenon
<1>4. /\ req' \in [Requests -> Request] /\ \A s \in Requests : RequestOK(req'[s], s)
      /\ RepeatsNeedLoss' /\ ProbeSlotsHeld' /\ LocalOK(execs', req')
  BY <1>1, <1>2, <1>3, AnswerStep, Zenon
<1>5. TypeOK'
  BY <1>1, <1>2, <1>4, Types DEF TypeOK
<1>6. ExecOK' /\ \A s \in Requests : RequestOK(req[s], s)'
  BY <1>2, <1>4, Zenon DEF ExecOK, Distinct, LocalOK, RequestOK
<1> QED BY <1>4, <1>5, <1>6, Zenon DEF IndInv

\* A handler that waits has an admission to give back.
LEMMA HandlerLeaves ==
  ASSUME IndInv, NEW e \in execs, e.waiting, NEW X \in SUBSET {[e EXCEPT !.waiting = FALSE]},
         execs' = (execs \ {e}) \cup X, NEW code \in {"OK", "INTERNAL_ERROR", "TIMEOUT"},
         Answer(e, code), NEW p, pending' = [pending EXCEPT ![e.node] = p],
         p = pending[e.node] - One(e.req \in CpuTasks /\ ~JobDone(e))
                             + One(X # {} /\ e.req \in CpuTasks /\ ~JobDone(e))
  PROVE  IndInv'
<1> DEFINE x == [e EXCEPT !.waiting = FALSE]
           a == admitted[e.node] - 1
<1>1. e \in Execution /\ e.node \in Nodes
  BY Types, Zenon DEF Execution
<1>2. x \in Execution /\ Successor(e, x) /\ ~x.waiting /\ x.job = e.job
  BY <1>1, Zenon DEF Execution, Successor
<1>3. JobDone(x) = JobDone(e)
  BY <1>2, Zenon DEF JobDone
<1>4. X \in SUBSET {x} /\ (x \in X) = (X # {})
  <2>1. X \in SUBSET {x}
    OBVIOUS
  <2> HIDE DEF x
  <2>2. (x \in X) <=> (X # {})
    BY <2>1, Zenon
  <2> QED BY <2>1, <2>2
<1> HIDE DEF x
<1>5. admitted[e.node] \in Nat
  BY <1>1, Types
<1>6. Counted(e, x, X, a, p)
  <2>1. a = admitted[e.node] - One(e.waiting) + One(x \in X /\ x.waiting)
    BY <1>2, <1>5 DEF One
  <2>2. x \in X /\ ~JobDone(x) => ~JobDone(e)
    BY <1>3, Zenon
  <2> QED BY <1>3, <1>4, <2>1, <2>2, Zenon DEF Counted
<1>7. admitted' = [admitted EXCEPT ![e.node] = a]
  BY Zenon DEF Answer, ReleaseAdmission
<1> HIDE DEF a
<1>8. /\ SlotsExact'
      /\ admitted' \in [Nodes -> 0..Capacity] /\ pending' \in [Nodes -> 0..MaxPending]
  BY <1>2, <1>4, <1>6, <1>7, ChangeSlots, Zenon
<1> QED BY <1>2, <1>4, <1>8, AnswerFrame, Zenon

LEMMA ExecutionReturnsStep ==
  ASSUME IndInv, NEW e \in execs, ExecutionReturns(e)
  PROVE  IndInv'
<1> DEFINE x == [e EXCEPT !.waiting = FALSE]
           p == pending[e.node]
           X == Remainder(x)
           code == e.job
<1>1. e \in Execution /\ e.waiting /\ JobDone(e) /\ UNCHANGED pending /\ Update(e, x) /\ Answer(e, code)
      /\ code \in {"OK", "INTERNAL_ERROR", "TIMEOUT"}
  BY Types, Zenon DEF ExecutionReturns, JobDone
<1>2. x.job = e.job /\ ~x.waiting /\ pending[e.node] \in Nat
      /\ pending' = [pending EXCEPT ![e.node] = p]
  BY <1>1, Types DEF Execution
<1>3. JobDone(x)
  BY <1>1, <1>2, Zenon DEF JobDone
<1>4. execs' = (execs \ {e}) \cup X /\ X \in SUBSET {x} /\ X = {}
  <2> HIDE DEF x
  <2> QED BY <1>1, <1>2, <1>3, UpdateShape
<1>5. p = pending[e.node] - One(e.req \in CpuTasks /\ ~JobDone(e))
                          + One(X # {} /\ e.req \in CpuTasks /\ ~JobDone(e))
  BY <1>1, <1>2, <1>4 DEF One
<1> HIDE DEF X, p, code
<1> QED BY <1>1, <1>2, <1>4, <1>5, HandlerLeaves, Zenon

LEMMA ExecutionTimesOutStep ==
  ASSUME IndInv, NEW e \in execs, ExecutionTimesOut(e)
  PROVE  IndInv'
<1> DEFINE x == [e EXCEPT !.waiting = FALSE]
           code == "TIMEOUT"
<1>1. e \in Execution /\ e.waiting /\ ~JobDone(e) /\ Answer(e, code)
      /\ code \in {"OK", "INTERNAL_ERROR", "TIMEOUT"} /\ pending[e.node] \in Nat
      /\ pending \in [Nodes -> 0..MaxPending]
  BY Types DEF ExecutionTimesOut, Execution
<1> HIDE DEF code
<1>2. CASE Update(e, x) /\ UNCHANGED pending
  <2> DEFINE X == Remainder(x)
             p == pending[e.node]
  <2>1. x.job = e.job
    BY <1>1, Zenon DEF Execution
  <2>2. ~JobDone(x)
    BY <1>1, <2>1, Zenon DEF JobDone
  <2>3. execs' = (execs \ {e}) \cup X /\ X \in SUBSET {x} /\ X # {}
    <3> HIDE DEF x
    <3> QED BY <1>2, <2>2, UpdateShape, Zenon
  <2>4. p = pending[e.node] - One(e.req \in CpuTasks /\ ~JobDone(e))
                            + One(X # {} /\ e.req \in CpuTasks /\ ~JobDone(e))
    BY <1>1, <2>3 DEF One
  <2>5. pending' = [pending EXCEPT ![e.node] = p]
    BY <1>1, <1>2, Zenon
  <2> HIDE DEF X, p
  <2> QED BY <1>1, <2>3, <2>4, <2>5, HandlerLeaves
<1>3. CASE execs' = execs \ {e} /\ ReleasePending(e.node, Slots(e.req))
  <2> DEFINE X == {}
             p == pending[e.node] - One(e.req \in CpuTasks)
  <2>1. execs' = (execs \ {e}) \cup X /\ X \in SUBSET {x}
    BY <1>3, Zenon
  <2>2. pending' = [pending EXCEPT ![e.node] = p]
    BY <1>1, <1>3, ReleaseExact, Zenon
  <2>3. p = pending[e.node] - One(e.req \in CpuTasks /\ ~JobDone(e))
                            + One(X # {} /\ e.req \in CpuTasks /\ ~JobDone(e))
    BY <1>1 DEF One
  <2> HIDE DEF X, p
  <2> QED BY <1>1, <2>1, <2>2, <2>3, HandlerLeaves, Zenon
<1> QED BY <1>2, <1>3, Zenon DEF ExecutionTimesOut

\* The size of a set that gains an element if a condition holds.
LEMMA GainCount ==
  ASSUME NEW S, IsFiniteSet(S), NEW x, x \notin S, NEW U, NEW c \in BOOLEAN,
         U = S \cup {y \in {x} : c}
  PROVE  Cardinality(U) = Cardinality(S) + One(c) /\ Cardinality(S) \in Nat
<1>1. Cardinality(S) \in Nat
  BY FS_CardinalityType, Zenon
<1>2. CASE c
  <2>1. U = S \cup {x}
    BY <1>2, Zenon
  <2>2. Cardinality(U) = Cardinality(S) + 1
    BY <2>1, FS_AddElement, Zenon
  <2> QED BY <1>1, <1>2, <2>2, Zenon DEF One
<1>3. CASE ~c
  <2>1. U = S
    BY <1>3, Zenon
  <2> QED BY <1>1, <1>3, <2>1 DEF One
<1> QED BY <1>2, <1>3, Zenon

LEMMA NotRefused ==
  ASSUME IndInv, NEW r \in Requests, NEW n \in Nodes, Refusal(r, n) = "NONE"
  PROVE  admitted[n] < Capacity /\ (r \in CpuTasks => pending[n] < MaxPending)
<1>1. /\ admitted[n] \in Nat /\ pending[n] \in Nat /\ Capacity \in Nat /\ MaxPending \in Nat
  BY Types, RoutingAssumption
<1>2. admitted[n] < Capacity
  <2>1. CASE admitted[n] >= Capacity
    BY <2>1, Zenon DEF Refusal
  <2> QED BY <1>1, <2>1
<1>3. ASSUME r \in CpuTasks PROVE pending[n] < MaxPending
  <2>1. ~(admitted[n] >= Capacity)
    BY <1>1, <1>2
  <2>2. CASE pending[n] >= MaxPending
    BY <1>2, <1>3, <2>1, <2>2, Zenon DEF Refusal
  <2> QED BY <1>1, <2>2
<1> QED BY <1>2, <1>3, Zenon

\* An execution is admitted and gets the next number of its request.
LEMMA ExecuteStep ==
  ASSUME IndInv, NEW r \in Requests, NEW n \in Nodes, NEW remote \in BOOLEAN,
         Refusal(r, n) = "NONE", req[r].pc = IF remote THEN "sent" ELSE "route",
         Execute(r, n, remote), UNCHANGED <<tokens, breaker, lost>>,
         req' = [req EXCEPT ![r].pc = IF remote THEN "remote" ELSE "local"],
         remote => req[r].cand <= Len(Candidates[r])
  PROVE  IndInv'
<1> DEFINE i == started[r] + 1
           j == lost[r]
           job == IF r \in CpuTasks THEN "queued" ELSE "running"
           x == [req |-> r, node |-> n, no |-> i, job |-> job, remote |-> remote, waiting |-> TRUE]
           pc2 == IF remote THEN "remote" ELSE "local"
           q == [req[r] EXCEPT !.pc = pc2]
           a == admitted[n] + 1
           p == pending[n] + Slots(r)
<1>1. /\ req \in [Requests -> Request] /\ req[r] \in Request /\ RequestOK(req[r], r)
      /\ started \in [Requests -> Nat] /\ lost \in [Requests -> Nat] /\ execs \subseteq Execution
      /\ admitted \in [Nodes -> 0..Capacity] /\ pending \in [Nodes -> 0..MaxPending]
      /\ Capacity \in Nat /\ MaxPending \in Nat
  BY Types, RoutingAssumption, Zenon DEF IndInv
<1>2. /\ execs' = execs \cup {x} /\ started' = [started EXCEPT ![r] = i] /\ UNCHANGED broken
      /\ admitted' = [admitted EXCEPT ![n] = a] /\ pending' = [pending EXCEPT ![n] = p]
  BY Zenon DEF Execute, AcquireAdmission, AcquirePending
<1>3. req' = [req EXCEPT ![r] = q] /\ pc2 \in {"remote", "local"}
  BY <1>1, Zenon
<1> HIDE DEF pc2
<1>4. q \in Request /\ q.pc = pc2 /\ q.cand = req[r].cand /\ q.tries = req[r].tries
  BY <1>1, <1>3, Zenon DEF Request, Pcs
<1> HIDE DEF q
<1>5. RequestOK(q, r) /\ AccountedIn(q)
  <2>1. pc2 = "remote" => remote
    BY Zenon DEF pc2
  <2> QED BY <1>1, <1>3, <1>4, <2>1, Zenon DEF RequestOK, AccountedIn
<1>6. ProbeSlotsHeld'
  <2>1. CASE remote
    <3>1. q.start = req[r].start /\ q.pc = "remote"
      BY <1>1, <1>4, <2>1, Zenon DEF Request, q, pc2
    <3>2. \A l : Probing(req[r], r, l) => Probing(q, r, l)
      BY <1>4, <3>1 DEF Probing
    <3> QED BY <1>3, <1>4, <3>2, ProbeKept, Zenon
  <2>2. CASE ~remote
    <3>1. \A l : ~Probing(req[r], r, l)
      BY <2>2, Zenon DEF Probing
    <3> QED BY <1>3, <1>4, <3>1, ProbeKept, Zenon
  <2> QED BY <2>1, <2>2, Zenon
<1>7. i \in Nat /\ j \in Nat /\ lost' = [lost EXCEPT ![r] = j] /\ i <= j + 1
  <2>1. req[r].pc \in {"new", "route", "forward", "sent"}
    OBVIOUS
  <2>2. started[r] <= lost[r]
    BY <2>1, NothingUnderWay
  <2> QED BY <1>1, <2>2
<1>8. RepeatsNeedLoss' /\ started' \in [Requests -> Nat] /\ lost' \in [Requests -> Nat]
  <2>1. i <= j + (IF AccountedIn(q) THEN 1 ELSE 0)
    BY <1>5, <1>7
  <2>2. i \in Nat /\ j \in Nat /\ q \in Request /\ req' = [req EXCEPT ![r] = q]
    BY <1>3, <1>4, <1>7, Zenon
  <2>3. started' = [started EXCEPT ![r] = i] /\ lost' = [lost EXCEPT ![r] = j]
    BY <1>2, <1>7, Zenon
  <2> HIDE DEF i, j
  <2> QED BY <2>1, <2>2, <2>3, CountFrame, Zenon
<1>9. req' \in [Requests -> Request] /\ \A s \in Requests : RequestOK(req'[s], s)
  BY <1>3, <1>4, <1>5, RequestFrame, Zenon
<1>10. /\ x.req = r /\ x.node = n /\ x.no = i /\ x.remote = remote /\ x.waiting /\ ~JobDone(x)
       /\ x \in Execution
  <2>1. job \in {"queued", "running"}
    OBVIOUS
  <2> HIDE DEF job, i
  <2> QED BY <1>7, <2>1, Zenon DEF JobDone, Execution
<1> HIDE DEF x, job
<1>11. /\ Distinct(execs) /\ IsFiniteSet(execs) /\ LocalOK(execs, req)
       /\ \A e \in execs : e.no <= started[e.req] /\ e.req \in Requests /\ e.no \in Nat
  BY <1>1, Zenon DEF IndInv, ExecOK, Execution
<1>12. \A e \in execs : e.req = r => e.no # i
  <2>1. ASSUME NEW e \in execs, e.req = r PROVE e.no # i
    <3>1. e.no <= started[r] /\ e.no \in Nat /\ started[r] \in Nat
      BY <1>1, <1>11, <2>1, Zenon
    <3> QED BY <3>1
  <2> QED BY <2>1, Zenon
<1> HIDE DEF i
<1>13. ExecOK'
  <2>1. IsFiniteSet(execs')
    BY <1>2, <1>11, FS_AddElement
  <2>2. Distinct(execs')
    BY <1>2, <1>10, <1>11, <1>12 DEF Distinct
  <2>3. \A e \in execs' : e.no <= started'[e.req]
    <3>1. started'[r] = i /\ i <= i
      BY <1>1, <1>2, <1>7
    <3>2. ASSUME NEW e \in execs PROVE e.no <= started'[e.req]
      <4>1. CASE e.req = r
        <5>1. e.no <= started[r] /\ e.no \in Nat /\ started[r] \in Nat
          BY <1>1, <1>11, <4>1
        <5>2. e.no <= i
          BY <5>1 DEF i
        <5> QED BY <3>1, <4>1, <5>2, Zenon
      <4>2. CASE e.req # r
        BY <1>1, <1>2, <1>11, <4>2
      <4> QED BY <4>1, <4>2, Zenon
    <3> QED BY <1>2, <1>10, <3>1, <3>2
  <2>4. LocalOK(execs', req')
    <3>1. req'[r].pc = pc2 /\ (~remote => pc2 = "local")
      BY <1>1, <1>3, <1>4, Zenon DEF pc2
    <3>2. \A e \in execs : ~e.remote /\ e.waiting => e.req # r
      BY <1>11, Zenon DEF LocalOK
    <3>3. \A s \in Requests : s # r => req'[s] = req[s]
      BY <1>1, <1>3
    <3> QED BY <1>2, <1>10, <1>11, <3>1, <3>2, <3>3 DEF LocalOK
  <2> QED BY <2>1, <2>2, <2>3, <2>4, Zenon DEF ExecOK, Distinct, LocalOK
<1>14. /\ SlotsExact'
       /\ admitted' \in [Nodes -> 0..Capacity] /\ pending' \in [Nodes -> 0..MaxPending]
  <2> DEFINE A == Awaited(execs, n)
             H == Held(execs, n)
             A2 == Awaited(execs', n)
             H2 == Held(execs', n)
             cpu == r \in CpuTasks
  <2>1. /\ IsFiniteSet(A) /\ IsFiniteSet(H) /\ admitted[n] = Cardinality(A)
        /\ pending[n] = Cardinality(H) /\ admitted[n] \in Nat /\ pending[n] \in Nat
    BY SlotCounts
  <2>2. x \notin execs
    BY <1>10, <1>12, Zenon
  <2>3. x \notin A /\ x \notin H /\ A2 = A \cup {y \in {x} : TRUE} /\ H2 = H \cup {y \in {x} : cpu}
    BY <1>2, <1>10, <2>2 DEF Awaited, Held
  <2>4. cpu \in BOOLEAN /\ Slots(r) = One(cpu)
    BY DEF Slots, One
  <2> HIDE DEF A, H, A2, H2, cpu
  <2>5. Cardinality(A2) = Cardinality(A) + One(TRUE)
    BY <2>1, <2>3, GainCount, Zenon
  <2>6. Cardinality(H2) = Cardinality(H) + One(cpu)
    BY <2>1, <2>3, <2>4, GainCount
  <2>7. a = Cardinality(A2) /\ p = Cardinality(H2)
    BY <2>1, <2>4, <2>5, <2>6 DEF One
  <2>8. a \in 0..Capacity
    BY <1>1, <2>1, NotRefused
  <2>9. p \in 0..MaxPending
    <3>1. CASE cpu
      <4>1. pending[n] < MaxPending
        BY <3>1, NotRefused, Zenon DEF cpu
      <4>2. p = pending[n] + 1
        BY <2>4, <3>1, Zenon DEF One
      <4> QED BY <1>1, <2>1, <4>1, <4>2
    <3>2. CASE ~cpu
      <4>1. p = pending[n] + 0 /\ pending[n] \in 0..MaxPending
        BY <1>1, <2>4, <3>2 DEF One
      <4> QED BY <1>1, <4>1
    <3> QED BY <3>1, <3>2, Zenon
  <2>10. \A m \in Nodes \ {n} : /\ Cardinality(Awaited(execs', m)) = Cardinality(Awaited(execs, m))
                                /\ Cardinality(Held(execs', m)) = Cardinality(Held(execs, m))
    <3>1. \A m \in Nodes \ {n} : Awaited(execs', m) = Awaited(execs, m) /\ Held(execs', m) = Held(execs, m)
      BY <1>2, <1>10, Zenon DEF Awaited, Held
    <3> QED BY <3>1, Zenon
  <2> HIDE DEF a, p
  <2> QED BY <1>2, <2>7, <2>8, <2>9, <2>10, SlotsAssemble, Zenon DEF A2, H2
<1>15. TypeOK'
  BY <1>1, <1>2, <1>8, <1>9, <1>10, <1>14, Types DEF TypeOK
<1> QED BY <1>6, <1>8, <1>9, <1>13, <1>14, <1>15 DEF IndInv, RequestOK

LEMMA RouteLocallyStep ==
  ASSUME IndInv, NEW r \in Requests, RouteLocally(r)
  PROVE  IndInv'
<1> DEFINE n == Origin[r]
           refusal == Refusal(r, n)
<1>1. n \in Nodes /\ req[r].pc = "route" /\ UNCHANGED <<tokens, breaker, lost>>
  BY RoutingAssumption, Zenon DEF RouteLocally
<1>2. CASE refusal = "NONE" /\ req' = [req EXCEPT ![r].pc = "local"] /\ Execute(r, n, FALSE)
  <2> DEFINE remote == FALSE
  <2>1. /\ remote \in BOOLEAN /\ req[r].pc = IF remote THEN "sent" ELSE "route"
        /\ req' = [req EXCEPT ![r].pc = IF remote THEN "remote" ELSE "local"]
        /\ (remote => req[r].cand <= Len(Candidates[r])) /\ Execute(r, n, remote)
        /\ Refusal(r, n) = "NONE"
    BY <1>1, <1>2, Zenon
  <2> HIDE DEF remote, n
  <2> QED BY <1>1, <2>1, ExecuteStep, Zenon
<1>3. CASE /\ NextCandidate(r) \/ Finish(r, refusal)
           /\ UNCHANGED slots
  <2>1. refusal \in Codes
    BY RefusalCode, Zenon DEF Codes
  <2> HIDE DEF refusal
  <2> QED BY <1>1, <1>3, <2>1, RefusedLocally, Zenon
<1> QED BY <1>2, <1>3, Zenon DEF RouteLocally

LEMMA DeliverStep ==
  ASSUME IndInv, NEW r \in Requests, Deliver(r)
  PROVE  IndInv'
<1> DEFINE n == Candidate(r)
           refusal == Refusal(r, n)
<1>1. n \in Nodes /\ req[r].pc = "sent" /\ UNCHANGED <<tokens, breaker, lost>>
      /\ req[r].cand <= Len(Candidates[r])
  BY LinkType, Zenon DEF Deliver, IndInv, RequestOK
<1>2. CASE refusal = "NONE" /\ req' = [req EXCEPT ![r].pc = "remote"] /\ Execute(r, n, TRUE)
  <2> DEFINE remote == TRUE
  <2>1. /\ remote \in BOOLEAN /\ req[r].pc = IF remote THEN "sent" ELSE "route"
        /\ req' = [req EXCEPT ![r].pc = IF remote THEN "remote" ELSE "local"]
        /\ (remote => req[r].cand <= Len(Candidates[r])) /\ Execute(r, n, remote)
        /\ Refusal(r, n) = "NONE"
    BY <1>1, <1>2, Zenon
  <2> HIDE DEF remote, n
  <2> QED BY <1>1, <2>1, ExecuteStep, Zenon
<1>3. CASE /\ req' = [req EXCEPT ![r].pc = "replied", ![r].code = refusal]
           /\ UNCHANGED slots
  <2>1. refusal \in Codes
    BY RefusalCode, Zenon DEF Codes
  <2> HIDE DEF refusal
  <2> QED BY <1>1, <1>3, <2>1, RefusedRemotely, Zenon
<1> QED BY <1>2, <1>3, Zenon DEF Deliver

\* Executions are as many as their numbers.
Key(e) == <<e.req, e.no>>

LEMMA KeyCount ==
  ASSUME NEW S, IsFiniteSet(S), Distinct(S), NEW K, K = {Key(e) : e \in S}
  PROVE  IsFiniteSet(K) /\ Cardinality(K) = Cardinality(S)
<1> DEFINE f == [e \in S |-> Key(e)]
<1>1. f \in [S -> K]
  OBVIOUS
<1>2. \A e, g \in S : f[e] = f[g] => e = g
  BY Zenon DEF Key, Distinct
<1>3. \A k \in K : \E e \in S : f[e] = k
  OBVIOUS
<1> HIDE DEF f
<1>4. f \in Bijection(S, K)
  BY <1>1, <1>2, <1>3, Zenon DEF Bijection, Injection, Surjection, IsInjective
<1>5. ExistsBijection(S, K)
  BY <1>4 DEF ExistsBijection
<1> QED BY <1>5, FS_Bijection, Zenon

LEMMA PoolBreaksStep ==
  ASSUME IndInv, NEW n \in Nodes, PoolBreaks(n)
  PROVE  IndInv'
<1> DEFINE hit == {e \in execs : e.node = n /\ e.req \in CpuTasks /\ ~JobDone(e)}
           W == {f \in hit : f.waiting}
           B == {[e EXCEPT !.job = "INTERNAL_ERROR"] : e \in W}
           a == admitted[n]
           p == 0
<1>1. /\ execs' = (execs \ hit) \cup B /\ broken' = broken \cup {n}
      /\ ReleasePending(n, Cardinality(hit))
      /\ UNCHANGED <<req, tokens, breaker, admitted, started, lost>>
  BY Zenon DEF PoolBreaks
<1>2. execs \subseteq Execution /\ IsFiniteSet(execs) /\ Distinct(execs) /\ LocalOK(execs, req)
      /\ \A e \in execs : e.no <= started[e.req]
  BY Types, Zenon DEF IndInv, ExecOK
<1>3. hit = Held(execs, n)
  BY Zenon DEF Held
<1>4. ASSUME NEW e \in W, NEW y, y = [e EXCEPT !.job = "INTERNAL_ERROR"]
      PROVE  /\ y \in Execution /\ y.req = e.req /\ y.no = e.no /\ y.node = e.node
             /\ y.remote = e.remote /\ y.waiting = e.waiting /\ JobDone(y)
  <2>1. e \in Execution
    BY <1>2, Zenon
  <2>2. y \in Execution /\ y.job = "INTERNAL_ERROR"
    BY <1>4, <2>1, Zenon DEF Execution
  <2>3. /\ y.req = e.req /\ y.no = e.no /\ y.node = e.node /\ y.remote = e.remote
        /\ y.waiting = e.waiting
    BY <1>4, <2>1 DEF Execution
  <2> QED BY <2>2, <2>3, Zenon DEF JobDone
<1>5. ASSUME NEW y \in execs'
      PROVE  \E e \in execs : /\ y.req = e.req /\ y.no = e.no /\ y.node = e.node
                              /\ y.remote = e.remote /\ y.waiting = e.waiting /\ y \in Execution
                              /\ IF e \in hit THEN e.waiting /\ y = [e EXCEPT !.job = "INTERNAL_ERROR"]
                                              ELSE y = e
  <2>1. CASE y \in execs /\ y \notin hit
    <3> HIDE DEF hit
    <3> QED BY <1>2, <2>1
  <2>2. CASE y \in B
    <3>1. PICK e \in W : y = [e EXCEPT !.job = "INTERNAL_ERROR"]
      BY <2>2, Zenon
    <3>2. e \in hit /\ e \in execs /\ e.waiting
      OBVIOUS
    <3>3. /\ y \in Execution /\ y.req = e.req /\ y.no = e.no /\ y.node = e.node
          /\ y.remote = e.remote /\ y.waiting = e.waiting
      BY <1>4, <3>1
    <3> HIDE DEF hit
    <3> QED BY <3>1, <3>2, <3>3, Zenon
  <2> HIDE DEF hit, B
  <2> QED BY <1>1, <2>1, <2>2, Zenon
<1>6. /\ execs' \subseteq Execution /\ Distinct(execs')
      /\ \A e \in execs' : e.no <= started'[e.req]
      /\ LocalOK(execs', req)
  <2> HIDE DEF hit
  <2>1. execs' \subseteq Execution
    BY <1>5
  <2>2. \A e \in execs' : e.no <= started'[e.req]
    BY <1>1, <1>2, <1>5, Zenon
  <2>3. ASSUME NEW y \in execs', NEW z \in execs', y.req = z.req, y.no = z.no PROVE y = z
    <3>1. PICK e \in execs : /\ y.req = e.req /\ y.no = e.no
                             /\ IF e \in hit THEN y = [e EXCEPT !.job = "INTERNAL_ERROR"] ELSE y = e
      BY <1>5, Zenon
    <3>2. PICK f \in execs : /\ z.req = f.req /\ z.no = f.no
                             /\ IF f \in hit THEN z = [f EXCEPT !.job = "INTERNAL_ERROR"] ELSE z = f
      BY <1>5, Zenon
    <3>3. e = f
      BY <1>2, <2>3, <3>1, <3>2, Zenon DEF Distinct
    <3> QED BY <3>1, <3>2, <3>3
  <2>4. Distinct(execs')
    BY <2>3, Zenon DEF Distinct
  <2>5. ASSUME NEW y \in execs', ~y.remote, y.waiting
        PROVE  /\ req[y.req].pc = "local"
               /\ \A z \in execs' : ~z.remote /\ z.waiting /\ z.req = y.req => z = y
    <3>1. PICK e \in execs : /\ y.req = e.req /\ y.no = e.no /\ y.remote = e.remote
                             /\ y.waiting = e.waiting
      BY <1>5, Zenon
    <3>2. /\ req[e.req].pc = "local"
          /\ \A f \in execs : ~f.remote /\ f.waiting /\ f.req = e.req => f = e
      BY <1>2, <2>5, <3>1, Zenon DEF LocalOK
    <3>3. ASSUME NEW z \in execs', ~z.remote, z.waiting, z.req = y.req PROVE z = y
      <4>1. PICK f \in execs : /\ z.req = f.req /\ z.no = f.no /\ z.remote = f.remote
                               /\ z.waiting = f.waiting
        BY <1>5, Zenon
      <4>2. f = e
        BY <3>1, <3>2, <3>3, <4>1, Zenon
      <4> QED BY <2>3, <3>1, <3>3, <4>1, <4>2
    <3> QED BY <3>1, <3>2, <3>3, Zenon
  <2>6. LocalOK(execs', req)
    BY <2>5 DEF LocalOK
  <2> QED BY <2>1, <2>2, <2>4, <2>6, Zenon
<1>7. IsFiniteSet(execs')
  <2> DEFINE f == [e \in W |-> [e EXCEPT !.job = "INTERNAL_ERROR"]]
  <2>1. f \in [W -> B] /\ \A y \in B : \E e \in W : f[e] = y
    OBVIOUS
  <2>2. W \subseteq execs /\ execs \ hit \subseteq execs
    OBVIOUS
  <2> HIDE DEF f, B, W, hit
  <2>3. f \in Surjection(W, B)
    BY <2>1, Zenon DEF Surjection
  <2>4. IsFiniteSet(W) /\ IsFiniteSet(execs \ hit)
    BY <1>2, <2>2, FS_Subset, Zenon
  <2>5. IsFiniteSet(B)
    BY <2>3, <2>4, FS_Surjection, Zenon
  <2> QED BY <1>1, <2>4, <2>5, FS_Union, Zenon
<1>8. Held(execs', n) = {}
  <2> SUFFICES ASSUME NEW y \in Held(execs', n) PROVE FALSE
    OBVIOUS
  <2>1. y \in execs' /\ y.node = n /\ y.req \in CpuTasks /\ ~JobDone(y)
    BY DEF Held
  <2>2. CASE y \in execs /\ y \notin hit
    BY <2>1, <2>2, Zenon
  <2>3. CASE y \in B
    BY <1>4, <2>1, <2>3
  <2> HIDE DEF hit, B
  <2> QED BY <1>1, <2>1, <2>2, <2>3, Zenon
<1>9. \A m \in Nodes \ {n} : /\ Cardinality(Awaited(execs', m)) = Cardinality(Awaited(execs, m))
                             /\ Cardinality(Held(execs', m)) = Cardinality(Held(execs, m))
  <2>1. ASSUME NEW m \in Nodes \ {n}
        PROVE  Awaited(execs', m) = Awaited(execs, m) /\ Held(execs', m) = Held(execs, m)
    <3>1. \A y \in execs' : y.node = m => y \in execs
      BY <1>1, <1>4
    <3>2. \A y \in execs : y.node = m => y \in execs'
      BY <1>1, Zenon
    <3> HIDE DEF hit, B
    <3> QED BY <3>1, <3>2 DEF Awaited, Held
  <2> QED BY <2>1, Zenon
<1>10. Cardinality(Awaited(execs', n)) = a
  <2> DEFINE A == Awaited(execs, n)
             A2 == Awaited(execs', n)
             K == {Key(e) : e \in A}
  <2>1. IsFiniteSet(A) /\ a = Cardinality(A)
    BY SlotCounts, Zenon
  <2>2. A \subseteq execs /\ A2 \subseteq execs'
    BY Zenon DEF Awaited
  <2>3. Distinct(A) /\ Distinct(A2) /\ IsFiniteSet(A2)
    <3>1. IsFiniteSet(A2)
      BY <1>7, <2>2, FS_Subset, Zenon
    <3> QED BY <1>2, <1>6, <2>2, <3>1, Zenon DEF Distinct
  <2>4. K = {Key(e) : e \in A2}
    <3>1. ASSUME NEW e \in A PROVE \E y \in A2 : Key(y) = Key(e)
      <4>1. e \in execs /\ e.node = n /\ e.waiting
        BY Zenon DEF Awaited
      <4>2. CASE e \notin hit
        <5>1. e \in execs'
          BY <1>1, <4>1, <4>2, Zenon
        <5> QED BY <4>1, <5>1, Zenon DEF Awaited
      <4>3. CASE e \in hit
        <5> DEFINE y == [e EXCEPT !.job = "INTERNAL_ERROR"]
        <5>1. e \in W /\ y \in execs'
          BY <1>1, <4>1, <4>3, Zenon
        <5>2. y.req = e.req /\ y.no = e.no /\ y.node = e.node /\ y.waiting = e.waiting
          BY <1>4, <5>1, Zenon
        <5> HIDE DEF y, hit, W
        <5> QED BY <4>1, <5>1, <5>2, Zenon DEF Awaited, Key
      <4> QED BY <4>2, <4>3, Zenon
    <3>2. ASSUME NEW y \in A2 PROVE \E e \in A : Key(e) = Key(y)
      <4>1. y \in execs' /\ y.node = n /\ y.waiting
        BY Zenon DEF Awaited
      <4>2. PICK e \in execs : /\ y.req = e.req /\ y.no = e.no /\ y.node = e.node
                               /\ y.waiting = e.waiting
        BY <1>5, <4>1, Zenon
      <4> QED BY <4>1, <4>2, Zenon DEF Awaited, Key
    <3> HIDE DEF A, A2
    <3> QED BY <3>1, <3>2
  <2> HIDE DEF A, A2, K
  <2>5. Cardinality(K) = Cardinality(A)
    BY <2>1, <2>3, KeyCount, Zenon DEF K
  <2>6. Cardinality(K) = Cardinality(A2)
    BY <2>3, <2>4, KeyCount
  <2> QED BY <2>1, <2>5, <2>6, Zenon DEF A2
<1>11. /\ a \in 0..Capacity /\ p \in 0..MaxPending /\ Cardinality(Held(execs', n)) = p
       /\ admitted' = [admitted EXCEPT ![n] = a] /\ pending' = [pending EXCEPT ![n] = p]
  <2>1. pending[n] = Cardinality(hit) /\ pending[n] \in Nat /\ a \in 0..Capacity
    BY <1>3, SlotCounts
  <2>2. pending' = [pending EXCEPT ![n] = p]
    <3> DEFINE c == Cardinality(hit)
    <3> HIDE DEF hit
    <3>1. ~(c < c) /\ c - c = 0 /\ pending[n] = c
      BY <2>1
    <3>2. pending' = [pending EXCEPT ![n] = IF pending[n] < c THEN 0 ELSE pending[n] - c]
      BY <1>1, Zenon DEF ReleasePending
    <3> HIDE DEF c
    <3> QED BY <3>1, <3>2, Zenon
  <2>3. admitted' = [admitted EXCEPT ![n] = a]
    BY <1>1, Types
  <2>4. Cardinality(Held(execs', n)) = p
    BY <1>8, FS_EmptySet, Zenon
  <2>5. p \in 0..MaxPending
    BY RoutingAssumption
  <2> QED BY <2>1, <2>2, <2>3, <2>4, <2>5, Zenon
<1>12. /\ SlotsExact'
       /\ admitted' \in [Nodes -> 0..Capacity] /\ pending' \in [Nodes -> 0..MaxPending]
  <2> HIDE DEF a, p
  <2> QED BY <1>9, <1>10, <1>11, SlotsAssemble, Zenon
<1> HIDE DEF hit, W, B, a, p
<1>13. TypeOK'
  BY <1>1, <1>6, <1>12, Types, Zenon DEF TypeOK
<1>14. RepeatsNeedLoss'
  BY <1>1, Zenon DEF IndInv, RepeatsNeedLoss, Accounted
<1>15. ProbeSlotsHeld'
  BY <1>1, Zenon DEF IndInv, ProbeSlotsHeld, ProbesUnderWay, Link, Candidate
<1>16. \A r \in Requests : RequestOK(req[r], r)'
  BY <1>1, Zenon DEF IndInv, RequestOK
<1>17. ExecOK'
  BY <1>1, <1>6, <1>7, Zenon DEF ExecOK, Distinct, LocalOK
<1> QED BY <1>12, <1>13, <1>14, <1>15, <1>16, <1>17 DEF IndInv

-----------------------------------------------------------------------------
(* The invariant and what follows from it *)

LEMMA InitInvariant ==
  ASSUME Init
  PROVE  IndInv
<1>1. \A r \in Requests : req[r] = Received /\ started[r] = 0 /\ lost[r] = 0
  BY Zenon DEF Init
<1>2. execs = {} /\ IsFiniteSet(execs)
  BY FS_EmptySet DEF Init
<1>3. TypeOK
  <2>1. req \in [Requests -> Request]
    BY ReceivedRecord, Zenon DEF Init
  <2>2. NewBreaker \in Breaker
    BY Zenon DEF NewBreaker, Breaker, CircuitState
  <2>3. breaker \in [Nodes \X Nodes -> Breaker]
    BY <2>2, Zenon DEF Init
  <2>4. /\ 0 \in 0..Capacity /\ 0 \in 0..MaxPending /\ Burst \in 0..Burst
    BY RoutingAssumption
  <2>5. /\ tokens \in [Nodes -> 0..Burst] /\ admitted \in [Nodes -> 0..Capacity]
        /\ pending \in [Nodes -> 0..MaxPending]
    BY <2>4, Zenon DEF Init
  <2>6. started \in [Requests -> Nat] /\ lost \in [Requests -> Nat] /\ broken \subseteq Nodes
    BY DEF Init
  <2> QED BY <1>2, <2>1, <2>3, <2>5, <2>6, Zenon DEF TypeOK
<1>4. SlotsExact
  <2> SUFFICES ASSUME NEW n \in Nodes
               PROVE  /\ admitted[n] <= Capacity /\ pending[n] <= MaxPending
                      /\ admitted[n] = Cardinality(Awaited(execs, n))
                      /\ pending[n] = Cardinality(Held(execs, n))
    BY Zenon DEF SlotsExact, Awaited, Held
  <2>1. Awaited(execs, n) = {} /\ Held(execs, n) = {}
    BY <1>2, Zenon DEF Awaited, Held
  <2>2. admitted[n] = 0 /\ pending[n] = 0
    BY Zenon DEF Init
  <2>3. 0 <= Capacity /\ 0 <= MaxPending
    BY RoutingAssumption
  <2> QED BY <2>1, <2>2, <2>3, FS_EmptySet, Zenon
<1>5. RepeatsNeedLoss
  BY <1>1 DEF RepeatsNeedLoss
<1>6. ProbeSlotsHeld
  <2>1. \A l \in Nodes \X Nodes : breaker[l].state # "HALF_OPEN"
    BY Zenon DEF Init, NewBreaker
  <2> QED BY <2>1, Zenon DEF ProbeSlotsHeld
<1>7. \A r \in Requests : RequestOK(req[r], r)
  BY <1>1 DEF RequestOK, Received
<1>8. ExecOK
  BY <1>2, Zenon DEF ExecOK, Distinct, LocalOK
<1> QED BY <1>3, <1>4, <1>5, <1>6, <1>7, <1>8 DEF IndInv

\* What the origin of a request does preserves the invariant.
LEMMA OriginStepInvariant ==
  ASSUME IndInv, NEW r \in Requests, OriginStep(r)
  PROVE  IndInv'
<1>1. CASE Expire(r)
  BY <1>1, ExpireStep, Zenon
<1>2. CASE Route(r)
  BY <1>2, RouteStep
<1>3. CASE RouteLocally(r)
  BY <1>3, RouteLocallyStep
<1>4. CASE Attempt(r)
  BY <1>4, AttemptStep
<1>5. CASE ExchangeTimesOut(r)
  BY <1>5, NoAnswerStep, Zenon DEF ExchangeTimesOut, ExchangeFails
<1>6. CASE ExchangeReturns(r)
  BY <1>6, ExchangeReturnsStep
<1>7. ASSUME NEW e \in execs, ExecutionReturns(e) \/ ExecutionTimesOut(e)
      PROVE  IndInv'
  BY <1>7, ExecutionReturnsStep, ExecutionTimesOutStep
<1> QED BY <1>1, <1>2, <1>3, <1>4, <1>5, <1>6, <1>7 DEF OriginStep

LEMMA NextInvariant ==
  ASSUME IndInv, [Next]_vars
  PROVE  IndInv'
<1>1. ASSUME NEW r \in Requests, Receive(r) PROVE IndInv'
  BY <1>1, ReceiveStep, Zenon
<1>2. ASSUME NEW r \in Requests, OriginStep(r) PROVE IndInv'
  BY <1>2, OriginStepInvariant
<1>3. ASSUME NEW r \in Requests, Deliver(r) PROVE IndInv'
  BY <1>3, DeliverStep
<1>4. ASSUME NEW r \in Requests, ConnectionLost(r) \/ ConnectionClosed(r) PROVE IndInv'
  BY <1>4, NoAnswerStep, Zenon DEF ConnectionLost, ConnectionClosed, ExchangeFails
<1>5. ASSUME NEW e \in execs, JobStarts(e) PROVE IndInv'
  BY <1>5, JobStartsStep, Zenon
<1>6. ASSUME NEW e \in execs, JobEnds(e) PROVE IndInv'
  BY <1>6, JobEndsStep, Zenon
<1>7. ASSUME NEW e \in execs, ExecutionReturns(e) PROVE IndInv'
  BY <1>7, ExecutionReturnsStep
<1>8. ASSUME NEW e \in execs, ExecutionTimesOut(e) PROVE IndInv'
  BY <1>8, ExecutionTimesOutStep
<1>9. ASSUME NEW n \in Nodes, PoolBreaks(n) PROVE IndInv'
  BY <1>9, PoolBreaksStep
<1>10. ASSUME NEW n \in Nodes, Refill(n) PROVE IndInv'
  BY <1>10, RefillStep
<1>11. ASSUME NEW l \in Nodes \X Nodes, CoolDown(l) PROVE IndInv'
  BY <1>11, CoolDownStep, Zenon
<1>12. CASE UNCHANGED vars
  <2>1. UNCHANGED <<req, tokens, breaker, lost>> /\ UNCHANGED slots
    BY <1>12, Zenon DEF vars, slots
  <2>2. ProbeSlotsHeld'
    BY <2>1, Zenon DEF IndInv, ProbeSlotsHeld, ProbesUnderWay, Link, Candidate
  <2>3. tokens' \in [Nodes -> 0..Burst] /\ breaker' \in [Nodes \X Nodes -> Breaker]
    BY <2>1, Types
  <2> QED BY <2>1, <2>2, <2>3, SameFrame, Zenon
<1>13. CASE Next
  BY <1>1, <1>2, <1>3, <1>4, <1>5, <1>6, <1>7, <1>8, <1>9, <1>10, <1>11, <1>13 DEF Next
<1> QED BY <1>12, <1>13

\* Every reachable state of requests, breakers, slots and executions satisfies the
\* inductive invariant.
THEOREM Invariant == Spec => []IndInv
BY InitInvariant, NextInvariant, PTL DEF Spec

\* The counters of the rate limiter, the BackpressureController and the
\* _PendingLimiter stay within their limits, and requests, breakers and
\* executions are well-formed.
THEOREM RoutingTypeCorrect == Spec => []TypeOK
<1>1. IndInv => TypeOK
  BY DEF IndInv
<1> QED BY <1>1, Invariant, PTL

\* No admission and no pending slot leaks or is freed twice, for any number of
\* nodes, requests and slots, however returns, errors, timeouts of queued and
\* running jobs and broken pools interleave.
THEOREM SlotsNeverLeak == Spec => []SlotsExact
<1>1. IndInv => SlotsExact
  BY Zenon DEF IndInv
<1> QED BY <1>1, Invariant, PTL

\* forward_task() with its retries and execute() with its failover run a task
\* again only after an exchange that the peer had begun to work on was lost.
THEOREM RepeatsOnlyAfterLoss == Spec => []RepeatsNeedLoss
<1>1. IndInv => RepeatsNeedLoss
  BY Zenon DEF IndInv
<1> QED BY <1>1, Invariant, PTL

\* The probe slots of a half-open CircuitBreaker belong to exchanges that are
\* under way, whatever late results of earlier calls moved it in between.
THEOREM ProbesAreUnderWay == Spec => []ProbeSlotsHeld
<1>1. IndInv => ProbeSlotsHeld
  BY Zenon DEF IndInv
<1> QED BY <1>1, Invariant, PTL
=============================================================================
