---------------------- MODULE ReplicationOutboxProofs ----------------------
EXTENDS ReplicationOutbox, FiniteSetTheorems, TLAPS

Settled(p) == Larger(delivered[p], abandoned[p])

\* The shape of a slot: the queued and the in_flight flag exclude each other,
\* and a snapshot is stored exactly while one of them is set.
SlotShape ==
  \A p \in Pairs :
    /\ p \in queued => p \in slots /\ p \notin inFlight
    /\ p \in inFlight => p \in slots
    /\ p \in queued \cup inFlight
         => state[p] = published[p] /\ state[p] # 0 /\ Settled(p) < state[p]
    /\ p \notin queued \cup inFlight => state[p] = 0 /\ published[p] <= Settled(p)

\* Nothing is published before it is committed or settled before it is published.
HistoryOrdered ==
  \A p \in Pairs : Settled(p) <= published[p] /\ published[p] <= version[p[2]]

\* What a worker sends is newer than all it has settled for that pair.
SendShape ==
  \A x \in Workers : item[x] # NoItem =>
    LET p == item[x].pair
    IN /\ p \in inFlight
       /\ item[x].generation <= generation[p]
       /\ (item[x].generation = generation[p]) <=> (item[x].state = state[p])
       /\ item[x].state <= state[p]
       /\ Settled(p) < item[x].state

IndInv ==
  /\ TypeOK
  /\ OneSenderPerPair
  /\ SlotShape
  /\ HistoryOrdered
  /\ SendShape
  /\ NoSlotLeak
  /\ ReservationsHonoured
  /\ QueueExact
-----------------------------------------------------------------------------
(* Facts about numbers, pairs and reservations *)

LEMMA Transitive ==
  ASSUME NEW a \in Nat, NEW b \in Nat, NEW c \in Nat, a <= b
  PROVE  /\ b <= c => a <= c
         /\ b < c => a < c /\ a # c
         /\ b <= c => a < c + 1
OBVIOUS

LEMMA PairsOfType ==
  ASSUME NEW r \in Reservation \cup {NoReservation}
  PROVE  PairsOf(r) \in SUBSET Pairs
BY OutboxAssumption, Zenon DEF PairsOf, Reservation, Pairs

LEMMA PairsOfNone == PairsOf(NoReservation) = {}
BY Zenon DEF PairsOf

LEMMA PairsOfSome ==
  ASSUME NEW k \in Keys, NEW R \in SUBSET Peers
  PROVE  /\ [key |-> k, peers |-> R] \in Reservation
         /\ PairsOf([key |-> k, peers |-> R]) = R \X {k}
         /\ R \X {k} \in SUBSET Pairs
BY OutboxAssumption DEF PairsOf, Reservation, Pairs

\* A key's pairs carry that key: publish() writes the version of the right key.
LEMMA PairsOfKey ==
  ASSUME NEW r \in Reservation, NEW p \in PairsOf(r)
  PROVE  p \in Pairs /\ p[2] = r.key /\ r.key \in Keys
BY OutboxAssumption, Zenon DEF PairsOf, Reservation, Pairs

-----------------------------------------------------------------------------
(* Facts about the queue *)

LEMMA TailLists ==
  ASSUME NEW q \in Seq(Pairs), NEW S \in SUBSET Pairs, Lists(q, S), q # <<>>
  PROVE  /\ Head(q) \in S
         /\ Tail(q) \in Seq(Pairs)
         /\ Lists(Tail(q), S \ {Head(q)})
<1>1. Head(q) = q[1] /\ Head(q) \in S
  BY DEF Lists
<1>2. /\ Tail(q) \in Seq(Pairs)
      /\ Len(Tail(q)) = Len(q) - 1
      /\ \A i \in 1..Len(q) - 1 : Tail(q)[i] = q[i + 1]
  OBVIOUS
<1>3. \A i, j \in 1..Len(Tail(q)) : Tail(q)[i] = Tail(q)[j] => i = j
  BY <1>2 DEF Lists
<1>4. ASSUME NEW p \in Pairs
      PROVE  p \in S \ {Head(q)} <=> \E i \in 1..Len(Tail(q)) : Tail(q)[i] = p
  <2>1. ASSUME p \in S \ {Head(q)}
        PROVE  \E i \in 1..Len(Tail(q)) : Tail(q)[i] = p
    <3>1. PICK i \in 1..Len(q) : q[i] = p
      BY <2>1, Zenon DEF Lists
    <3>2. i # 1 /\ i - 1 \in 1..Len(Tail(q)) /\ Tail(q)[i - 1] = p
      BY <1>1, <1>2, <2>1, <3>1
    <3> QED
      BY <3>2, Zenon
  <2>2. ASSUME NEW i \in 1..Len(Tail(q)), Tail(q)[i] = p
        PROVE  p \in S \ {Head(q)}
    <3>1. i + 1 \in 1..Len(q) /\ q[i + 1] = p /\ 1 \in 1..Len(q) /\ i + 1 # 1
      BY <1>2, <2>2
    <3> QED
      BY <1>1, <3>1, Zenon DEF Lists
  <2> QED
    BY <2>1, <2>2, Zenon
<1> QED
  BY <1>1, <1>2, <1>3, <1>4, Zenon DEF Lists

LEMMA AppendLists ==
  ASSUME NEW q \in Seq(Pairs), NEW S \in SUBSET Pairs, Lists(q, S),
         NEW p \in Pairs, p \notin S
  PROVE  Append(q, p) \in Seq(Pairs) /\ Lists(Append(q, p), S \cup {p})
<1> DEFINE a == Append(q, p)
<1>1. /\ a \in Seq(Pairs) /\ Len(a) = Len(q) + 1 /\ a[Len(q) + 1] = p
      /\ \A i \in 1..Len(q) : a[i] = q[i]
  OBVIOUS
<1>2. \A i \in 1..Len(q) : q[i] # p
  BY Zenon DEF Lists
<1> HIDE DEF a
<1>3. \A i, j \in 1..Len(a) : a[i] = a[j] => i = j
  BY <1>1, <1>2 DEF Lists
<1>4. ASSUME NEW r \in Pairs
      PROVE  r \in S \cup {p} <=> \E i \in 1..Len(a) : a[i] = r
  <2>1. r \in S => \E i \in 1..Len(a) : a[i] = r
    BY <1>1 DEF Lists
  <2>2. p = r => a[Len(q) + 1] = r /\ Len(q) + 1 \in 1..Len(a)
    BY <1>1
  <2>3. ASSUME NEW i \in 1..Len(a), a[i] = r
        PROVE  r \in S \cup {p}
    BY <1>1, <2>3 DEF Lists
  <2> QED
    BY <2>1, <2>2, <2>3, Zenon
<1>5. Lists(a, S \cup {p})
  BY <1>3, <1>4, Zenon DEF Lists
<1> QED
  BY <1>1, <1>5, Zenon DEF a

LEMMA ConcatLists ==
  ASSUME NEW q \in Seq(Pairs), NEW S \in SUBSET Pairs, Lists(q, S),
         NEW T \in SUBSET Pairs, IsFiniteSet(T), S \cap T = {},
         NEW o \in Orders(T)
  PROVE  (q \o o) \in Seq(Pairs) /\ Lists(q \o o, S \cup T)
<1> DEFINE a == q \o o
           n == Cardinality(T)
<1>1. n \in Nat
  BY FS_CardinalityType, Zenon
<1>2. o \in [1..n -> T]
  BY Zenon DEF Orders
<1> HIDE DEF n
<1>3. o \in Seq(Pairs) /\ Len(o) = n
  BY <1>1, <1>2
<1>4. /\ a \in Seq(Pairs) /\ Len(a) = Len(q) + n
      /\ \A i \in 1..Len(q) : a[i] = q[i]
      /\ \A i \in 1..n : a[Len(q) + i] = o[i]
  BY <1>3
<1>5. /\ \A i, j \in 1..n : o[i] = o[j] => i = j
      /\ \A p \in T : \E i \in 1..n : o[i] = p
  BY Zenon DEF Orders, n
<1> HIDE DEF a
<1>6. \A i \in 1..Len(q) : q[i] \in S
  BY DEF Lists
<1>7. \A i \in 1..n : o[i] \in T
  BY <1>2, Zenon
<1>8. ASSUME NEW i \in 1..Len(a)
      PROVE  \/ i \in 1..Len(q) /\ a[i] = q[i] /\ a[i] \in S
             \/ i - Len(q) \in 1..n /\ a[i] = o[i - Len(q)] /\ a[i] \in T
  <2>1. CASE i <= Len(q)
    BY <1>4, <1>6, <2>1
  <2>2. CASE i > Len(q)
    <3>1. i - Len(q) \in 1..n /\ Len(q) + (i - Len(q)) = i
      BY <1>1, <1>4, <2>2
    <3> QED
      BY <1>4, <1>7, <3>1, Zenon
  <2> QED
    BY <2>1, <2>2, <1>1
<1>9. ASSUME NEW i \in 1..Len(a), NEW j \in 1..Len(a), a[i] = a[j]
      PROVE  i = j
  <2>1. CASE a[i] \in S
    <3>1. i \in 1..Len(q) /\ j \in 1..Len(q) /\ q[i] = q[j]
      BY <1>8, <1>9, <2>1, Zenon
    <3> QED
      BY <3>1, Zenon DEF Lists
  <2>2. CASE a[i] \in T
    <3>1. /\ i - Len(q) \in 1..n /\ j - Len(q) \in 1..n
          /\ o[i - Len(q)] = o[j - Len(q)]
      BY <1>8, <1>9, <2>2, Zenon
    <3>2. i - Len(q) = j - Len(q)
      BY <1>5, <3>1, Zenon
    <3> QED
      BY <3>2
  <2> QED
    BY <1>8, <2>1, <2>2, Zenon
<1>10. ASSUME NEW p \in Pairs
       PROVE  p \in S \cup T <=> \E i \in 1..Len(a) : a[i] = p
  <2>1. p \in S => \E i \in 1..Len(a) : a[i] = p
    BY <1>1, <1>4 DEF Lists
  <2>2. ASSUME p \in T PROVE \E i \in 1..Len(a) : a[i] = p
    <3>1. PICK i \in 1..n : o[i] = p
      BY <1>5, <2>2, Zenon
    <3>2. Len(q) + i \in 1..Len(a) /\ a[Len(q) + i] = p
      BY <1>1, <1>4, <3>1
    <3> QED
      BY <3>2, Zenon
  <2> QED
    BY <1>8, <2>1, <2>2, Zenon
<1>11. Lists(a, S \cup T)
  BY <1>9, <1>10, Zenon DEF Lists
<1> QED
  BY <1>4, <1>11, Zenon DEF a

-----------------------------------------------------------------------------
(* The invariant is inductive *)

LEMMA InitIndInv == Init => IndInv
<1> SUFFICES ASSUME Init PROVE IndInv
  OBVIOUS
<1> USE DEF Init
<1>1. TypeOK
  <2>1. stopping \in BOOLEAN
    BY Zenon
  <2> QED
    BY <2>1 DEF TypeOK
<1>2. OneSenderPerPair
  BY Zenon DEF OneSenderPerPair
<1>3. SlotShape /\ HistoryOrdered /\ SendShape /\ NoSlotLeak
  BY DEF SlotShape, HistoryOrdered, SendShape, NoSlotLeak, Settled, Larger, Pairs
<1>4. ReservationsHonoured
  <2>1. \A p \in Pairs : Holders(p) = {}
    BY PairsOfNone, Zenon DEF Holders
  <2> QED
    BY <2>1, FS_EmptySet, Zenon DEF ReservationsHonoured
<1>5. QueueExact
  BY DEF QueueExact, Lists
<1> QED
  BY <1>1, <1>2, <1>3, <1>4, <1>5, Zenon DEF IndInv

\* A handler that takes or drops a reservation changes the holders of its pairs
\* by itself, which keeps the count of reserve(), publish() and cancel() exact.
LEMMA HoldersGrow ==
  ASSUME TypeOK, NEW w \in Writers, NEW k \in Keys, NEW R \in SUBSET Peers,
         reservation[w] = NoReservation,
         reservation' = [reservation EXCEPT ![w] = [key |-> k, peers |-> R]],
         NEW p \in Pairs
  PROVE  /\ IsFiniteSet(Holders(p)) /\ Cardinality(Holders(p)) \in Nat
         /\ p \in R \X {k} => Cardinality(Holders(p)') = Cardinality(Holders(p)) + 1
         /\ p \notin R \X {k} => Holders(p)' = Holders(p)
<1>1. IsFiniteSet(Holders(p)) /\ Cardinality(Holders(p)) \in Nat
  BY OutboxAssumption, FS_Subset, FS_CardinalityType, Zenon DEF Holders
<1>2. /\ reservation'[w] = [key |-> k, peers |-> R]
      /\ \A v \in Writers \ {w} : reservation'[v] = reservation[v]
  BY Zenon DEF TypeOK
<1>3. w \notin Holders(p)
  BY PairsOfNone, Zenon DEF Holders
<1>4. p \in R \X {k} => Holders(p)' = Holders(p) \cup {w}
  BY <1>2, PairsOfSome DEF Holders
<1>5. p \notin R \X {k} => Holders(p)' = Holders(p)
  BY <1>2, <1>3, PairsOfSome DEF Holders
<1> QED
  BY <1>1, <1>3, <1>4, <1>5, FS_AddElement

LEMMA HoldersShrink ==
  ASSUME TypeOK, NEW w \in Writers,
         reservation' = [reservation EXCEPT ![w] = NoReservation],
         NEW p \in Pairs
  PROVE  /\ IsFiniteSet(Holders(p)) /\ Cardinality(Holders(p)) \in Nat
         /\ p \in PairsOf(reservation[w]) =>
              /\ Holders(p) # {} /\ Cardinality(Holders(p)) > 0
              /\ Cardinality(Holders(p)') = Cardinality(Holders(p)) - 1
         /\ p \notin PairsOf(reservation[w]) => Holders(p)' = Holders(p)
         /\ Holders(p)' \subseteq Holders(p)
         /\ Holders(p)' # {} => Cardinality(Holders(p)') > 0
<1>1. IsFiniteSet(Holders(p)) /\ Cardinality(Holders(p)) \in Nat
  BY OutboxAssumption, FS_Subset, FS_CardinalityType, Zenon DEF Holders
<1>2. /\ reservation'[w] = NoReservation
      /\ \A v \in Writers \ {w} : reservation'[v] = reservation[v]
  BY Zenon DEF TypeOK
<1>3. Holders(p)' = Holders(p) \ {w}
  BY <1>2, PairsOfNone, Zenon DEF Holders
<1>4. p \in PairsOf(reservation[w]) <=> w \in Holders(p)
  BY Zenon DEF Holders
<1>5. IsFiniteSet(Holders(p)') /\ Cardinality(Holders(p)') \in Nat
  BY <1>1, <1>3, FS_Subset, FS_CardinalityType, Zenon
<1>6. Holders(p)' # {} => Cardinality(Holders(p)') > 0
  BY <1>5, FS_EmptySet
<1>7. w \in Holders(p) => Cardinality(Holders(p)') = Cardinality(Holders(p)) - 1
  BY <1>1, <1>3, FS_RemoveElement, Zenon
<1>8. w \in Holders(p) => Cardinality(Holders(p)) > 0
  BY <1>1, <1>5, <1>7
<1> QED
  BY <1>1, <1>3, <1>4, <1>6, <1>7, <1>8, Zenon

LEMMA ReserveInd ==
  ASSUME IndInv, NEW w \in Writers, NEW k \in Keys, NEW R \in SUBSET Peers,
         Reserve(w, k, R)
  PROVE  IndInv'
<1> USE DEF IndInv
<1> DEFINE pairs == R \X {k}
<1>1. pairs \in SUBSET Pairs /\ [key |-> k, peers |-> R] \in Reservation
  BY PairsOfSome, Zenon
<1>2. /\ slots' = slots \cup pairs
      /\ reservations' = [p \in Pairs |-> IF p \in pairs THEN reservations[p] + 1
                                                         ELSE reservations[p]]
      /\ reservation[w] = NoReservation
      /\ reservation' = [reservation EXCEPT ![w] = [key |-> k, peers |-> R]]
      /\ UNCHANGED <<generation, state, queued, inFlight, ready, version, encodable,
                     item, running, stopping, published, delivered, abandoned>>
  BY Zenon DEF Reserve, Fits, history
<1> HIDE DEF pairs
<1>3. TypeOK'
  BY <1>1, <1>2 DEF TypeOK
<1>4. OneSenderPerPair' /\ HistoryOrdered' /\ SendShape'
  BY <1>2, Zenon DEF OneSenderPerPair, HistoryOrdered, SendShape, Settled
<1>5. SlotShape'
  BY <1>2, Zenon DEF SlotShape, Settled
<1>6. NoSlotLeak'
  BY <1>1, <1>2 DEF NoSlotLeak, TypeOK
<1>7. ASSUME NEW p \in Pairs
      PROVE  /\ reservations'[p] = Cardinality(Holders(p)')
             /\ Holders(p)' # {} => p \in slots'
  <2>1. reservations[p] = Cardinality(Holders(p)) /\ (Holders(p) # {} => p \in slots)
    BY Zenon DEF ReservationsHonoured
  <2>2. /\ p \in pairs => Cardinality(Holders(p)') = Cardinality(Holders(p)) + 1
        /\ p \notin pairs => Holders(p)' = Holders(p)
    BY <1>2, HoldersGrow, Zenon DEF pairs
  <2> QED
    BY <1>1, <1>2, <2>1, <2>2, Zenon
<1>8. QueueExact'
  BY <1>2, Zenon DEF QueueExact, Lists
<1> QED
  BY <1>3, <1>4, <1>5, <1>6, <1>7, <1>8, Zenon DEF ReservationsHonoured

LEMMA HeldPairs ==
  ASSUME TypeOK, ReservationsHonoured, NEW w \in Writers
  PROVE  /\ PairsOf(reservation[w]) \in SUBSET Pairs
         /\ \A p \in PairsOf(reservation[w]) : p \in slots /\ reservations[p] > 0
<1>1. reservation[w] \in Reservation \cup {NoReservation}
  BY Zenon DEF TypeOK
<1>2. PairsOf(reservation[w]) \in SUBSET Pairs
  BY <1>1, PairsOfType, Zenon
<1>3. ASSUME NEW p \in PairsOf(reservation[w])
      PROVE  p \in slots /\ reservations[p] > 0
  <2>1. w \in Holders(p) /\ p \in Pairs
    BY <1>2, Zenon DEF Holders
  <2>2. IsFiniteSet(Holders(p))
    BY OutboxAssumption, FS_Subset, Zenon DEF Holders
  <2>3. Cardinality(Holders(p)) # 0 /\ Cardinality(Holders(p)) \in Nat
    BY <2>1, <2>2, FS_EmptySet, FS_CardinalityType, Zenon
  <2> QED
    BY <2>1, <2>3 DEF ReservationsHonoured
<1> QED
  BY <1>2, <1>3, Zenon

LEMMA CancelInd ==
  ASSUME IndInv, NEW w \in Writers, Cancel(w)
  PROVE  IndInv'
<1> USE DEF IndInv
<1> DEFINE pairs == PairsOf(reservation[w])
           popped == {p \in pairs : Releasable(p)}
<1>1. pairs \in SUBSET Pairs /\ \A p \in pairs : p \in slots /\ reservations[p] > 0
  BY HeldPairs, Zenon
<1>2. popped \in SUBSET Pairs /\ pairs \cap slots = pairs
  BY <1>1, Zenon
<1>3. /\ slots' = slots \ popped
      /\ generation' = [p \in Pairs |-> IF p \in popped THEN 0 ELSE generation[p]]
      /\ reservations' = [p \in Pairs |-> IF p \in pairs THEN reservations[p] - 1
                                                         ELSE reservations[p]]
      /\ reservation' = [reservation EXCEPT ![w] = NoReservation]
      /\ UNCHANGED <<state, queued, inFlight, ready, version, encodable, item, running,
                     stopping, published, delivered, abandoned>>
  BY <1>1, <1>2, Zenon DEF Cancel, history
<1>4. \A p \in popped : /\ p \in pairs /\ reservations[p] = 1
                        /\ p \notin queued /\ p \notin inFlight
  BY <1>1 DEF Releasable, TypeOK
<1>5. \A p \in pairs \ popped :
        reservations[p] > 1 \/ state[p] # 0 \/ p \in queued \cup inFlight
  BY <1>1 DEF Releasable, TypeOK
<1> HIDE DEF pairs, popped
<1>6. TypeOK'
  BY <1>1, <1>2, <1>3 DEF TypeOK
<1>7. OneSenderPerPair' /\ HistoryOrdered'
  BY <1>3, Zenon DEF OneSenderPerPair, HistoryOrdered, Settled
<1>8. SendShape'
  <2>1. ASSUME NEW x \in Workers, item[x] # NoItem
        PROVE  item[x].pair \in Pairs /\ generation'[item[x].pair] = generation[item[x].pair]
    BY <1>2, <1>3, <1>4, <2>1, Zenon DEF SendShape, TypeOK
  <2> QED
    BY <1>3, <2>1, Zenon DEF SendShape, Settled
<1>9. SlotShape'
  BY <1>3, <1>4, Zenon DEF SlotShape, Settled
<1>10. NoSlotLeak'
  <2>1. ASSUME NEW p \in slots', reservations'[p] = 0
        PROVE  p \in queued \cup inFlight
    <3>1. p \in slots /\ p \notin popped /\ p \in Pairs
      BY <1>3, Zenon DEF TypeOK
    <3>2. CASE p \in pairs
      BY <1>1, <1>3, <1>5, <2>1, <3>1, <3>2 DEF SlotShape, TypeOK
    <3>3. CASE p \notin pairs
      BY <1>3, <2>1, <3>1, <3>3, Zenon DEF NoSlotLeak
    <3> QED
      BY <3>2, <3>3, Zenon
  <2> QED
    BY <1>3, <2>1, Zenon DEF NoSlotLeak
<1>11. ASSUME NEW p \in Pairs
       PROVE  /\ reservations'[p] = Cardinality(Holders(p)')
              /\ Holders(p)' # {} => p \in slots'
  <2>1. reservations[p] = Cardinality(Holders(p)) /\ (Holders(p) # {} => p \in slots)
    BY Zenon DEF ReservationsHonoured
  <2>2. /\ p \in pairs => Cardinality(Holders(p)') = Cardinality(Holders(p)) - 1
        /\ p \notin pairs => Holders(p)' = Holders(p)
        /\ Holders(p)' \subseteq Holders(p)
        /\ Holders(p)' # {} => Cardinality(Holders(p)') > 0
    BY <1>3, HoldersShrink, Zenon DEF pairs
  <2>3. reservations'[p] = Cardinality(Holders(p)')
    BY <1>3, <2>1, <2>2, Zenon
  <2>4. p \in popped => reservations'[p] = 0
    BY <1>3, <1>4
  <2> QED
    BY <1>3, <2>1, <2>2, <2>3, <2>4
<1>12. QueueExact'
  BY <1>3, <1>4, Zenon DEF QueueExact, Lists
<1> QED
  BY <1>6, <1>7, <1>8, <1>9, <1>10, <1>11, <1>12, Zenon DEF ReservationsHonoured

LEMMA PublishInd ==
  ASSUME IndInv, NEW w \in Writers, Publish(w)
  PROVE  IndInv'
<1> USE DEF IndInv
<1> DEFINE pairs == PairsOf(reservation[w])
           key == reservation[w].key
           v == version[key] + 1
           toQueue == pairs \ (queued \cup inFlight)
<1>1. pairs \in SUBSET Pairs /\ \A p \in pairs : p \in slots /\ reservations[p] > 0
  BY HeldPairs, Zenon
<1>2. key \in Keys /\ \A p \in pairs : p[2] = key
  <2>1. reservation[w] \in Reservation
    BY Zenon DEF Publish, Bumped, Released, ToQueue, TypeOK
  <2> QED
    BY <2>1, PairsOfKey, Zenon DEF Reservation
<1>3. v \in Nat /\ \A p \in pairs : published[p] < v
  <2>1. version[key] \in Nat
    BY <1>2, Zenon DEF TypeOK
  <2>2. \A p \in pairs : published[p] <= version[key] /\ published[p] \in Nat
    BY <1>1, <1>2, Zenon DEF HistoryOrdered, TypeOK
  <2> QED
    BY <2>1, <2>2
<1>4. /\ version' = [version EXCEPT ![key] = v]
      /\ encodable' = encodable \/ encodable' = StillEncodable(key)
      /\ generation' = [p \in Pairs |-> IF p \in pairs THEN generation[p] + 1
                                                       ELSE generation[p]]
      /\ state' = [p \in Pairs |-> IF p \in pairs THEN v ELSE state[p]]
      /\ reservations' = [p \in Pairs |-> IF p \in pairs THEN reservations[p] - 1
                                                         ELSE reservations[p]]
      /\ queued' = queued \cup toQueue
      /\ \E order \in Orders(toQueue) : ready' = ready \o order
      /\ reservation' = [reservation EXCEPT ![w] = NoReservation]
      /\ published' = [p \in Pairs |-> IF p \in pairs THEN v ELSE published[p]]
      /\ UNCHANGED <<slots, inFlight, item, running, stopping, delivered, abandoned>>
  BY Zenon DEF Publish, Bumped, Released, ToQueue
<1>5. IsFiniteSet(toQueue)
  <2>1. IsFiniteSet(Pairs)
    BY OutboxAssumption, FS_Product, Zenon DEF Pairs
  <2> QED
    BY <1>1, <2>1, FS_Subset, Zenon
<1>6. toQueue \in SUBSET pairs /\ toQueue \cap queued = {} /\ toQueue \cap inFlight = {}
      /\ \A p \in pairs : p \in toQueue \/ p \in queued \/ p \in inFlight
  OBVIOUS
<1> HIDE DEF pairs, key, v, toQueue
<1>7. ready' \in Seq(Pairs) /\ Lists(ready', queued')
  <2>1. toQueue \in SUBSET Pairs /\ queued \in SUBSET Pairs /\ ready \in Seq(Pairs)
    BY <1>1, <1>6, Zenon DEF TypeOK
  <2>2. Lists(ready, queued) /\ queued \cap toQueue = {}
    BY <1>6, Zenon DEF QueueExact
  <2> QED
    BY <1>4, <1>5, <2>1, <2>2, ConcatLists, Zenon
<1>8. TypeOK'
  <2>1. /\ generation' \in [Pairs -> Nat] /\ state' \in [Pairs -> Nat]
        /\ published' \in [Pairs -> Nat]
    BY <1>3, <1>4 DEF TypeOK
  <2>2. reservations' \in [Pairs -> Nat]
    BY <1>1, <1>4 DEF TypeOK
  <2>3. version' \in [Keys -> Nat] /\ queued' \in SUBSET Pairs
        /\ reservation' \in [Writers -> Reservation \cup {NoReservation}]
    BY <1>1, <1>2, <1>3, <1>4, <1>6, Zenon DEF TypeOK
  <2>4. encodable' \in [Keys -> Nat]
    <3>1. encodable \in [Keys -> Nat]
      BY Zenon DEF TypeOK
    <3>2. StillEncodable(key) \in [Keys -> Nat]
      BY <1>2, <3>1 DEF StillEncodable
    <3> QED
      BY <1>4, <3>1, <3>2, Zenon
  <2> QED
    BY <1>4, <1>7, <2>1, <2>2, <2>3, <2>4, Zenon DEF TypeOK
<1>9. OneSenderPerPair'
  BY <1>4, Zenon DEF OneSenderPerPair
<1>10. SlotShape'
  <2> SUFFICES ASSUME NEW p \in Pairs
               PROVE  /\ p \in queued' => p \in slots' /\ p \notin inFlight'
                      /\ p \in inFlight' => p \in slots'
                      /\ p \in queued' \cup inFlight'
                           => /\ state'[p] = published'[p] /\ state'[p] # 0
                              /\ Settled(p)' < state'[p]
                      /\ p \notin queued' \cup inFlight'
                           => state'[p] = 0 /\ published'[p] <= Settled(p)'
    BY Zenon DEF SlotShape
  <2>1. /\ v # 0 /\ Settled(p)' = Settled(p)
        /\ p \in pairs => Settled(p) < v
    <3>1. Settled(p) \in Nat /\ Settled(p) <= published[p] /\ published[p] \in Nat
      BY Zenon DEF Settled, Larger, TypeOK, HistoryOrdered
    <3>2. v # 0 /\ Settled(p)' = Settled(p)
      BY <1>2, <1>3, <1>4 DEF Settled, v, TypeOK
    <3> QED
      BY <1>3, <3>1, <3>2
  <2>2. CASE p \in pairs
    BY <1>1, <1>4, <1>6, <2>1, <2>2, Zenon DEF SlotShape
  <2>3. CASE p \notin pairs
    BY <1>4, <1>6, <2>1, <2>3, Zenon DEF SlotShape
  <2> QED
    BY <2>2, <2>3, Zenon
<1>11. HistoryOrdered'
  <2> SUFFICES ASSUME NEW p \in Pairs
               PROVE  Settled(p)' <= published'[p] /\ published'[p] <= version'[p[2]]
    BY Zenon DEF HistoryOrdered
  <2>1. /\ Settled(p)' = Settled(p) /\ Settled(p) \in Nat /\ published[p] \in Nat
        /\ p[2] \in Keys /\ version[p[2]] \in Nat
        /\ Settled(p) <= published[p] /\ published[p] <= version[p[2]]
    BY <1>4, Zenon DEF Settled, Larger, TypeOK, HistoryOrdered, Pairs
  <2>2. version'[p[2]] = IF p[2] = key THEN v ELSE version[p[2]]
    BY <1>2, <1>4, <2>1, Zenon DEF TypeOK
  <2>3. v = version[key] + 1
    BY Zenon DEF v
  <2>4. CASE p \in pairs
    BY <1>2, <1>3, <1>4, <2>1, <2>2, <2>4
  <2>5. CASE p \notin pairs
    BY <1>4, <2>1, <2>2, <2>3, <2>5
  <2> QED
    BY <2>4, <2>5, Zenon
<1>12. SendShape'
  <2> SUFFICES ASSUME NEW x \in Workers, item[x] # NoItem, NEW p, p = item[x].pair
               PROVE  /\ p \in inFlight
                      /\ item[x].generation <= generation'[p]
                      /\ (item[x].generation = generation'[p])
                           <=> (item[x].state = state'[p])
                      /\ item[x].state <= state'[p]
                      /\ Settled(p)' < item[x].state
    BY <1>4, Zenon DEF SendShape
  <2>1. p \in Pairs /\ item[x].generation \in Nat /\ item[x].state \in Nat
        /\ generation[p] \in Nat /\ state[p] \in Nat
    BY Zenon DEF TypeOK, Item
  <2>2. /\ p \in inFlight
        /\ item[x].generation <= generation[p]
        /\ (item[x].generation = generation[p]) <=> (item[x].state = state[p])
        /\ item[x].state <= state[p]
        /\ Settled(p)' < item[x].state
        /\ state[p] = published[p]
    BY <1>4, <2>1, Zenon DEF SendShape, SlotShape, Settled
  <2>3. CASE p \in pairs
    <3>1. generation'[p] = generation[p] + 1 /\ state'[p] = v
      BY <1>4, <2>1, <2>3, Zenon
    <3>2. state[p] < v /\ v \in Nat
      BY <1>3, <2>2, <2>3, Zenon
    <3>3. item[x].state < v /\ item[x].state # v
      BY <2>1, <2>2, <3>2, Transitive, Zenon
    <3>4. item[x].generation < generation[p] + 1
      BY <2>1, <2>2, Transitive
    <3>5. /\ item[x].generation <= generation[p] + 1
          /\ item[x].generation # generation[p] + 1
          /\ item[x].state <= v
      BY <2>1, <3>2, <3>3, <3>4
    <3> QED
      BY <2>2, <3>1, <3>3, <3>5, Zenon
  <2>4. CASE p \notin pairs
    BY <1>4, <2>1, <2>2, <2>4, Zenon
  <2> QED
    BY <2>3, <2>4, Zenon
<1>13. NoSlotLeak'
  BY <1>1, <1>4, <1>6, Zenon DEF NoSlotLeak, TypeOK
<1>14. ASSUME NEW p \in Pairs
       PROVE  /\ reservations'[p] = Cardinality(Holders(p)')
              /\ Holders(p)' # {} => p \in slots'
  <2>1. reservations[p] = Cardinality(Holders(p)) /\ (Holders(p) # {} => p \in slots)
    BY DEF ReservationsHonoured
  <2>2. /\ p \in pairs => Cardinality(Holders(p)') = Cardinality(Holders(p)) - 1
        /\ p \notin pairs => Holders(p)' = Holders(p)
        /\ Holders(p)' \subseteq Holders(p)
    BY <1>4, HoldersShrink, Zenon DEF pairs
  <2> QED
    BY <1>4, <2>1, <2>2, Zenon
<1>15. QueueExact'
  <2>1. \A p \in queued' : p \in slots' /\ state'[p] # 0 /\ p \notin inFlight'
    BY <1>4, <1>8, <1>10, Zenon DEF SlotShape, TypeOK
  <2> QED
    BY <1>7, <2>1, Zenon DEF QueueExact
<1> QED
  BY <1>8, <1>9, <1>10, <1>11, <1>12, <1>13, <1>14, <1>15, Zenon DEF ReservationsHonoured

LEMMA NextReadyInd ==
  ASSUME IndInv, NEW x \in Workers, NextReady(x)
  PROVE  IndInv'
<1> USE DEF IndInv
<1> DEFINE p == Head(ready)
           new == [pair |-> p, generation |-> generation[p], state |-> state[p],
                   attempts |-> 0]
<1>1. /\ p \in queued /\ Tail(ready) \in Seq(Pairs) /\ Lists(Tail(ready), queued \ {p})
  BY TailLists, Zenon DEF NextReady, MarkedInFlight, QueueExact, TypeOK
<1>2. p \in Pairs /\ p \in slots /\ state[p] # 0 /\ p \notin inFlight
  BY <1>1, Zenon DEF QueueExact, TypeOK
<1>3. /\ item[x] = NoItem
      /\ ready' = Tail(ready)
      /\ queued' = queued \ {p}
      /\ inFlight' = inFlight \cup {p}
      /\ item' = [item EXCEPT ![x] = new]
      /\ UNCHANGED <<slots, generation, state, reservations, reservation, version, encodable,
                     running, stopping, published, delivered, abandoned>>
  BY <1>2, Zenon DEF NextReady, MarkedInFlight, history
<1>4. new \in Item /\ new # NoItem /\ new.pair = p /\ new.generation = generation[p]
      /\ new.state = state[p]
  BY <1>2, OutboxAssumption DEF Item, TypeOK
<1>5. /\ item'[x] = new
      /\ \A y \in Workers \ {x} : item'[y] = item[y]
  BY <1>3, Zenon DEF TypeOK
<1> HIDE DEF p, new
<1>6. TypeOK'
  BY <1>1, <1>2, <1>3, <1>4, Zenon DEF TypeOK
<1>7. OneSenderPerPair'
  <2>1. \A y \in Workers : item[y] # NoItem => item[y].pair # p /\ item[y].pair \in Pairs
    BY <1>2, Zenon DEF OneSenderPerPair, TypeOK, Item
  <2>2. \A y, z \in Workers : item'[y] # NoItem /\ item'[z] # NoItem
                                /\ item'[y].pair = item'[z].pair => y = z
    BY <1>4, <1>5, <2>1 DEF OneSenderPerPair
  <2>3. \A q \in Pairs : q \in inFlight' <=>
          \E y \in Workers : item'[y] # NoItem /\ item'[y].pair = q
    BY <1>2, <1>3, <1>4, <1>5 DEF OneSenderPerPair
  <2> QED
    BY <1>6, <2>2, <2>3 DEF OneSenderPerPair, TypeOK
<1>8. SlotShape'
  BY <1>1, <1>2, <1>3, Zenon DEF SlotShape, Settled
<1>9. HistoryOrdered'
  BY <1>3, Zenon DEF HistoryOrdered, Settled
<1>10. SendShape'
  <2> SUFFICES ASSUME NEW y \in Workers, item'[y] # NoItem, NEW q, q = item'[y].pair
               PROVE  /\ q \in inFlight'
                      /\ item'[y].generation <= generation[q]
                      /\ (item'[y].generation = generation[q])
                           <=> (item'[y].state = state[q])
                      /\ item'[y].state <= state[q]
                      /\ Settled(q) < item'[y].state
    BY <1>3 DEF SendShape, Settled
  <2>1. CASE y = x
    <3>1. Settled(p) < state[p] /\ generation[p] \in Nat /\ state[p] \in Nat
      BY <1>1, <1>2, Zenon DEF SlotShape, TypeOK
    <3> QED
      BY <1>3, <1>4, <1>5, <2>1, <3>1
  <2>2. CASE y # x
    BY <1>3, <1>5, <2>2 DEF SendShape
  <2> QED
    BY <2>1, <2>2, Zenon
<1>11. NoSlotLeak' /\ ReservationsHonoured'
  BY <1>3, Zenon DEF NoSlotLeak, ReservationsHonoured, Holders
<1>12. QueueExact'
  BY <1>1, <1>3, Zenon DEF QueueExact
<1> QED
  BY <1>6, <1>7, <1>8, <1>9, <1>10, <1>11, <1>12, Zenon

\* The three steps that end a send, acknowledged, given up or cancelled, differ
\* only in the history they leave: the pair's settled version becomes the sent one.
LEMMA SettleInd ==
  ASSUME IndInv, NEW x \in Workers, item[x] # NoItem,
         Settle(item[x].pair, item[x].generation),
         item' = [item EXCEPT ![x] = NoItem],
         UNCHANGED <<reservation, version, encodable, stopping, published>>,
         running' \in SUBSET Workers,
         delivered' \in [Pairs -> Nat], abandoned' \in [Pairs -> Nat],
         \A q \in Pairs : Settled(q)' = IF q = item[x].pair THEN item[x].state
                                                            ELSE Settled(q)
  PROVE  IndInv'
<1> USE DEF IndInv
<1>0. PICK p \in Pairs, sent \in Nat : p = item[x].pair /\ sent = item[x].generation
  BY DEF TypeOK, Item
<1>1. /\ p \in inFlight /\ p \in slots /\ p \notin queued /\ item[x].state \in Nat /\ state[p] \in Nat
      /\ generation[p] \in Nat /\ reservations[p] \in Nat
      /\ sent <= generation[p] /\ item[x].state <= state[p]
      /\ (sent = generation[p]) <=> (item[x].state = state[p])
      /\ state[p] = published[p] /\ state[p] # 0
  BY <1>0, Zenon DEF SendShape, SlotShape, TypeOK, Item
<1>2. /\ item'[x] = NoItem
      /\ \A y \in Workers \ {x} : item'[y] = item[y] /\ (item[y] # NoItem => item[y].pair # p)
  BY <1>0, Zenon DEF TypeOK, OneSenderPerPair
<1>3. inFlight' = inFlight \ {p} /\ reservations' = reservations
  BY <1>0, <1>1, Zenon DEF Settle, Current, Unreserved, Requeued
<1>4. \/ /\ generation[p] = sent /\ reservations[p] = 0
         /\ slots' = slots \ {p} /\ generation' = [generation EXCEPT ![p] = 0]
         /\ state' = [state EXCEPT ![p] = 0] /\ queued' = queued /\ ready' = ready
      \/ /\ generation[p] = sent /\ reservations[p] > 0
         /\ slots' = slots /\ generation' = generation
         /\ state' = [state EXCEPT ![p] = 0] /\ queued' = queued /\ ready' = ready
      \/ /\ generation[p] # sent /\ slots' = slots /\ generation' = generation
         /\ state' = state /\ queued' = queued \cup {p} /\ ready' = Append(ready, p)
  <2>1. queued \ {p} = queued /\ (reservations[p] # 0 => reservations[p] > 0)
    <3> DEFINE c == reservations[p]
    <3>1. p \notin queued /\ c \in Nat
      BY <1>1, Zenon
    <3> HIDE DEF c, IndInv
    <3>2. c # 0 => c > 0
      BY <3>1
    <3>3. queued \ {p} = queued
      BY <3>1, Zenon
    <3> QED BY <3>2, <3>3, Zenon DEF c
  <2>2. Settle(p, sent)
    BY <1>0, Zenon
  <2> QED
    BY <1>1, <2>1, <2>2, Zenon DEF Settle, Current, Unreserved, Requeued
<1>5. \A q \in Pairs \ {p} :
        /\ (q \in slots' <=> q \in slots) /\ (q \in queued' <=> q \in queued)
        /\ (q \in inFlight' <=> q \in inFlight)
        /\ generation'[q] = generation[q] /\ state'[q] = state[q]
        /\ Settled(q)' = Settled(q)
  BY <1>0, <1>1, <1>3, <1>4, Zenon DEF TypeOK
<1>6. Settled(p)' = item[x].state
  BY <1>0, Zenon
<1>7. ready' \in Seq(Pairs) /\ Lists(ready', queued')
  <2>1. CASE generation[p] # sent
    <3>1. ready \in Seq(Pairs) /\ queued \in SUBSET Pairs /\ Lists(ready, queued)
      BY Zenon DEF QueueExact, TypeOK
    <3>2. Append(ready, p) \in Seq(Pairs) /\ Lists(Append(ready, p), queued \cup {p})
      BY <1>1, <3>1, AppendLists, Zenon
    <3> QED
      BY <1>4, <2>1, <3>2, Zenon
  <2>2. CASE generation[p] = sent
    BY <1>4, <2>2, Zenon DEF QueueExact, TypeOK
  <2> QED
    BY <2>1, <2>2, Zenon
<1>8. TypeOK'
  <2>1. generation' \in [Pairs -> Nat] /\ state' \in [Pairs -> Nat]
    <3>1. generation \in [Pairs -> Nat] /\ state \in [Pairs -> Nat]
      BY Zenon DEF TypeOK
    <3>2. /\ [generation EXCEPT ![p] = 0] \in [Pairs -> Nat]
          /\ [state EXCEPT ![p] = 0] \in [Pairs -> Nat]
      BY <3>1, Zenon
    <3> QED
      BY <1>4, <3>1, <3>2, Zenon
  <2>2. slots' \in SUBSET Pairs /\ queued' \in SUBSET Pairs /\ inFlight' \in SUBSET Pairs
    BY <1>1, <1>3, <1>4, Zenon DEF TypeOK
  <2>3. item' \in [Workers -> Item \cup {NoItem}]
    BY Zenon DEF TypeOK
  <2> QED
    BY <1>3, <1>7, <2>1, <2>2, <2>3, Zenon DEF TypeOK
<1>9. OneSenderPerPair'
  <2>1. \A y, z \in Workers : item'[y] # NoItem /\ item'[z] # NoItem
                                /\ item'[y].pair = item'[z].pair => y = z
    BY <1>2 DEF OneSenderPerPair
  <2>2. ASSUME NEW q \in Pairs
        PROVE  q \in inFlight' <=> \E y \in Workers : item'[y] # NoItem /\ item'[y].pair = q
    <3>1. CASE q = p
      BY <1>2, <1>3, <3>1, Zenon
    <3>2. CASE q # p
      BY <1>2, <1>3, <3>2, <1>0, Zenon DEF OneSenderPerPair
    <3> QED
      BY <3>1, <3>2, Zenon
  <2> QED
    BY <1>8, <2>1, <2>2 DEF OneSenderPerPair, TypeOK
<1>10. SlotShape'
  <2> SUFFICES ASSUME NEW q \in Pairs
               PROVE  /\ q \in queued' => q \in slots' /\ q \notin inFlight'
                      /\ q \in inFlight' => q \in slots'
                      /\ q \in queued' \cup inFlight'
                           => /\ state'[q] = published[q] /\ state'[q] # 0
                              /\ Settled(q)' < state'[q]
                      /\ q \notin queued' \cup inFlight'
                           => state'[q] = 0 /\ published[q] <= Settled(q)'
    BY Zenon DEF SlotShape
  <2>1. CASE q # p
    BY <1>5, <2>1, Zenon DEF SlotShape
  <2>2. CASE q = p /\ generation[p] # sent
    BY SMTT(30), <1>1, <1>3, <1>4, <1>6, <2>2
  <2>3. CASE q = p /\ generation[p] = sent
    <3>1. p \notin queued' /\ p \notin inFlight' /\ state'[p] = 0
      BY <1>1, <1>3, <1>4, <2>3, Zenon DEF TypeOK
    <3> QED
      BY <1>1, <1>6, <2>3, <3>1, Zenon
  <2> QED
    BY <2>1, <2>2, <2>3, Zenon
<1>11. HistoryOrdered'
  <2>1. ASSUME NEW q \in Pairs
        PROVE  Settled(q)' <= published[q] /\ published[q] <= version[q[2]]
    BY <1>1, <1>5, <1>6, Zenon DEF HistoryOrdered
  <2> QED
    BY <2>1, Zenon DEF HistoryOrdered
<1>12. SendShape'
  <2> SUFFICES ASSUME NEW y \in Workers, item'[y] # NoItem, NEW q, q = item'[y].pair
               PROVE  /\ q \in inFlight'
                      /\ item'[y].generation <= generation'[q]
                      /\ (item'[y].generation = generation'[q])
                           <=> (item'[y].state = state'[q])
                      /\ item'[y].state <= state'[q]
                      /\ Settled(q)' < item'[y].state
    BY Zenon DEF SendShape
  <2>1. y # x /\ item'[y] = item[y] /\ q # p /\ q \in Pairs
    BY <1>2, Zenon DEF TypeOK, Item
  <2> QED
    BY <1>5, <2>1 DEF SendShape
<1>13. NoSlotLeak'
  <2>1. ASSUME NEW q \in slots', reservations[q] = 0
        PROVE  q \in queued' \cup inFlight'
    <3>1. CASE q # p
      BY <1>5, <1>8, <2>1, <3>1, Zenon DEF NoSlotLeak, TypeOK
    <3>2. CASE q = p
      BY <1>1, <1>4, <2>1, <3>2
    <3> QED
      BY <3>1, <3>2, Zenon
  <2> QED
    BY <1>3, <2>1, Zenon DEF NoSlotLeak
<1>14. ReservationsHonoured'
  <2>1. ASSUME NEW q \in Pairs
        PROVE  /\ Holders(q)' = Holders(q)
               /\ reservations[q] = Cardinality(Holders(q))
               /\ Holders(q) # {} => q \in slots'
    <3>1. /\ Holders(q)' = Holders(q)
          /\ reservations[q] = Cardinality(Holders(q))
          /\ Holders(q) # {} => q \in slots
      BY Zenon DEF Holders, ReservationsHonoured
    <3>2. Holders(q) # {} => reservations[q] # 0
      <4>1. IsFiniteSet(Holders(q))
        BY OutboxAssumption, FS_Subset, Zenon DEF Holders
      <4> QED
        BY <3>1, <4>1, FS_EmptySet, Zenon
    <3> QED
      BY <1>4, <3>1, <3>2, Zenon
  <2> QED
    BY <1>3, <2>1, Zenon DEF ReservationsHonoured
<1>15. QueueExact'
  <2>1. \A q \in queued' : q \in slots' /\ state'[q] # 0 /\ q \notin inFlight'
    BY <1>8, <1>10, Zenon DEF SlotShape, TypeOK
  <2> QED
    BY <1>7, <2>1, Zenon DEF QueueExact
<1> QED
  BY <1>8, <1>9, <1>10, <1>11, <1>12, <1>13, <1>14, <1>15, Zenon

\* complete() and abandon() record the version that was sent.
LEMMA SettledBySend ==
  ASSUME IndInv, NEW x \in Workers, item[x] # NoItem,
         \/ /\ delivered' = [delivered EXCEPT ![item[x].pair] = Larger(@, item[x].state)]
            /\ abandoned' = abandoned
         \/ /\ abandoned' = [abandoned EXCEPT ![item[x].pair] = Larger(@, item[x].state)]
            /\ delivered' = delivered
  PROVE  /\ delivered' \in [Pairs -> Nat] /\ abandoned' \in [Pairs -> Nat]
         /\ \A q \in Pairs : Settled(q)' = IF q = item[x].pair THEN item[x].state
                                                               ELSE Settled(q)
<1>1. /\ item[x].pair \in Pairs /\ item[x].state \in Nat
      /\ delivered \in [Pairs -> Nat] /\ abandoned \in [Pairs -> Nat]
      /\ Settled(item[x].pair) < item[x].state
  BY Zenon DEF IndInv, TypeOK, Item, SendShape
<1> QED
  BY <1>1 DEF Settled, Larger

LEMMA RetrySendInd ==
  ASSUME IndInv, NEW x \in Workers, RetrySend(x)
  PROVE  IndInv'
<1> USE DEF IndInv
<1>1. /\ item' = [item EXCEPT ![x].attempts = @ + 1] /\ item[x] \in Item
      /\ UNCHANGED <<slots, generation, state, queued, inFlight, reservations, ready,
                     reservation, version, encodable, running, stopping,
                     published, delivered, abandoned>>
  BY Zenon DEF RetrySend, slotVars, history, TypeOK
<1>2. /\ item' \in [Workers -> Item \cup {NoItem}]
      /\ \A y \in Workers :
           /\ item'[y] = NoItem <=> item[y] = NoItem
           /\ item[y] # NoItem => /\ item'[y].pair = item[y].pair
                                  /\ item'[y].generation = item[y].generation
                                  /\ item'[y].state = item[y].state
  <2>1. item[x] # NoItem /\ item[x].attempts \in Nat
    BY <1>1, OutboxAssumption, Zenon DEF Item
  <2>2. PICK new \in Item : /\ item' = [item EXCEPT ![x] = new] /\ new # NoItem
                            /\ new.pair = item[x].pair
                            /\ new.generation = item[x].generation
                            /\ new.state = item[x].state
    <3> DEFINE new == [item[x] EXCEPT !.attempts = @ + 1]
    <3>1. new \in Item /\ new.pair = item[x].pair
          /\ new.generation = item[x].generation /\ new.state = item[x].state
      BY <1>1, <2>1 DEF Item
    <3>2. new # NoItem
      BY <3>1, OutboxAssumption, Zenon
    <3>3. item' = [item EXCEPT ![x] = new]
      BY <1>1, Zenon DEF TypeOK
    <3> QED
      BY <3>1, <3>2, <3>3, Zenon
  <2> QED
    BY <2>1, <2>2, Zenon DEF TypeOK
<1>3. TypeOK' /\ SlotShape' /\ HistoryOrdered' /\ NoSlotLeak'
  BY <1>1, <1>2, Zenon DEF TypeOK, SlotShape, HistoryOrdered, NoSlotLeak, Settled
<1>4. OneSenderPerPair'
  <2>1. \A q \in Pairs : (\E y \in Workers : item'[y] # NoItem /\ item'[y].pair = q)
                           <=> q \in inFlight
    BY <1>2, Zenon DEF OneSenderPerPair
  <2> QED
    BY <1>1, <1>2, <1>3, <2>1 DEF OneSenderPerPair, TypeOK
<1>5. SendShape'
  BY <1>1, <1>2 DEF SendShape, Settled
<1>6. ReservationsHonoured' /\ QueueExact'
  BY SMTT(30), <1>1 DEF ReservationsHonoured, Holders, QueueExact, Lists
<1> QED
  BY <1>3, <1>4, <1>5, <1>6, Zenon

LEMMA UnchangedInd ==
  ASSUME IndInv, UNCHANGED <<slotVars, reservation, version, encodable, item, history>>,
         running' \in SUBSET Workers, stopping' \in BOOLEAN
  PROVE  IndInv'
<1> USE DEF IndInv, slotVars, history
<1>1. TypeOK'
  BY Zenon DEF TypeOK
<1>2. OneSenderPerPair' /\ NoSlotLeak' /\ ReservationsHonoured'
  BY DEF OneSenderPerPair, NoSlotLeak, ReservationsHonoured, Holders
<1>3. SlotShape' /\ HistoryOrdered' /\ SendShape'
  BY Zenon DEF SlotShape, HistoryOrdered, SendShape, Settled
<1>4. QueueExact'
  BY Zenon DEF QueueExact, Lists
<1> QED
  BY <1>1, <1>2, <1>3, <1>4, Zenon

LEMMA NextIndInv == IndInv /\ [Next]_vars => IndInv'
<1> SUFFICES ASSUME IndInv, [Next]_vars PROVE IndInv'
  OBVIOUS
<1>1. ASSUME NEW w \in Writers, NEW k \in Keys, NEW R \in SUBSET Peers, Reserve(w, k, R)
      PROVE  IndInv'
  BY <1>1, ReserveInd, Zenon
<1>2. ASSUME NEW w \in Writers, HandlerStep(w)
      PROVE  IndInv'
  BY <1>2, PublishInd, CancelInd, Zenon DEF HandlerStep
<1>3. ASSUME NEW x \in Workers, NextReady(x) \/ RetrySend(x)
      PROVE  IndInv'
  BY <1>3, NextReadyInd, RetrySendInd, Zenon
<1>4. ASSUME NEW x \in Workers, SendAcknowledged(x) \/ SendAbandoned(x)
      PROVE  IndInv'
  <2>1. /\ item[x] # NoItem /\ Settle(item[x].pair, item[x].generation)
        /\ item' = [item EXCEPT ![x] = NoItem]
        /\ UNCHANGED <<reservation, version, encodable, stopping, published>>
        /\ running' \in SUBSET Workers
    BY <1>4, Zenon DEF SendAcknowledged, SendAbandoned, IndInv, TypeOK
  <2>2. /\ delivered' \in [Pairs -> Nat] /\ abandoned' \in [Pairs -> Nat]
        /\ \A q \in Pairs : Settled(q)' = IF q = item[x].pair THEN item[x].state
                                                              ELSE Settled(q)
    BY <1>4, <2>1, SettledBySend, Zenon DEF SendAcknowledged, SendAbandoned
  <2> QED
    BY <2>1, <2>2, SettleInd, Zenon
<1>5. CASE Stop
  <2>1. stopping' \in BOOLEAN
    BY <1>5, Zenon DEF Stop
  <2>2. UNCHANGED <<slotVars, reservation, version, encodable, item, history>>
        /\ running' \in SUBSET Workers
    BY <1>5, Zenon DEF Stop, IndInv, TypeOK
  <2> QED
    BY <2>1, <2>2, UnchangedInd, Zenon
<1>6. ASSUME NEW x \in Workers, WorkerCancelled(x)
      PROVE  IndInv'
  <2>1. running' \in SUBSET Workers /\ stopping' \in BOOLEAN
    BY <1>6, Zenon DEF WorkerCancelled, IndInv, TypeOK
  <2>2. CASE item[x] = NoItem
    BY <1>6, <2>1, <2>2, UnchangedInd, Zenon DEF WorkerCancelled, history
  <2>3. CASE item[x] # NoItem
    <3>1. /\ Settle(item[x].pair, item[x].generation)
          /\ item' = [item EXCEPT ![x] = NoItem]
          /\ UNCHANGED <<reservation, version, encodable, stopping, published, delivered>>
          /\ abandoned' = [abandoned EXCEPT ![item[x].pair] = Larger(@, item[x].state)]
      BY <1>6, <2>3, Zenon DEF WorkerCancelled
    <3>2. /\ delivered' \in [Pairs -> Nat] /\ abandoned' \in [Pairs -> Nat]
          /\ \A q \in Pairs : Settled(q)' = IF q = item[x].pair THEN item[x].state
                                                                ELSE Settled(q)
      BY <2>3, <3>1, SettledBySend, Zenon
    <3> QED
      BY <2>1, <2>3, <3>1, <3>2, SettleInd, Zenon
  <2> QED
    BY <2>2, <2>3, Zenon
<1>7. ASSUME NEW x \in Workers, SendRaises(x)
      PROVE  IndInv'
  <2>1. UNCHANGED <<slotVars, reservation, version, encodable, item, history>>
        /\ running' \in SUBSET Workers /\ stopping' \in BOOLEAN
    BY <1>7, Zenon DEF SendRaises, IndInv, TypeOK
  <2> QED
    BY <2>1, UnchangedInd, Zenon
<1>8. CASE UNCHANGED vars
  BY <1>8, UnchangedInd, Zenon DEF vars, slotVars, history, IndInv, TypeOK
<1> QED
  BY <1>1, <1>2, <1>3, <1>4, <1>5, <1>6, <1>7, <1>8, OutboxAssumption, Zenon DEF Next, WorkerStep
-----------------------------------------------------------------------------
(* Safety theorems *)

\* Every reachable state of the outbox, its handlers and its workers satisfies the
\* inductive invariant, whatever the numbers of peers, keys, handlers and workers.
THEOREM Invariance == Spec => []IndInv
BY InitIndInv, NextIndInv, PTL DEF Spec

\* The fields of every _Pending keep their types; above all no reservation count
\* becomes negative.
THEOREM TypeCorrect == Spec => []TypeOK
<1>1. IndInv => TypeOK
  BY Zenon DEF IndInv
<1> QED
  BY <1>1, Invariance, PTL

\* Coalescing publishes, concurrent sends, aborted sends and stop() never lose the
\* newest snapshot published for a peer and key.
THEOREM NewestSnapshotIsKept == Spec => []NewestIsKept
<1>1. IndInv => NewestIsKept
  BY Zenon DEF IndInv, NewestIsKept, SlotShape, Settled
<1> QED
  BY <1>1, Invariance, PTL

\* publish() always finds the slots its handler reserved, and each slot counts its
\* reservations exactly.
THEOREM ReservationsAreHonoured == Spec => []ReservationsHonoured
<1>1. IndInv => ReservationsHonoured
  BY Zenon DEF IndInv
<1> QED
  BY <1>1, Invariance, PTL

\* No pair is sent by two workers at once, and in_flight marks exactly the pairs
\* that are being sent or whose worker has died: a pair whose worker has died is
\* never sent again, by whatever number of workers.
THEOREM SendersAreExclusive == Spec => []OneSenderPerPair
<1>1. IndInv => OneSenderPerPair
  BY Zenon DEF IndInv
<1> QED
  BY <1>1, Invariance, PTL

\* A slot without reservations is queued, or a worker has taken it, whose complete()
\* or abandon() releases it unless the worker dies.
THEOREM SlotsAreNotLeaked == Spec => []NoSlotLeak
<1>1. IndInv => NoSlotLeak
  BY Zenon DEF IndInv
<1> QED
  BY <1>1, Invariance, PTL

\* The asyncio queue agrees with the queued flags: next_ready() skips nothing.
THEOREM QueueIsExact == Spec => []QueueExact
<1>1. IndInv => QueueExact
  BY Zenon DEF IndInv
<1> QED
  BY <1>1, Invariance, PTL

\* Equal generations mean equal snapshots, the test complete() relies on.
THEOREM GenerationsTellTheNewest == Spec => []SentIsNotNewer
<1>1. ASSUME IndInv PROVE SentIsNotNewer
  <2> SUFFICES ASSUME NEW x \in Workers, item[x] # NoItem
               PROVE  LET p == item[x].pair
                      IN /\ p \in slots
                         /\ item[x].generation <= generation[p]
                         /\ (item[x].generation = generation[p])
                              <=> (item[x].state = state[p])
                         /\ item[x].state <= state[p]
    BY Zenon DEF SentIsNotNewer
  <2>1. item[x].pair \in Pairs
    BY <1>1, Zenon DEF IndInv, TypeOK, Item
  <2> QED
    BY <1>1, <2>1, Zenon DEF IndInv, SendShape, SlotShape
<1> QED
  BY <1>1, Invariance, PTL
-----------------------------------------------------------------------------
(* The capacity *)

LEMMA SlotsFinite ==
  ASSUME TypeOK
  PROVE  IsFiniteSet(slots) /\ Cardinality(slots) \in Nat
<1>1. IsFiniteSet(Pairs)
  BY OutboxAssumption, FS_Product, Zenon DEF Pairs
<1> QED
  BY <1>1, FS_Subset, FS_CardinalityType, Zenon DEF TypeOK

LEMMA FewerSlots ==
  ASSUME TypeOK, WithinCapacity, slots' \in SUBSET slots
  PROVE  WithinCapacity'
<1>1. IsFiniteSet(slots) /\ Cardinality(slots) \in Nat
  BY SlotsFinite, Zenon
<1>2. Cardinality(slots') <= Cardinality(slots) /\ Cardinality(slots') \in Nat
  BY <1>1, FS_Subset, FS_CardinalityType, Zenon
<1> QED
  BY <1>1, <1>2, OutboxAssumption DEF WithinCapacity

\* The number of slots never exceeds the configured capacity: only reserve() adds
\* slots, and it counts the new pairs of its request before it adds them.
THEOREM CapacityIsRespected == Spec => []WithinCapacity
<1>1. Init => WithinCapacity
  BY FS_EmptySet, OutboxAssumption DEF Init, WithinCapacity
<1>2. TypeOK /\ WithinCapacity /\ [Next]_vars => WithinCapacity'
  <2> SUFFICES ASSUME TypeOK, WithinCapacity, [Next]_vars PROVE WithinCapacity'
    OBVIOUS
  <2>1. ASSUME NEW w \in Writers, NEW k \in Keys, NEW R \in SUBSET Peers, Reserve(w, k, R)
        PROVE  WithinCapacity'
    <3> DEFINE newPairs == (R \X {k}) \ slots
    <3>1. slots' = slots \cup newPairs
          /\ Cardinality(slots) + Cardinality(newPairs) <= Capacity
      BY <2>1, Zenon DEF Reserve, Fits
    <3>2. IsFiniteSet(newPairs)
      <4>1. IsFiniteSet(Pairs)
        BY OutboxAssumption, FS_Product, Zenon DEF Pairs
      <4>2. newPairs \in SUBSET Pairs
        BY PairsOfSome, Zenon
      <4> QED
        BY <4>1, <4>2, FS_Subset, Zenon
    <3>3. Cardinality(newPairs) \in Nat /\ slots \cap newPairs = {}
      BY <3>2, FS_CardinalityType, Zenon
    <3>4. Cardinality(slots \cup newPairs)
            = Cardinality(slots) + Cardinality(newPairs) - Cardinality(slots \cap newPairs)
      BY <3>2, SlotsFinite, FS_Union, Zenon
    <3>5. Cardinality(slots \cap newPairs) = 0
      BY <3>3, FS_EmptySet, Zenon
    <3> HIDE DEF newPairs
    <3> QED
      BY <3>1, <3>3, <3>4, <3>5, SlotsFinite, OutboxAssumption DEF WithinCapacity
  <2>2. ASSUME NEW w \in Writers, HandlerStep(w)
        PROVE  slots' \in SUBSET slots
    BY <2>2, Zenon DEF HandlerStep, Publish, Bumped, Released, ToQueue, Cancel
  <2>3. ASSUME NEW x \in Workers, WorkerStep(x) \/ WorkerCancelled(x)
        PROVE  slots' \in SUBSET slots
    BY <2>3, Zenon DEF WorkerStep, NextReady, MarkedInFlight, RetrySend, SendAcknowledged, SendAbandoned,
                SendRaises, WorkerCancelled, Settle, slotVars
  <2>4. Stop \/ UNCHANGED vars => slots' \in SUBSET slots
    BY Zenon DEF Stop, vars, slotVars
  <2> QED
    BY <2>1, <2>2, <2>3, <2>4, FewerSlots, OutboxAssumption, Zenon DEF Next
<1> QED
  BY <1>1, <1>2, TypeCorrect, PTL DEF Spec
-----------------------------------------------------------------------------
(* The outbox implements the abstract channel *)

\* MaxVersion bounds the versions, which publish() takes one by one.
VersionBounded == \A k \in Keys : version[k] <= MaxVersion

LEMMA VersionsAreBounded == Spec => []VersionBounded
<1>1. Init => VersionBounded
  BY OutboxAssumption DEF Init, VersionBounded
<1>2. TypeOK /\ VersionBounded /\ [Next]_vars => VersionBounded'
  <2> SUFFICES ASSUME TypeOK, VersionBounded, [Next]_vars PROVE VersionBounded'
    OBVIOUS
  <2>1. ASSUME NEW w \in Writers, Publish(w)
        PROVE  VersionBounded'
    BY <2>1, OutboxAssumption DEF Publish, Bumped, Released, ToQueue, VersionBounded, TypeOK
  <2>2. CASE UNCHANGED version
    BY <2>2, Zenon DEF VersionBounded
  <2> QED
    BY <2>1, <2>2, Zenon DEF Next, HandlerStep, WorkerStep, Reserve, Fits, Cancel, NextReady, MarkedInFlight,
       RetrySend, SendAcknowledged, SendAbandoned, SendRaises, Stop, WorkerCancelled, vars
<1> QED
  BY <1>1, <1>2, TypeCorrect, PTL DEF Spec

\* The refinement mapping.
owedBar == [p \in Pairs |-> IF p \in queued \cup inFlight THEN state[p] ELSE 0]
settledBar == [p \in Pairs |-> Larger(delivered[p], abandoned[p])]

LEMMA StutterStep ==
  ASSUME UNCHANGED <<state, delivered, abandoned>>,
         queued' \cup inFlight' = queued \cup inFlight
  PROVE  UNCHANGED Channel!vars
BY Zenon DEF Channel!vars

LEMMA PublishOffers ==
  ASSUME IndInv, VersionBounded, NEW w \in Writers, Publish(w)
  PROVE  Channel!Next
<1> USE DEF IndInv
<1>1. PICK pairs \in SUBSET Pairs, v \in Nat :
        pairs = PairsOf(reservation[w]) /\ v = version[reservation[w].key] + 1
        /\ v \in 1..MaxVersion
        /\ \A p \in pairs : published[p] < v
  <2>1. reservation[w] \in Reservation
    BY Zenon DEF Publish, Bumped, Released, ToQueue, TypeOK
  <2>2. reservation[w].key \in Keys /\ version[reservation[w].key] \in Nat
        /\ version[reservation[w].key] < MaxVersion
    BY <2>1, Zenon DEF Reservation, TypeOK, Publish, Bumped, Released, ToQueue
  <2>3. PairsOf(reservation[w]) \in SUBSET Pairs
    BY <2>1, PairsOfType, Zenon
  <2>4. \A p \in PairsOf(reservation[w]) : p[2] = reservation[w].key
    BY <2>1, PairsOfKey, Zenon
  <2>5. \A p \in PairsOf(reservation[w]) : published[p] < version[reservation[w].key] + 1
    <3> SUFFICES ASSUME NEW p \in PairsOf(reservation[w])
                 PROVE  published[p] < version[reservation[w].key] + 1
      OBVIOUS
    <3>1. p \in Pairs /\ p[2] = reservation[w].key
      BY <2>3, <2>4, Zenon
    <3>2. published[p] <= version[p[2]] /\ published[p] \in Nat
      BY <3>1, Zenon DEF HistoryOrdered, TypeOK
    <3> QED
      BY <2>2, <3>1, <3>2
  <2>6. MaxVersion \in Nat
    BY OutboxAssumption, Zenon
  <2>7. /\ version[reservation[w].key] + 1 \in Nat
        /\ version[reservation[w].key] + 1 \in 1..MaxVersion
    BY <2>2, <2>6
  <2> QED
    BY <2>3, <2>5, <2>7, Zenon
<1>2. /\ state' = [p \in Pairs |-> IF p \in pairs THEN v ELSE state[p]]
      /\ queued' = queued \cup (pairs \ (queued \cup inFlight))
      /\ UNCHANGED <<inFlight, delivered, abandoned>>
  BY <1>1, Zenon DEF Publish, Bumped, Released, ToQueue
<1>3. ASSUME NEW p \in pairs
      PROVE  owedBar[p] < v /\ settledBar[p] < v
  <2>1. /\ published[p] < v /\ published[p] \in Nat /\ Settled(p) <= published[p]
        /\ Settled(p) \in Nat
        /\ p \in queued \cup inFlight => state[p] = published[p]
    BY <1>1, Zenon DEF HistoryOrdered, SlotShape, TypeOK, Settled, Larger
  <2>2. owedBar[p] = (IF p \in queued \cup inFlight THEN state[p] ELSE 0)
        /\ settledBar[p] = Settled(p)
    BY Zenon DEF owedBar, settledBar, Settled
  <2>3. settledBar[p] < v
    BY <2>1, <2>2, Transitive, Zenon
  <2>4. 0 < v
    BY <2>1
  <2>5. owedBar[p] < v
    BY <2>1, <2>2, <2>4, Zenon
  <2> QED
    BY <2>3, <2>5, Zenon
<1>4. owedBar' = [p \in Pairs |-> IF p \in pairs THEN v ELSE owedBar[p]]
  BY <1>2, Zenon DEF owedBar
<1>5. settledBar' = settledBar
  BY <1>2, Zenon DEF settledBar
<1>6. Channel!Offer(pairs, v)
  BY <1>3, <1>4, <1>5, Zenon DEF Channel!Offer, owedBar, settledBar
<1> QED
  BY <1>1, <1>6, Zenon DEF Channel!Next

LEMMA SettleSettles ==
  ASSUME IndInv, VersionBounded, NEW x \in Workers, item[x] # NoItem,
         Settle(item[x].pair, item[x].generation),
         \/ /\ delivered' = [delivered EXCEPT ![item[x].pair] = Larger(@, item[x].state)]
            /\ abandoned' = abandoned
         \/ /\ abandoned' = [abandoned EXCEPT ![item[x].pair] = Larger(@, item[x].state)]
            /\ delivered' = delivered
  PROVE  Channel!Next
<1> USE DEF IndInv
<1>1. PICK p \in Pairs, v \in Nat, g \in Nat :
        p = item[x].pair /\ v = item[x].state /\ g = item[x].generation
  BY DEF TypeOK, Item
<1>2. /\ p \in inFlight /\ p \in slots /\ p \notin queued
      /\ Settled(p) < v /\ v <= state[p] /\ (g = generation[p] <=> v = state[p])
      /\ state[p] = published[p] /\ state[p] \in Nat /\ Settled(p) \in Nat
  BY <1>1, Zenon DEF SendShape, SlotShape, TypeOK, Settled, Larger
<1>3. v \in 1..MaxVersion
  <2>1. p[2] \in Keys
    BY Zenon DEF Pairs
  <2>2. published[p] <= version[p[2]] /\ version[p[2]] <= MaxVersion
        /\ version[p[2]] \in Nat
    BY <2>1, Zenon DEF HistoryOrdered, VersionBounded, TypeOK
  <2>3. MaxVersion \in Nat
    BY OutboxAssumption, Zenon
  <2>4. state[p] <= MaxVersion
    BY <1>2, <2>2, <2>3, Transitive, Zenon
  <2>5. v <= MaxVersion
    BY <1>2, <2>3, <2>4, Transitive, Zenon
  <2>6. v # 0
    BY <1>2
  <2> QED
    BY <2>3, <2>5, <2>6
<1>4. \A q \in Pairs : Settled(q)' = IF q = p THEN v ELSE Settled(q)
  BY <1>1, SettledBySend, Zenon
<1>5. /\ inFlight' = inFlight \ {p}
      /\ g = generation[p] => state' = [state EXCEPT ![p] = 0] /\ queued' = queued
      /\ g # generation[p] => state' = state /\ queued' = queued \cup {p}
  <2>1. queued \ {p} = queued
    BY <1>2, Zenon
  <2> QED
    BY <1>1, <1>2, <2>1, Zenon DEF Settle, Current, Unreserved, Requeued
<1>6. settledBar' = [settledBar EXCEPT ![p] = v]
  <2>1. \A q \in Pairs : settledBar'[q] = [settledBar EXCEPT ![p] = v][q]
    BY <1>4, Zenon DEF settledBar, Settled, Larger
  <2> QED
    BY <2>1, Zenon DEF settledBar
<1>7. owedBar' = [owedBar EXCEPT ![p] = IF @ = v THEN 0 ELSE @]
  <2>1. state \in [Pairs -> Nat]
    BY Zenon DEF TypeOK
  <2>2. owedBar[p] = state[p]
    BY <1>2, Zenon DEF owedBar
  <2>3. CASE g = generation[p]
    BY <1>2, <1>5, <2>1, <2>2, <2>3, Zenon DEF owedBar
  <2>4. CASE g # generation[p]
    BY <1>2, <1>5, <2>1, <2>2, <2>4, Zenon DEF owedBar
  <2> QED
    BY <2>3, <2>4, Zenon
<1>8. settledBar[p] < v /\ v <= owedBar[p]
  BY <1>2, Zenon DEF settledBar, owedBar, Settled
<1>9. Channel!Settle(p, v)
  BY <1>6, <1>7, <1>8, Zenon DEF Channel!Settle, owedBar, settledBar
<1> QED
  BY <1>3, <1>9, Zenon DEF Channel!Next

\* The outbox with its workers implements a channel that owes each peer the newest
\* snapshot of a key and settles snapshots in increasing order, each at most once.
THEOREM OutboxImplementsChannel == Spec => ImplementsChannel
<1>1. Init => Channel!Init
  BY Zenon DEF Init, Channel!Init, Larger
<1>2. IndInv /\ VersionBounded /\ [Next]_vars => [Channel!Next]_(Channel!vars)
  <2> SUFFICES ASSUME IndInv, VersionBounded, [Next]_vars
               PROVE  Channel!Next \/ UNCHANGED Channel!vars
    OBVIOUS
  <2>1. ASSUME NEW w \in Writers, NEW k \in Keys, NEW R \in SUBSET Peers, Reserve(w, k, R)
        PROVE  UNCHANGED Channel!vars
    BY <2>1, StutterStep, Zenon DEF Reserve, Fits, history
  <2>2. ASSUME NEW w \in Writers, Publish(w)
        PROVE  Channel!Next
    BY <2>2, PublishOffers, Zenon
  <2>3. ASSUME NEW w \in Writers, Cancel(w)
        PROVE  UNCHANGED Channel!vars
    BY <2>3, StutterStep, Zenon DEF Cancel, history
  <2>4. ASSUME NEW x \in Workers, NextReady(x)
        PROVE  UNCHANGED Channel!vars
    <3>1. Head(ready) \in queued
      BY <2>4, TailLists, Zenon DEF NextReady, MarkedInFlight, IndInv, QueueExact, TypeOK
    <3>2. UNCHANGED <<state, delivered, abandoned>>
          /\ queued' \cup inFlight' = queued \cup inFlight
      BY <2>4, <3>1, Zenon DEF NextReady, MarkedInFlight, history
    <3> QED
      BY <3>2, StutterStep, Zenon
  <2>5. ASSUME NEW x \in Workers, RetrySend(x)
        PROVE  UNCHANGED Channel!vars
    BY <2>5, StutterStep, Zenon DEF RetrySend, slotVars, history
  <2>6. ASSUME NEW x \in Workers, SendAcknowledged(x) \/ SendAbandoned(x)
        PROVE  Channel!Next
    BY <2>6, SettleSettles, Zenon DEF SendAcknowledged, SendAbandoned
  <2>7. CASE Stop
    BY <2>7, StutterStep, Zenon DEF Stop, slotVars, history
  <2>8. ASSUME NEW x \in Workers, WorkerCancelled(x)
        PROVE  Channel!Next \/ UNCHANGED Channel!vars
    <3>1. CASE item[x] = NoItem
      BY <2>8, <3>1, StutterStep, Zenon DEF WorkerCancelled, slotVars
    <3>2. CASE item[x] # NoItem
      BY <2>8, <3>2, SettleSettles, Zenon DEF WorkerCancelled
    <3> QED
      BY <3>1, <3>2, Zenon
  <2>9. ASSUME NEW x \in Workers, SendRaises(x)
        PROVE  UNCHANGED Channel!vars
    BY <2>9, StutterStep, Zenon DEF SendRaises, slotVars, history
  <2>10. CASE UNCHANGED vars
    BY <2>10, StutterStep, Zenon DEF vars
  <2> QED
    BY <2>1, <2>2, <2>3, <2>4, <2>5, <2>6, <2>7, <2>8, <2>9, <2>10, OutboxAssumption,
       Zenon DEF Next, HandlerStep, WorkerStep
<1> QED
  BY <1>1, <1>2, Invariance, VersionsAreBounded, PTL DEF Spec, ImplementsChannel, Channel!Spec
=============================================================================
