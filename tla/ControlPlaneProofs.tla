------------------------- MODULE ControlPlaneProofs -------------------------
(***************************************************************************)
(* The safety properties of Membership, for any nodes, seeds, faults and   *)
(* numbers of helpers; then those of NodeLifecycle, with                   *)
(* CoordinationLease, for any number of connections, restarts, crashes and *)
(* failed requests to etcd.  The two parts share no state: one is what     *)
(* nodes believe of each other, the other the life of a single node.       *)
(***************************************************************************)
EXTENDS Membership, NodeLifecycle, TLAPS

\* T gives every node a table with the node itself, ALIVE, and no table holds a
\* newer incarnation than the node in question has of itself.
TablesOK(T) ==
  /\ T \in [Nodes -> Table]
  /\ \A n \in Nodes : T[n][n] # Absent /\ T[n][n].status = ALIVE
  /\ \A n, k \in Nodes : T[n][k] # Absent => T[n][k].incarnation <= T[k][k].incarnation

\* What node n holds or sends after it merged, when the tables were T and become
\* U: itself is ALIVE, not older than in T, and nobody else is newer than in U.
OwnTable(n, t, T, U) ==
  /\ t \in Table /\ t[n] # Absent /\ t[n].status = ALIVE
  /\ t[n].incarnation >= T[n][n].incarnation
  /\ \A k \in Nodes \ {n} : t[k] # Absent => t[k].incarnation <= U[k][k].incarnation

\* No record of t is newer than the node in question is in T.
Reached(t, T) == \A k \in Nodes : t[k] # Absent => t[k].incarnation <= T[k][k].incarnation

\* The iteration of a failure detector concerns another node, and its helpers are
\* third nodes.
ProbeShape ==
  \A n \in Nodes : probe[n] # NoProbe =>
    /\ probe[n].target # n
    /\ n \notin probe[n].helpers /\ probe[n].target \notin probe[n].helpers

\* What a failure detector has sent and heard is reached.
ProbeReached(q, T) ==
  q # NoProbe => /\ Reached(q.snapshot, T)
                 /\ q.answer # NoAck => Reached(q.answer.gossip, T)

\* A node does not try itself, and what it joins with is not newer than itself.
StartShape ==
  \A n \in Nodes : n \notin untried[n] /\ born[n] <= table[n][n].incarnation

\* What RecordsAdvance says of one record, one table and of all tables.
RecordAdvances(n, k, old, new) ==
  (old # Absent /\ new # Absent /\ new # old)
    => Supersedes(new, old) \/ (old.status = DEAD /\ Idle(n))
Advances == \A n, k \in Nodes : RecordAdvances(n, k, table[n][k], table'[n][k])

\* What a running node makes of its table: a record is kept, superseded, or was a
\* tombstone that an iteration of the failure detector may have purged.
Follows(n, t) ==
  \A k \in Nodes : table[n][k] # Absent =>
    \/ t[k] = table[n][k]
    \/ t[k] # Absent /\ Supersedes(t[k], table[n][k])
    \/ table[n][k].status = DEAD /\ Idle(n)

\* Every node stays where it was or reaches a newer incarnation.
Grows == \A k \in Nodes : table[k][k].incarnation <= table'[k][k].incarnation

\* The inductive invariant.
IndInv ==
  /\ TypeOK /\ TablesOK(table) /\ StartShape /\ ProbeShape
  /\ \A n \in Nodes : ProbeReached(probe[n], table)
-----------------------------------------------------------------------------
(* Records and tables *)

\* _merge_one_locked() keeps the current record or replaces it by one that
\* supersedes it; a node's own record is never taken from outside.
LEMMA MergeOneResult ==
  ASSUME NEW n \in Nodes, NEW k \in Nodes,
         NEW current \in Record \cup {Absent}, NEW incoming \in Record \cup {Absent},
         k = n => current # Absent /\ current.status = ALIVE
  PROVE  /\ MergeOne(n, k, current, incoming) \in Record \cup {Absent}
         /\ k = n => /\ MergeOne(n, k, current, incoming) # Absent
                     /\ MergeOne(n, k, current, incoming).status = ALIVE
                     /\ MergeOne(n, k, current, incoming).incarnation >= current.incarnation
         /\ k # n => MergeOne(n, k, current, incoming) \in {current, incoming}
         /\ current # Absent =>
              /\ MergeOne(n, k, current, incoming) # Absent
              /\ \/ MergeOne(n, k, current, incoming) = current
                 \/ Supersedes(MergeOne(n, k, current, incoming), current)
<1>1. CASE incoming = Absent
  BY <1>1, NullAssumption DEF MergeOne, Record, ALIVE, SUSPECT, DEAD
<1>2. CASE incoming # Absent /\ k = n
  <2>1. MergeOne(n, k, current, incoming) = Refuted(current, incoming)
    BY <1>2, Zenon DEF MergeOne
  <2>2. CASE incoming.status # ALIVE /\ incoming.incarnation >= current.incarnation
    <3>1. MergeOne(n, k, current, incoming) = [status |-> ALIVE, incarnation |-> incoming.incarnation + 1]
      BY <2>1, <2>2, Zenon DEF Refuted, Alive
    <3>2. current \in Record /\ incoming \in Record
      BY <1>2, Zenon
    <3>3. incoming.incarnation \in Nat /\ current.incarnation \in Nat
      BY <3>2, Zenon DEF Record
    <3>4. /\ MergeOne(n, k, current, incoming) \in Record
          /\ MergeOne(n, k, current, incoming).status = ALIVE
          /\ MergeOne(n, k, current, incoming).incarnation > current.incarnation
      BY <2>2, <3>1, <3>3 DEF Record, ALIVE, SUSPECT, DEAD
    <3> QED BY <1>2, <3>3, <3>4, NullAssumption DEF Supersedes, Record
  <2>3. CASE ~(incoming.status # ALIVE /\ incoming.incarnation >= current.incarnation)
    <3>1. MergeOne(n, k, current, incoming) = current
      BY <2>1, <2>3, Zenon DEF Refuted
    <3> QED BY <1>2, <3>1 DEF Record
  <2> QED BY <2>2, <2>3, Zenon
<1>3. CASE incoming # Absent /\ k # n /\ current = Absent
  BY <1>3, Zenon DEF MergeOne
<1>4. CASE incoming # Absent /\ k # n /\ current # Absent
  <2>1. MergeOne(n, k, current, incoming) =
          IF Supersedes(incoming, current) THEN incoming ELSE current
    BY <1>4, Zenon DEF MergeOne
  <2> QED BY <1>4, <2>1, Zenon
<1> QED BY <1>1, <1>2, <1>3, <1>4, Zenon

\* The same for a whole table.
LEMMA MergeResult ==
  ASSUME NEW n \in Nodes, NEW t \in Table, NEW r \in Table,
         t[n] # Absent, t[n].status = ALIVE
  PROVE  /\ Merge(n, t, r) \in Table
         /\ Merge(n, t, r)[n] # Absent /\ Merge(n, t, r)[n].status = ALIVE
         /\ Merge(n, t, r)[n].incarnation >= t[n].incarnation
         /\ \A k \in Nodes \ {n} : Merge(n, t, r)[k] \in {t[k], r[k]}
         /\ \A k \in Nodes : t[k] # Absent =>
              /\ Merge(n, t, r)[k] # Absent
              /\ Merge(n, t, r)[k] = t[k] \/ Supersedes(Merge(n, t, r)[k], t[k])
<1>1. \A k \in Nodes : Merge(n, t, r)[k] = MergeOne(n, k, t[k], r[k])
  BY Zenon DEF Merge
<1>2. \A k \in Nodes : t[k] \in Record \cup {Absent} /\ r[k] \in Record \cup {Absent}
  BY Zenon DEF Table
<1>3. ASSUME NEW k \in Nodes
      PROVE  MergeOne(n, k, t[k], r[k]) \in Record \cup {Absent}
  BY <1>2, MergeOneResult, Zenon
<1>4. Merge(n, t, r) \in Table
  BY <1>3, Zenon DEF Merge, Table
<1>5. /\ Merge(n, t, r)[n] # Absent /\ Merge(n, t, r)[n].status = ALIVE
      /\ Merge(n, t, r)[n].incarnation >= t[n].incarnation
  BY <1>1, <1>2, MergeOneResult
<1>6. \A k \in Nodes \ {n} : Merge(n, t, r)[k] \in {t[k], r[k]}
  BY <1>1, <1>2, MergeOneResult
<1>7. ASSUME NEW k \in Nodes, t[k] # Absent
      PROVE  /\ Merge(n, t, r)[k] # Absent
             /\ Merge(n, t, r)[k] = t[k] \/ Supersedes(Merge(n, t, r)[k], t[k])
  BY <1>1, <1>2, <1>7, MergeOneResult
<1> QED BY <1>4, <1>5, <1>6, <1>7, Zenon

\* A node that merges what is reached gets a table of its own.
LEMMA MergeIsOwn ==
  ASSUME NEW T \in [Nodes -> Table], NEW U, NEW n \in Nodes, NEW t, NEW r \in Table,
         T[n][n] # Absent, OwnTable(n, t, T, U),
         \A k \in Nodes \ {n} : r[k] # Absent => r[k].incarnation <= U[k][k].incarnation
  PROVE  OwnTable(n, Merge(n, t, r), T, U)
<1>1. t \in Table /\ t[n] # Absent /\ t[n].status = ALIVE
  BY Zenon DEF OwnTable
<1>2. /\ Merge(n, t, r) \in Table
      /\ Merge(n, t, r)[n] # Absent /\ Merge(n, t, r)[n].status = ALIVE
      /\ Merge(n, t, r)[n].incarnation >= t[n].incarnation
      /\ \A k \in Nodes \ {n} : Merge(n, t, r)[k] \in {t[k], r[k]}
  BY <1>1, MergeResult, Zenon
<1>3. T[n][n] \in Record /\ t[n] \in Record /\ Merge(n, t, r)[n] \in Record
  BY <1>1, <1>2 DEF Table
<1>4. Merge(n, t, r)[n].incarnation >= T[n][n].incarnation
  BY <1>2, <1>3 DEF OwnTable, Record
<1>5. \A k \in Nodes \ {n} :
        Merge(n, t, r)[k] # Absent => Merge(n, t, r)[k].incarnation <= U[k][k].incarnation
  BY <1>2, Zenon DEF OwnTable
<1> QED BY <1>2, <1>4, <1>5, Zenon DEF OwnTable

\* The table of a node is a table of its own.
LEMMA TableIsOwn ==
  ASSUME NEW T, TablesOK(T), NEW n \in Nodes
  PROVE  OwnTable(n, T[n], T, T)
<1>1. T[n] \in Table /\ T[n][n] \in Record
  BY Zenon DEF TablesOK, Table
<1> QED BY <1>1, Zenon DEF TablesOK, OwnTable, Record

\* One node changes its table.
LEMMA PutOne ==
  ASSUME NEW T, TablesOK(T), NEW n \in Nodes, NEW t, OwnTable(n, t, T, T)
  PROVE  /\ TablesOK([T EXCEPT ![n] = t])
         /\ \A k \in Nodes : T[k][k].incarnation <= [T EXCEPT ![n] = t][k][k].incarnation
<1> DEFINE U == [T EXCEPT ![n] = t]
<1>1. U \in [Nodes -> Table] /\ \A k \in Nodes : U[k] = IF k = n THEN t ELSE T[k]
  BY Zenon DEF TablesOK, OwnTable
<1>2. \A k \in Nodes : U[k][k] # Absent /\ U[k][k].status = ALIVE
  BY <1>1, Zenon DEF TablesOK, OwnTable
<1>3. \A k \in Nodes : T[k][k].incarnation \in Nat /\ U[k][k].incarnation \in Nat
  BY <1>1, <1>2 DEF TablesOK, Table, Record
<1>4. \A k \in Nodes : T[k][k].incarnation <= U[k][k].incarnation
  BY <1>1, <1>3 DEF OwnTable
<1>5. ASSUME NEW m \in Nodes, NEW k \in Nodes, U[m][k] # Absent
      PROVE  U[m][k].incarnation <= U[k][k].incarnation
  <2>1. U[m][k].incarnation \in Nat
    BY <1>1, <1>5, Zenon DEF Table, Record
  <2>2. CASE m = k
    BY <2>1, <2>2
  <2>3. CASE m # k
    <3>1. U[m][k].incarnation <= T[k][k].incarnation
      BY <1>1, <1>5, <2>3, Zenon DEF TablesOK, OwnTable
    <3> QED BY <1>3, <1>4, <2>1, <3>1
  <2> QED BY <2>2, <2>3, Zenon
<1> HIDE DEF U
<1>6. TablesOK(U)
  BY <1>1, <1>2, <1>5, Zenon DEF TablesOK
<1> QED BY <1>4, <1>6, Zenon DEF U

LEMMA LeqTransitive == \A i, j, l \in Nat : i <= j /\ j <= l => i <= l
OBVIOUS

\* Two nodes change their tables in one exchange: what they say of each other may
\* be what they have just become.
LEMMA PutTwo ==
  ASSUME NEW T, TablesOK(T), NEW n \in Nodes, NEW p \in Nodes, n # p, NEW t, NEW u,
         NEW U, U = [T EXCEPT ![n] = t, ![p] = u],
         OwnTable(n, t, T, U), OwnTable(p, u, T, U)
  PROVE  TablesOK(U) /\ \A k \in Nodes : T[k][k].incarnation <= U[k][k].incarnation
<1>1. /\ U \in [Nodes -> Table] /\ U[n] = t /\ U[p] = u
      /\ \A k \in Nodes \ {n, p} : U[k] = T[k]
  BY Zenon DEF TablesOK, OwnTable
<1>2. \A k \in Nodes : U[k][k] # Absent /\ U[k][k].status = ALIVE
  BY <1>1, Zenon DEF TablesOK, OwnTable
<1>3. \A k \in Nodes : T[k][k].incarnation \in Nat /\ U[k][k].incarnation \in Nat
  BY <1>1, <1>2 DEF TablesOK, Table, Record
<1>4. \A k \in Nodes : T[k][k].incarnation <= U[k][k].incarnation
  BY <1>1, <1>3 DEF OwnTable
<1>5. ASSUME NEW m \in Nodes, NEW k \in Nodes, U[m][k] # Absent
      PROVE  U[m][k].incarnation <= U[k][k].incarnation
  <2>1. U[m][k].incarnation \in Nat
    BY <1>1, <1>5 DEF Table, Record
  <2>2. CASE m = k
    BY <2>1, <2>2
  <2>3. CASE m # k /\ (m = n \/ m = p)
    BY <1>1, <1>5, <2>3, Zenon DEF OwnTable
  <2>4. CASE m # k /\ m # n /\ m # p
    <3>1. U[m][k].incarnation <= T[k][k].incarnation
      BY <1>1, <1>5, <2>4, Zenon DEF TablesOK
    <3> QED BY <1>3, <1>4, <2>1, <3>1, LeqTransitive, Zenon
  <2> QED BY <2>2, <2>3, <2>4, Zenon
<1> QED BY <1>1, <1>2, <1>4, <1>5, Zenon DEF TablesOK

\* What was reached stays so when nodes only advance.
LEMMA ReachedGrows ==
  ASSUME NEW T, TablesOK(T), NEW U, TablesOK(U),
         \A k \in Nodes : T[k][k].incarnation <= U[k][k].incarnation,
         NEW t \in Table, Reached(t, T)
  PROVE  Reached(t, U)
<1>1. ASSUME NEW k \in Nodes, t[k] # Absent
      PROVE  t[k].incarnation <= U[k][k].incarnation
  <2>1. t[k].incarnation \in Nat
    BY <1>1, Zenon DEF Table, Record
  <2>2. T[k][k].incarnation \in Nat /\ U[k][k].incarnation \in Nat
    BY DEF TablesOK, Table, Record
  <2> QED BY <1>1, <2>1, <2>2 DEF Reached
<1> QED BY <1>1, Zenon DEF Reached

LEMMA ProbeGrows ==
  ASSUME NEW T, TablesOK(T), NEW U, TablesOK(U),
         \A k \in Nodes : T[k][k].incarnation <= U[k][k].incarnation,
         NEW q \in Iteration \cup {NoProbe}, ProbeReached(q, T)
  PROVE  ProbeReached(q, U)
<1> SUFFICES ASSUME q # NoProbe
             PROVE  /\ Reached(q.snapshot, U)
                    /\ q.answer # NoAck => Reached(q.answer.gossip, U)
  BY Zenon DEF ProbeReached
<1>1. q.snapshot \in Table /\ (q.answer # NoAck => q.answer.gossip \in Table)
  BY Zenon DEF Iteration, AckMessage
<1> QED BY <1>1, ReachedGrows, Zenon DEF ProbeReached

\* What is within the tables of a state is reached.
LEMMA OwnIsReached ==
  ASSUME NEW T, TablesOK(T), NEW n \in Nodes
  PROVE  T[n] \in Table /\ Reached(T[n], T)
BY Zenon DEF TablesOK, Reached

\* The timers change no incarnation and leave the node itself alone; a record they
\* remove was a tombstone.
LEMMA TimersResult ==
  ASSUME IndInv, NEW n \in Nodes, Idle(n), NEW t \in AfterTimers(n)
  PROVE  OwnTable(n, t, table, table) /\ Reached(t, table) /\ Follows(n, t)
<1>1. PICK expired \in SUBSET Known(table[n], {SUSPECT}),
           purged \in SUBSET Known(table[n], {DEAD}) :
             t = AdvanceTimeoutsAndPurge(table[n], expired, purged)
  BY DEF AfterTimers
<1>2. TablesOK(table) /\ table[n] \in Table
  BY Zenon DEF IndInv, TablesOK
<1>3. \A k \in expired : table[n][k] # Absent /\ table[n][k] \in Record /\ table[n][k].status = SUSPECT
  BY <1>2, Zenon DEF Known, Table
<1>4. \A k \in purged : table[n][k] # Absent /\ table[n][k].status = DEAD
  BY <1>2, Zenon DEF Known, Table
<1>5. \A k \in Nodes : t[k] = CASE k \in expired -> [table[n][k] EXCEPT !.status = DEAD]
                               [] k \in purged  -> Absent
                               [] OTHER         -> table[n][k]
  BY <1>1, Zenon DEF AdvanceTimeoutsAndPurge
<1>6. expired \cap purged = {}
  BY <1>3, <1>4 DEF SUSPECT, DEAD
<1>7. ASSUME NEW k \in expired
      PROVE  /\ t[k] \in Record /\ t[k].status = DEAD
             /\ t[k].incarnation = table[n][k].incarnation
  <2>1. k \in Nodes
    BY Zenon DEF Known
  <2>2. t[k] = [table[n][k] EXCEPT !.status = DEAD]
    BY <1>5, <1>6, <2>1, Zenon
  <2>3. table[n][k] \in Record
    BY <1>3, Zenon
  <2> QED BY <2>2, <2>3, Zenon DEF Record
<1>8. \A k \in purged : t[k] = Absent
  BY <1>4, <1>5, <1>6, Zenon DEF Known
<1>9. \A k \in Nodes \ (expired \cup purged) : t[k] = table[n][k]
  BY <1>5, Zenon
<1>10. t \in Table
  <2>1. \A k \in Nodes : t[k] \in Record \cup {Absent}
    BY <1>2, <1>7, <1>8, <1>9, Zenon DEF Table
  <2> QED BY <1>1, <2>1, Zenon DEF AdvanceTimeoutsAndPurge, Table
<1>11. t[n] = table[n][n]
  <2>1. table[n][n].status = ALIVE
    BY <1>2, Zenon DEF TablesOK
  <2> QED BY <1>3, <1>4, <1>9, <2>1 DEF ALIVE, SUSPECT, DEAD
<1>12. Reached(t, table)
  BY <1>2, <1>3, <1>7, <1>8, <1>9, Zenon DEF Reached, TablesOK, Known
<1>13. OwnTable(n, t, table, table)
  <2>1. table[n][n] \in Record
    BY <1>2, Zenon DEF TablesOK, Table
  <2> QED BY <1>2, <1>10, <1>11, <1>12, <2>1, Zenon DEF OwnTable, Reached, TablesOK, Record
<1>14. ASSUME NEW k \in Nodes, table[n][k] # Absent
       PROVE  \/ t[k] = table[n][k]
              \/ t[k] # Absent /\ Supersedes(t[k], table[n][k])
              \/ table[n][k].status = DEAD /\ Idle(n)
  <2>1. CASE k \in expired
    <3>1. t[k] # Absent
      BY <1>7, <2>1, NullAssumption, Zenon
    <3> QED BY <1>3, <1>7, <2>1, <3>1 DEF Supersedes, SUSPECT, DEAD
  <2>2. CASE k \in purged
    BY <1>4, <2>2, Zenon
  <2> QED BY <1>9, <2>1, <2>2, Zenon
<1> QED BY <1>12, <1>13, <1>14, Zenon DEF Follows

LEMMA SupersedesTransitive ==
  ASSUME NEW x \in Record, NEW y \in Record, NEW z \in Record,
         Supersedes(x, y), Supersedes(y, z)
  PROVE  Supersedes(x, z)
BY DEF Supersedes, Record, ALIVE, SUSPECT, DEAD

\* A merge takes no record back.
LEMMA MergeFollows ==
  ASSUME IndInv, NEW n \in Nodes, NEW r \in Table, NEW t \in Table,
         t[n] # Absent, t[n].status = ALIVE, Follows(n, t)
  PROVE  Follows(n, Merge(n, t, r))
<1>1. table[n] \in Table /\ Merge(n, t, r) \in Table
  BY MergeResult, Zenon DEF IndInv, TablesOK
<1>2. ASSUME NEW k \in Nodes, table[n][k] # Absent
      PROVE  \/ Merge(n, t, r)[k] = table[n][k]
             \/ /\ Merge(n, t, r)[k] # Absent
                /\ Supersedes(Merge(n, t, r)[k], table[n][k])
             \/ table[n][k].status = DEAD /\ Idle(n)
  <2>1. CASE table[n][k].status = DEAD /\ Idle(n)
    BY <2>1, Zenon
  <2>2. CASE ~(table[n][k].status = DEAD /\ Idle(n))
    <3>1. t[k] # Absent /\ (t[k] = table[n][k] \/ Supersedes(t[k], table[n][k]))
      BY <1>2, <2>2, Zenon DEF Follows
    <3>2. /\ Merge(n, t, r)[k] # Absent
          /\ Merge(n, t, r)[k] = t[k] \/ Supersedes(Merge(n, t, r)[k], t[k])
      BY <3>1, MergeResult, Zenon
    <3>3. Merge(n, t, r)[k] \in Record /\ t[k] \in Record /\ table[n][k] \in Record
      BY <1>1, <1>2, <3>1, <3>2, Zenon DEF Table
    <3> QED BY <3>1, <3>2, <3>3, SupersedesTransitive, Zenon
  <2> QED BY <2>1, <2>2, Zenon
<1> QED BY <1>2, Zenon DEF Follows

LEMMA SameFollows ==
  ASSUME NEW n \in Nodes
  PROVE  Follows(n, table[n])
BY Zenon DEF Follows

LEMMA FollowingAdvances ==
  ASSUME \A n \in Nodes : Follows(n, table'[n])
  PROVE  Advances
BY Zenon DEF Follows, Advances, RecordAdvances

\* Install(): the table of one node changes.
LEMMA InstallStep ==
  ASSUME IndInv, NEW n \in Nodes, NEW t, OwnTable(n, t, table, table), Follows(n, t),
         Install(n, t)
  PROVE  TablesOK(table') /\ Grows /\ Advances
<1>1. TablesOK(table) /\ table \in [Nodes -> Table]
  BY Zenon DEF IndInv, TablesOK, TypeOK
<1>2. table' = [table EXCEPT ![n] = t]
  BY Zenon DEF Install
<1>3. TablesOK(table') /\ Grows
  BY <1>1, <1>2, PutOne, Zenon DEF Grows
<1>4. Advances
  <2>1. \A k \in Nodes : Follows(k, table'[k])
    BY <1>1, <1>2, SameFollows, Zenon
  <2> QED BY <2>1, FollowingAdvances, Zenon
<1> QED BY <1>3, <1>4, Zenon

\* InstallBoth(): the same for the two nodes of an exchange.
LEMMA InstallBothStep ==
  ASSUME IndInv, NEW n \in Nodes, NEW p \in Nodes, n # p,
         NEW t, Follows(n, t), NEW u, Follows(p, u),
         NEW U, U = [table EXCEPT ![n] = t, ![p] = u],
         OwnTable(n, t, table, U), OwnTable(p, u, table, U),
         InstallBoth(n, t, p, u)
  PROVE  TablesOK(table') /\ Grows /\ Advances
<1>1. TablesOK(table) /\ table \in [Nodes -> Table]
  BY Zenon DEF IndInv, TablesOK, TypeOK
<1>2. table' = [table EXCEPT ![n] = t, ![p] = u]
  BY Zenon DEF InstallBoth
<1>3. TablesOK(table') /\ Grows
  BY <1>1, <1>2, PutTwo, Zenon DEF Grows
<1>4. Advances
  <2>1. \A k \in Nodes : Follows(k, table'[k])
    BY <1>1, <1>2, SameFollows, Zenon
  <2> QED BY <2>1, FollowingAdvances, Zenon
<1> QED BY <1>3, <1>4, Zenon

\* What follows when nothing but tables changes and tasks end.
LEMMA Frame ==
  ASSUME IndInv, TablesOK(table'), Grows, loops' \in [Nodes -> SUBSET Loops],
         mode' \in [Nodes -> {"down", "joining", "up", "closing"}],
         UNCHANGED <<untried, born, probe, cut, faults>>
  PROVE  IndInv'
<1>1. TypeOK'
  BY Zenon DEF IndInv, TypeOK, TablesOK
<1>2. \A k \in Nodes : /\ born[k] \in Nat /\ table[k][k].incarnation \in Nat
                       /\ table'[k][k].incarnation \in Nat
  BY DEF IndInv, TypeOK, TablesOK, Table, Record
<1>3. StartShape'
  BY <1>2 DEF IndInv, StartShape, Grows
<1>4. ASSUME NEW k \in Nodes PROVE ProbeReached(probe'[k], table')
  <2>1. probe[k] \in Iteration \cup {NoProbe} /\ ProbeReached(probe[k], table) /\ TablesOK(table)
    BY Zenon DEF IndInv, TypeOK
  <2> QED BY <2>1, ProbeGrows, Zenon DEF Grows
<1> QED BY <1>1, <1>3, <1>4, Zenon DEF IndInv, ProbeShape
-----------------------------------------------------------------------------
(* Exchanges *)

\* A table of the node stays one when other nodes advance.
LEMMA OwnWeaken ==
  ASSUME NEW T, TablesOK(T), NEW U, NEW n \in Nodes, NEW t, OwnTable(n, t, T, T),
         \A k \in Nodes \ {n} : /\ U[k][k].incarnation \in Nat
                                /\ T[k][k].incarnation <= U[k][k].incarnation
  PROVE  OwnTable(n, t, T, U)
<1>1. ASSUME NEW k \in Nodes \ {n}, t[k] # Absent
      PROVE  t[k].incarnation <= U[k][k].incarnation
  <2>1. t[k].incarnation \in Nat /\ T[k][k].incarnation \in Nat
    BY <1>1 DEF OwnTable, TablesOK, Table, Record
  <2>2. t[k].incarnation <= T[k][k].incarnation
    BY <1>1, Zenon DEF OwnTable
  <2> QED BY <2>1, <2>2, LeqTransitive, Zenon
<1> QED BY <1>1, Zenon DEF OwnTable

\* Node p merges what it hears, g, and node n then has t, which is what it had or
\* what its timers left, or merges the answer of p into it.
LEMMA AnswerStep ==
  ASSUME IndInv, NEW n \in Nodes, NEW p \in Nodes, n # p,
         NEW t, t = table[n] \/ (Idle(n) /\ t \in AfterTimers(n)),
         NEW g \in Table, Reached(g, table),
         NEW u, u = Merge(p, table[p], g), NEW w, w \in {t, Merge(n, t, u)},
         InstallBoth(p, u, n, w)
  PROVE  TablesOK(table') /\ Grows /\ Advances
<1>1. TablesOK(table) /\ table \in [Nodes -> Table]
  BY Zenon DEF IndInv, TablesOK
<1>2. \A k \in Nodes : table[k][k] # Absent /\ table[k][k].incarnation \in Nat
  BY <1>1 DEF TablesOK, Table, Record
<1>3. OwnTable(p, u, table, table) /\ Follows(p, u)
  <2>1. OwnTable(p, table[p], table, table)
    BY <1>1, TableIsOwn, Zenon
  <2>2. OwnTable(p, u, table, table)
    BY <1>1, <1>2, <2>1, MergeIsOwn, Zenon DEF Reached
  <2>3. Follows(p, u)
    BY <2>1, MergeFollows, SameFollows, Zenon DEF OwnTable
  <2> QED BY <2>2, <2>3, Zenon
<1>4. OwnTable(n, t, table, table) /\ Follows(n, t)
  BY <1>1, TableIsOwn, SameFollows, TimersResult, Zenon
<1>5. u \in Table /\ t \in Table /\ w \in Table
  BY <1>3, <1>4, MergeResult DEF OwnTable
<1> DEFINE U == [table EXCEPT ![p] = u, ![n] = w]
<1>6. U[p] = u /\ U[n] = w /\ \A k \in Nodes \ {n, p} : U[k] = table[k]
  BY <1>1, Zenon
<1> HIDE DEF U
<1>7. u[p].incarnation \in Nat /\ u[p].incarnation >= table[p][p].incarnation
  BY <1>3, <1>5, Zenon DEF OwnTable, Table, Record
<1>8. \A k \in Nodes \ {n} : /\ U[k][k].incarnation \in Nat
                             /\ table[k][k].incarnation <= U[k][k].incarnation
  BY <1>2, <1>6, <1>7
<1>9. OwnTable(n, t, table, U)
  BY <1>1, <1>4, <1>8, OwnWeaken, Zenon
<1>10. \A k \in Nodes \ {n} : u[k] # Absent => u[k].incarnation <= U[k][k].incarnation
  BY <1>3, <1>6, <1>7 DEF OwnTable
<1>11. OwnTable(n, Merge(n, t, u), table, U) /\ Follows(n, Merge(n, t, u))
  <2>1. OwnTable(n, Merge(n, t, u), table, U)
    BY <1>1, <1>2, <1>5, <1>9, <1>10, MergeIsOwn, Zenon
  <2> QED BY <1>4, <1>5, <2>1, MergeFollows, Zenon DEF OwnTable
<1>12. OwnTable(n, w, table, U) /\ Follows(n, w)
  BY <1>4, <1>9, <1>11, Zenon
<1>13. w[n].incarnation \in Nat /\ w[n].incarnation >= table[n][n].incarnation
  BY <1>5, <1>12, Zenon DEF OwnTable, Table, Record
<1>14. \A k \in Nodes \ {p} : /\ U[k][k].incarnation \in Nat
                              /\ table[k][k].incarnation <= U[k][k].incarnation
  BY <1>2, <1>6, <1>8, <1>13, Zenon
<1>15. OwnTable(p, u, table, U)
  BY <1>1, <1>3, <1>14, OwnWeaken, Zenon
<1> QED BY <1>3, <1>12, <1>15, InstallBothStep, Zenon DEF U

\* A helper h asks the target x, and both merge what they hear.
LEMMA HelpStep ==
  ASSUME IndInv, NEW h \in Nodes, NEW x \in Nodes, h # x,
         NEW g \in Table, Reached(g, table),
         NEW heard, heard = Merge(h, table[h], g),
         NEW u, u = Merge(x, table[x], heard), NEW w, w = Merge(h, heard, u),
         InstallBoth(h, w, x, u)
  PROVE  TablesOK(table') /\ Grows /\ Advances /\ w \in Table /\ Reached(w, table')
<1>1. TablesOK(table) /\ table \in [Nodes -> Table]
  BY Zenon DEF IndInv, TablesOK
<1>2. \A k \in Nodes : table[k][k] # Absent /\ table[k][k].incarnation \in Nat
  BY <1>1 DEF TablesOK, Table, Record
<1>3. OwnTable(h, heard, table, table) /\ Follows(h, heard)
  <2>1. OwnTable(h, table[h], table, table)
    BY <1>1, TableIsOwn, Zenon
  <2>2. OwnTable(h, heard, table, table)
    BY <1>1, <1>2, <2>1, MergeIsOwn, Zenon DEF Reached
  <2> QED BY <2>1, <2>2, MergeFollows, SameFollows, Zenon DEF OwnTable
<1>4. OwnTable(x, table[x], table, table) /\ heard \in Table
  BY <1>1, <1>3, TableIsOwn, Zenon DEF OwnTable
<1>5. /\ u \in Table /\ u[x] # Absent /\ u[x].status = ALIVE
      /\ u[x].incarnation >= table[x][x].incarnation
      /\ \A k \in Nodes \ {x} : u[k] \in {table[x][k], heard[k]}
  BY <1>4, MergeResult DEF OwnTable
<1>6. /\ w \in Table /\ w[h] # Absent
      /\ w[h].incarnation >= heard[h].incarnation
  BY <1>3, <1>5, MergeResult DEF OwnTable
<1>7. /\ heard[h].incarnation \in Nat /\ w[h].incarnation \in Nat /\ u[x].incarnation \in Nat
      /\ heard[h].incarnation >= table[h][h].incarnation
  BY <1>3, <1>5, <1>6, Zenon DEF OwnTable, Table, Record
<1> DEFINE U == [table EXCEPT ![h] = w, ![x] = u]
<1>8. U[h] = w /\ U[x] = u /\ \A k \in Nodes \ {h, x} : U[k] = table[k]
  BY <1>1, Zenon
<1> HIDE DEF U
<1>9. \A k \in Nodes : /\ U[k][k].incarnation \in Nat
                       /\ table[k][k].incarnation <= U[k][k].incarnation
  BY <1>2, <1>5, <1>6, <1>7, <1>8
<1>10. OwnTable(h, heard, table, U) /\ OwnTable(x, table[x], table, U)
  BY <1>1, <1>3, <1>4, <1>9, OwnWeaken, Zenon
<1>11. \A k \in Nodes \ {x} : heard[k] # Absent => heard[k].incarnation <= U[k][k].incarnation
  BY <1>6, <1>8, <1>10, Zenon DEF OwnTable
<1>12. OwnTable(x, u, table, U)
  BY <1>1, <1>2, <1>4, <1>10, <1>11, MergeIsOwn, Zenon
<1>13. \A k \in Nodes \ {h} : u[k] # Absent => u[k].incarnation <= U[k][k].incarnation
  BY <1>7, <1>8, <1>12 DEF OwnTable
<1>14. OwnTable(h, w, table, U)
  BY <1>1, <1>2, <1>5, <1>10, <1>13, MergeIsOwn, Zenon
<1>15. Follows(x, u) /\ Follows(h, w)
  BY <1>3, <1>4, <1>5, MergeFollows, SameFollows, Zenon DEF OwnTable
<1>16. TablesOK(table') /\ Grows /\ Advances
  BY <1>12, <1>14, <1>15, InstallBothStep, Zenon DEF U
<1>17. w = table'[h]
  BY <1>1, Zenon DEF InstallBoth
<1> QED BY <1>6, <1>16, <1>17, OwnIsReached, Zenon
-----------------------------------------------------------------------------
(* Actions *)

\* The only record of a node that is alone is its own.
LEMMA AloneResult ==
  ASSUME NEW n \in Nodes, NEW i \in Nat
  PROVE  /\ Alone(n, i) \in Table /\ Alone(n, i)[n] = Alive(i)
         /\ Alive(i) \in Record /\ Alive(i) # Absent
         /\ \A k \in Nodes \ {n} : Alone(n, i)[k] = Absent
<1>1. Alive(i) \in Record
  BY Zenon DEF Alive, Record
<1> QED BY <1>1, NullAssumption, Zenon DEF Alone, Table

LEMMA InitIndInv == Init => IndInv
<1> SUFFICES ASSUME Init PROVE IndInv
  OBVIOUS
<1>1. \A n \in Nodes : table[n] = IF n \in Formed
                                  THEN [k \in Nodes |-> IF k \in Formed THEN Alive(1) ELSE Absent]
                                  ELSE Alone(n, 0)
  BY Zenon DEF Init
<1>2. Alive(1) \in Record /\ Alive(1) # Absent /\ Alive(1).status = ALIVE /\ Alive(1).incarnation = 1
  BY NullAssumption DEF Alive, Record
<1>3. Alive(0) \in Record /\ Alive(0) # Absent /\ Alive(0).status = ALIVE /\ Alive(0).incarnation = 0
  BY NullAssumption DEF Alive, Record
<1>4. \A n \in Nodes : table[n] \in Table
  <2>1. [k \in Nodes |-> IF k \in Formed THEN Alive(1) ELSE Absent] \in Table
    BY <1>2, Zenon DEF Table
  <2>2. \A n \in Nodes : Alone(n, 0) \in Table
    BY AloneResult, Zenon
  <2> QED BY <1>1, <2>1, <2>2, Zenon
<1>5. \A n \in Nodes : table[n][n] = IF n \in Formed THEN Alive(1) ELSE Alive(0)
  BY <1>1, AloneResult, Zenon
<1>6. ASSUME NEW n \in Nodes, NEW k \in Nodes, table[n][k] # Absent
      PROVE  table[n][k] = table[k][k]
  <2>1. CASE n \in Formed
    <3>1. table[n][k] = IF k \in Formed THEN Alive(1) ELSE Absent
      BY <1>1, <2>1, Zenon
    <3> QED BY <1>5, <1>6, <3>1, Zenon
  <2>2. CASE n \notin Formed
    <3>1. table[n][k] = Alone(n, 0)[k]
      BY <1>1, <2>2, Zenon
    <3> QED BY <1>6, <3>1, AloneResult
  <2> QED BY <2>1, <2>2, Zenon
<1>7. TablesOK(table)
  <2>1. table \in [Nodes -> Table]
    BY <1>4, Zenon DEF Init
  <2>2. \A n \in Nodes : table[n][n] # Absent /\ table[n][n].status = ALIVE
    BY <1>2, <1>3, <1>5, Zenon
  <2>3. \A n \in Nodes : table[n][n].incarnation \in Nat
    BY <1>2, <1>3, <1>5
  <2> QED BY <1>6, <2>1, <2>2, <2>3 DEF TablesOK
<1>8. TypeOK
  BY <1>7, MembershipAssumption DEF TypeOK, TablesOK, Init
<1>9. StartShape
  BY <1>2, <1>3, <1>5 DEF StartShape, Init
<1> QED BY <1>7, <1>8, <1>9, Zenon DEF IndInv, ProbeShape, ProbeReached, Init

LEMMA StartNodeStep ==
  ASSUME IndInv, NEW n \in Nodes, Start(n)
  PROVE  IndInv' /\ Advances
<1> DEFINE i == table[n][n].incarnation + 1
           t == Alone(n, i)
<1>1. TablesOK(table) /\ table \in [Nodes -> Table] /\ TypeOK
  BY Zenon DEF IndInv, TablesOK
<1>2. table[n][n] \in Record /\ table[n][n].incarnation \in Nat /\ i \in Nat
  BY <1>1 DEF TablesOK, Table, Record
<1>3. /\ t \in Table /\ t[n] = Alive(i) /\ Alive(i) # Absent
      /\ \A k \in Nodes \ {n} : t[k] = Absent
  BY <1>2, AloneResult, Zenon
<1>4. Alive(i).status = ALIVE /\ Alive(i).incarnation = i
  BY Zenon DEF Alive
<1>5. OwnTable(n, t, table, table)
  BY <1>2, <1>3, <1>4 DEF OwnTable
<1>6. table' = [table EXCEPT ![n] = t]
  BY Zenon DEF Start
<1>7. TablesOK(table') /\ Grows
  BY <1>1, <1>5, <1>6, PutOne, Zenon DEF Grows
<1>9. TypeOK'
  BY <1>1, <1>2, <1>7, MembershipAssumption, Zenon DEF TypeOK, TablesOK, Start
<1>10. StartShape'
  <2>1. \A k \in Nodes : k # n => table'[k][k] = table[k][k]
    BY <1>1, <1>6, Zenon
  <2>2. table'[n][n].incarnation = i
    BY <1>1, <1>3, <1>4, <1>6, Zenon
  <2> QED BY <1>1, <1>2, <2>1, <2>2 DEF IndInv, StartShape, TypeOK, Start
<1>11. ASSUME NEW k \in Nodes PROVE ProbeReached(probe'[k], table')
  BY <1>1, <1>7, ProbeGrows, Zenon DEF IndInv, TypeOK, Grows, Start
<1>12. ProbeShape'
  BY <1>1, Zenon DEF IndInv, ProbeShape, Start, TypeOK
<1>13. Advances
  <2> SUFFICES ASSUME NEW m \in Nodes, NEW k \in Nodes
               PROVE  RecordAdvances(m, k, table[m][k], table'[m][k])
    BY Zenon DEF Advances
  <2>1. CASE m # n
    BY <1>1, <1>6, <2>1, Zenon DEF RecordAdvances
  <2>2. CASE m = n /\ k # n
    BY <1>1, <1>3, <1>6, <2>2, Zenon DEF RecordAdvances
  <2>3. CASE m = n /\ k = n
    BY SMTT(30), <1>1, <1>2, <1>3, <1>4, <1>6, <2>3 DEF RecordAdvances, Supersedes
  <2> QED BY <2>1, <2>2, <2>3, Zenon
<1> QED BY <1>7, <1>9, <1>10, <1>11, <1>12, <1>13, Zenon DEF IndInv

\* What a joining node sends is reached.
LEMMA JoinMessage ==
  ASSUME IndInv, NEW n \in Nodes
  PROVE  Alone(n, born[n]) \in Table /\ Reached(Alone(n, born[n]), table)
<1>1. born[n] \in Nat /\ born[n] <= table[n][n].incarnation
  BY Zenon DEF IndInv, TypeOK, StartShape
<1>2. Alive(born[n]).incarnation = born[n]
  BY Zenon DEF Alive
<1> QED BY <1>1, <1>2, AloneResult, Zenon DEF Reached

LEMMA JoinStep ==
  ASSUME IndInv, NEW n \in Nodes, NEW p \in Nodes, Join(n, p)
  PROVE  IndInv' /\ Advances
<1>1. n # p /\ TypeOK
  BY Zenon DEF IndInv, StartShape, Join
<1> DEFINE u == Merge(p, table[p], Alone(n, born[n]))
<1>2. InstallBoth(p, u, n, Merge(n, table[n], u))
  BY Zenon DEF Join, HandleJoin
<1>3. mode' = [mode EXCEPT ![n] = "up"]
  BY Zenon DEF Join
<1> HIDE DEF u
<1>5. TablesOK(table') /\ Grows /\ Advances
  <2>1. u = Merge(p, table[p], Alone(n, born[n]))
    BY Zenon DEF u
  <2> QED BY <1>1, <1>2, <2>1, JoinMessage, AnswerStep, Zenon
<1>6. TypeOK'
  BY <1>1, <1>3, <1>5, Zenon DEF TypeOK, TablesOK, Join
<1>7. StartShape'
  <2>1. \A k \in Nodes : /\ born[k] \in Nat /\ table[k][k].incarnation \in Nat
                         /\ table'[k][k].incarnation \in Nat
    BY <1>5 DEF IndInv, TypeOK, TablesOK, Table, Record
  <2>2. \A k \in Nodes : born'[k] <= table'[k][k].incarnation
    BY <1>5, <2>1, LeqTransitive, Zenon DEF Grows, IndInv, StartShape, Join
  <2> QED BY <1>1, <2>2, Zenon DEF IndInv, StartShape, Join, TypeOK
<1>8. ASSUME NEW k \in Nodes PROVE ProbeReached(probe'[k], table')
  BY <1>1, <1>5, ProbeGrows, Zenon DEF IndInv, TypeOK, Grows, Join
<1>9. ProbeShape'
  BY <1>1, <1>3, Zenon DEF IndInv, ProbeShape, Join, TypeOK
<1> QED BY <1>5, <1>6, <1>7, <1>8, <1>9, Zenon DEF IndInv

LEMMA JoinFailsStep ==
  ASSUME IndInv, NEW n \in Nodes, NEW p \in Nodes, JoinFails(n, p)
  PROVE  IndInv' /\ Advances
<1>1. TypeOK /\ TablesOK(table) /\ UNCHANGED <<mode, loops, born, probe, cut, faults>>
  BY Zenon DEF IndInv, JoinFails
<1>2. TablesOK(table') /\ Grows /\ Advances
  <2>1. CASE Install(p, HandleJoin(p, Alone(n, born[n])))
    <3> DEFINE u == Merge(p, table[p], Alone(n, born[n]))
    <3>1. OwnTable(p, table[p], table, table)
      BY <1>1, TableIsOwn, Zenon
    <3>2. OwnTable(p, u, table, table)
      BY <1>1, <3>1, JoinMessage, MergeIsOwn, Zenon DEF Reached, TablesOK
    <3>3. Follows(p, u)
      BY <3>1, JoinMessage, MergeFollows, SameFollows, Zenon DEF OwnTable
    <3>4. Install(p, u)
      BY <2>1, Zenon DEF HandleJoin
    <3> HIDE DEF u
    <3> QED BY <1>1, <2>1, <3>2, <3>3, <3>4, InstallStep, Zenon
  <2>2. CASE UNCHANGED table
    <3>1. TablesOK(table')
      BY <1>1, <2>2, Zenon
    <3>2. Grows
      BY <1>1, <2>2, Zenon DEF Grows, TablesOK, Table, Record
    <3>3. Advances
      BY <2>2, Zenon DEF Advances, RecordAdvances
    <3> QED BY <3>1, <3>2, <3>3, Zenon
  <2> QED BY <2>1, <2>2, Zenon DEF JoinFails
<1>3. TypeOK'
  BY <1>1, <1>2, Zenon DEF TypeOK, TablesOK, JoinFails
<1>4. StartShape'
  <2>1. \A k \in Nodes : /\ born[k] \in Nat /\ table[k][k].incarnation \in Nat
                         /\ table'[k][k].incarnation \in Nat
    BY <1>1, <1>2 DEF TypeOK, TablesOK, Table, Record
  <2>2. \A k \in Nodes : born'[k] <= table'[k][k].incarnation
    BY <1>1, <1>2, <2>1, LeqTransitive, Zenon DEF Grows, IndInv, StartShape
  <2> QED BY <1>1, <2>2, Zenon DEF IndInv, StartShape, JoinFails, TypeOK
<1>5. ASSUME NEW k \in Nodes PROVE ProbeReached(probe'[k], table')
  BY <1>1, <1>2, ProbeGrows, Zenon DEF IndInv, TypeOK, Grows
<1> QED BY <1>1, <1>2, <1>3, <1>4, <1>5, Zenon DEF IndInv, ProbeShape

\* A node that ends keeps only the memory of its incarnation.
LEMMA ForgetStep ==
  ASSUME IndInv, NEW n \in Nodes, Forget(n), cut' \in {{}, Cuttable}, faults' \in 0..MaxFaults
  PROVE  IndInv' /\ Advances
<1> DEFINE i == table[n][n].incarnation
           t == Alone(n, i)
<1>1. TablesOK(table) /\ table \in [Nodes -> Table] /\ TypeOK
  BY Zenon DEF IndInv, TablesOK
<1>2. table[n][n] \in Record /\ i \in Nat
  BY <1>1, Zenon DEF TablesOK, Table, Record
<1>3. /\ t \in Table /\ t[n] = Alive(i) /\ Alive(i) # Absent
      /\ \A k \in Nodes \ {n} : t[k] = Absent
  BY <1>2, AloneResult, Zenon
<1>4. Alive(i).status = ALIVE /\ Alive(i).incarnation = i /\ Alive(i) = table[n][n]
  BY <1>1, <1>2, Zenon DEF Alive, Record, TablesOK
<1>5. OwnTable(n, t, table, table)
  BY <1>2, <1>3, <1>4 DEF OwnTable
<1>6. table' = [table EXCEPT ![n] = t]
  BY <1>1, Zenon DEF Forget
<1>7. TablesOK(table') /\ Grows
  BY <1>1, <1>5, <1>6, PutOne, Zenon DEF Grows
<1>9. TypeOK'
  BY <1>1, <1>7, Zenon DEF TypeOK, TablesOK, Forget
<1>10. StartShape'
  <2>1. \A k \in Nodes : table'[k][k] = table[k][k]
    BY <1>1, <1>3, <1>4, <1>6, Zenon
  <2> QED BY <1>1, <1>2, <2>1 DEF IndInv, StartShape, TypeOK, Forget
<1>11. ASSUME NEW k \in Nodes PROVE ProbeReached(probe'[k], table')
  <2>1. probe'[k] \in {probe[k], NoProbe} /\ probe[k] \in Iteration \cup {NoProbe}
    BY <1>1, Zenon DEF Forget, TypeOK
  <2>2. ProbeReached(probe[k], table')
    BY <1>1, <1>7, <2>1, ProbeGrows, Zenon DEF IndInv, Grows
  <2> QED BY <2>1, <2>2, Zenon DEF ProbeReached
<1>12. ProbeShape'
  BY <1>1, Zenon DEF IndInv, ProbeShape, Forget, TypeOK
<1>13. Advances
  <2>1. \A m, k \in Nodes : table'[m][k] \in {table[m][k], Absent}
    BY <1>1, <1>3, <1>4, <1>6, Zenon
  <2> QED BY <2>1, Zenon DEF Advances, RecordAdvances
<1> QED BY <1>7, <1>9, <1>10, <1>11, <1>12, <1>13, Zenon DEF IndInv

LEMMA ProbeStep ==
  ASSUME IndInv, NEW n \in Nodes, NEW x \in Nodes, Probe(n, x)
  PROVE  IndInv' /\ Advances
<1>1. PICK t \in AfterTimers(n) :
        /\ x # n /\ Confirms(Ping(n, x, t), x)
        /\ InstallBoth(x, Ping(n, x, t).gossip, n, Merge(n, t, Ping(n, x, t).gossip))
  BY Zenon DEF Probe
<1>2. Ping(n, x, t) = HandlePing(x, t)
  BY <1>1, Zenon DEF Confirms, Ping
<1>3. Ping(n, x, t).gossip = Merge(x, table[x], t)
  BY SMTT(30), <1>2 DEF HandlePing, Ack
<1>4. Idle(n) /\ UNCHANGED <<mode, loops, untried, born, probe, cut, faults>>
  BY Zenon DEF Probe
<1>5. t \in Table /\ Reached(t, table)
  BY <1>4, TimersResult, Zenon DEF OwnTable
<1>6. TablesOK(table') /\ Grows /\ Advances
  BY <1>1, <1>2, <1>3, <1>4, <1>5, AnswerStep, Zenon
<1> QED BY <1>4, <1>6, Frame, Zenon DEF IndInv, TypeOK

LEMMA GossipStep ==
  ASSUME IndInv, NEW n \in Nodes, NEW p \in Nodes, Gossip(n, p)
  PROVE  IndInv' /\ Advances
<1> DEFINE u == Merge(p, table[p], table[n])
<1>1. /\ p # n /\ UNCHANGED <<mode, loops, untried, born, probe, cut, faults>>
      /\ InstallBoth(p, u, n, Merge(n, table[n], u)) \/ Install(p, u)
  BY Zenon DEF Gossip, HandleGossip, Ack
<1>2. TablesOK(table) /\ table[n] \in Table /\ Reached(table[n], table)
  BY OwnIsReached, Zenon DEF IndInv
<1>3. TablesOK(table') /\ Grows /\ Advances
  <2>1. CASE InstallBoth(p, u, n, Merge(n, table[n], u))
    BY <1>1, <1>2, <2>1, AnswerStep, Zenon
  <2>2. CASE Install(p, u)
    <3>1. OwnTable(p, table[p], table, table)
      BY <1>2, TableIsOwn, Zenon
    <3>2. OwnTable(p, u, table, table)
      BY <1>2, <3>1, MergeIsOwn, Zenon DEF Reached, TablesOK
    <3>3. Follows(p, u)
      BY <1>2, <3>1, MergeFollows, SameFollows, Zenon DEF OwnTable
    <3> HIDE DEF u
    <3> QED BY <1>1, <2>2, <3>2, <3>3, InstallStep, Zenon
  <2> QED BY <1>1, <2>1, <2>2, Zenon
<1> QED BY <1>1, <1>3, Frame, Zenon DEF IndInv, TypeOK

LEMMA NothingToProbeStep ==
  ASSUME IndInv, NEW n \in Nodes, NothingToProbe(n)
  PROVE  IndInv' /\ Advances
<1>1. PICK t \in AfterTimers(n) : Install(n, t)
  BY Zenon DEF NothingToProbe
<1>2. Idle(n) /\ UNCHANGED <<mode, loops, untried, born, probe, cut, faults>>
  BY Zenon DEF NothingToProbe
<1>3. TablesOK(table') /\ Grows /\ Advances
  BY <1>1, <1>2, TimersResult, InstallStep, Zenon
<1> QED BY <1>2, <1>3, Frame, Zenon DEF IndInv, TypeOK

\* The invariant when tables, tasks and the iteration of one node change.
LEMMA ProbeFrame ==
  ASSUME IndInv, TablesOK(table'), Grows, NEW n \in Nodes,
         loops' \in [Nodes -> SUBSET Loops],
         NEW q \in Iteration \cup {NoProbe}, probe' = [probe EXCEPT ![n] = q],
         ProbeReached(q, table'),
         q # NoProbe => /\ q.target # n
                        /\ n \notin q.helpers /\ q.target \notin q.helpers,
         UNCHANGED <<mode, untried, born, cut, faults>>
  PROVE  IndInv'
<1>1. TypeOK'
  BY Zenon DEF IndInv, TypeOK, TablesOK
<1>2. \A k \in Nodes : /\ born[k] \in Nat /\ table[k][k].incarnation \in Nat
                       /\ table'[k][k].incarnation \in Nat
  BY DEF IndInv, TypeOK, TablesOK, Table, Record
<1>3. StartShape'
  BY <1>2, LeqTransitive, Zenon DEF IndInv, StartShape, Grows
<1>4. ASSUME NEW k \in Nodes PROVE ProbeReached(probe'[k], table')
  <2>1. probe[k] \in Iteration \cup {NoProbe} /\ ProbeReached(probe[k], table) /\ TablesOK(table)
    BY Zenon DEF IndInv, TypeOK
  <2>2. ProbeReached(probe[k], table')
    BY <2>1, ProbeGrows, Zenon DEF Grows
  <2> QED BY <2>2, Zenon DEF IndInv, TypeOK
<1>5. ProbeShape'
  BY Zenon DEF IndInv, ProbeShape, TypeOK
<1> QED BY <1>1, <1>3, <1>4, <1>5, Zenon DEF IndInv

LEMMA ProbeFailsStep ==
  ASSUME IndInv, NEW n \in Nodes, NEW x \in Nodes, ProbeFails(n, x)
  PROVE  IndInv' /\ Advances
<1>1. PICK t \in AfterTimers(n) :
        /\ x # n
        /\ \/ InstallBoth(x, HandlePing(x, t).gossip, n, t)
           \/ Install(n, t)
        /\ \E helpers \in SUBSET (Known(t, {ALIVE}) \ {n, x}) :
             probe' = [probe EXCEPT ![n] = [target |-> x, snapshot |-> t,
                                            helpers |-> helpers, answer |-> NoAck]]
  BY Zenon DEF ProbeFails
<1>2. PICK helpers \in SUBSET (Known(t, {ALIVE}) \ {n, x}) :
        probe' = [probe EXCEPT ![n] = [target |-> x, snapshot |-> t,
                                       helpers |-> helpers, answer |-> NoAck]]
  BY <1>1, Zenon
<1>3. Idle(n) /\ UNCHANGED <<mode, loops, untried, born, cut, faults>>
  BY Zenon DEF ProbeFails
<1>4. OwnTable(n, t, table, table) /\ Reached(t, table) /\ Follows(n, t) /\ t \in Table
  BY <1>3, TimersResult, Zenon DEF OwnTable
<1>5. HandlePing(x, t).gossip = Merge(x, table[x], t)
  BY Zenon DEF HandlePing, Ack
<1>6. TablesOK(table') /\ Grows /\ Advances
  <2>1. CASE InstallBoth(x, HandlePing(x, t).gossip, n, t)
    BY <1>1, <1>3, <1>4, <1>5, <2>1, AnswerStep, Zenon
  <2>2. CASE Install(n, t)
    BY <1>3, <1>4, <2>2, InstallStep, Zenon
  <2> QED BY <1>1, <2>1, <2>2, Zenon
<1> DEFINE q == [target |-> x, snapshot |-> t, helpers |-> helpers, answer |-> NoAck]
<1>7. q \in Iteration
  BY <1>4, Zenon DEF Iteration, Known
<1>8. ProbeReached(q, table')
  <2>1. Reached(t, table')
    BY <1>4, <1>6, ReachedGrows, Zenon DEF IndInv, Grows
  <2> QED BY <2>1, Zenon DEF ProbeReached
<1> QED BY <1>1, <1>2, <1>3, <1>6, <1>7, <1>8, ProbeFrame, Zenon DEF IndInv, TypeOK

\* Nothing is installed.
LEMMA SameStep ==
  ASSUME IndInv, UNCHANGED table
  PROVE  TablesOK(table') /\ Grows /\ Advances
<1>1. TablesOK(table')
  BY Zenon DEF IndInv
<1>2. \A k \in Nodes : table[k][k].incarnation \in Nat
  BY Zenon DEF IndInv, TablesOK, Table, Record
<1>3. Grows
  BY <1>2 DEF Grows
<1>4. Advances
  BY Zenon DEF Advances, RecordAdvances
<1> QED BY <1>1, <1>3, <1>4, Zenon

LEMMA IndirectProbeStep ==
  ASSUME IndInv, NEW n \in Nodes, NEW h \in Nodes, IndirectProbe(n, h)
  PROVE  IndInv' /\ Advances
<1> DEFINE g == probe[n].snapshot
           x == probe[n].target
           heard == Merge(h, table[h], g)
           u == Merge(x, table[x], heard)
           w == Merge(h, heard, u)
           ack == PingRequest(n, h, x, g)
<1>1. /\ probe[n] # NoProbe /\ h \in probe[n].helpers /\ Confirms(ack, x)
      /\ InstallBoth(h, ack.gossip, x, HandlePing(x, heard).gossip)
      /\ UNCHANGED <<mode, loops, untried, born, cut, faults>>
  BY Zenon DEF IndirectProbe
<1>0. PICK a \in {ack, probe[n].answer} \ {NoAck} :
        probe' = [probe EXCEPT ![n].helpers = @ \ {h}, ![n].answer = a]
  BY Zenon DEF IndirectProbe
<1> DEFINE q == [probe[n] EXCEPT !.helpers = @ \ {h}, !.answer = a]
<1>2. /\ probe[n] \in Iteration /\ x \in Nodes /\ g \in Table /\ Reached(g, table)
      /\ probe[n].answer \in AckMessage \cup {NoAck} /\ ProbeReached(probe[n], table)
      /\ x # n /\ h # x
      /\ n \notin probe[n].helpers /\ x \notin probe[n].helpers
  BY <1>1, Zenon DEF IndInv, TypeOK, Iteration, ProbeShape, ProbeReached
<1>3. Reachable(n, h) /\ ack = HandlePingReq(h, x, g)
  BY <1>1, Zenon DEF Confirms, PingRequest
<1>4. Confirms(Ping(h, x, heard), x) /\ ack = Ack(TRUE, x, Merge(h, heard, Ping(h, x, heard).gossip))
  <2> DEFINE b == Ping(h, x, heard)
             no == Ack(FALSE, x, heard)
             yes == Ack(TRUE, x, Merge(h, heard, b.gossip))
  <2>1. HandlePingReq(h, x, g) = IF Confirms(b, x) THEN yes ELSE no
    BY Zenon DEF HandlePingReq
  <2>2. ~ Confirms(no, x)
    <3> HIDE DEF x, heard
    <3> QED BY Zenon DEF Confirms, Ack
  <2>3. Confirms(ack, x) /\ ack = HandlePingReq(h, x, g)
    BY <1>1, <1>3, Zenon
  <2> HIDE DEF g, x, heard, ack, b, no, yes
  <2>4. Confirms(b, x) /\ ack = yes
    BY <2>1, <2>2, <2>3, Zenon
  <2> QED BY <2>4, Zenon DEF b, yes
<1>5. Reachable(h, x) /\ Ping(h, x, heard) = HandlePing(x, heard)
  BY <1>4, Zenon DEF Ping, Confirms
<1>6. HandlePing(x, heard).gossip = u /\ ack = Ack(TRUE, x, w) /\ ack.gossip = w
  <2> HIDE DEF g, x, heard, ack
  <2>1. HandlePing(x, heard).gossip = u
    BY Zenon DEF HandlePing, Ack
  <2>2. ack = Ack(TRUE, x, w)
    BY <1>4, <1>5, <2>1, Zenon
  <2> HIDE DEF w
  <2> QED BY <2>1, <2>2, Zenon DEF Ack
<1>8. TablesOK(table') /\ Grows /\ Advances /\ w \in Table /\ Reached(w, table')
  <2> HIDE DEF g, x, ack
  <2> QED BY <1>1, <1>2, <1>6, HelpStep, Zenon
<1>9. ack \in AckMessage
  <2> HIDE DEF g, x, ack, w
  <2> QED BY <1>2, <1>6, <1>8, Zenon DEF Ack, AckMessage
<1>10. q \in Iteration /\ q.target = x /\ q.snapshot = g /\ q.answer = a
       /\ q.helpers = probe[n].helpers \ {h}
  <2> HIDE DEF ack
  <2> QED BY <1>0, <1>2, <1>9, Zenon DEF Iteration
<1>11. ProbeReached(q, table')
  <2>1. ProbeReached(probe[n], table')
    BY <1>2, <1>8, ProbeGrows, Zenon DEF IndInv, Grows
  <2>2. Reached(ack.gossip, table')
    BY <1>6, <1>8, Zenon
  <2> HIDE DEF q, g, ack, w
  <2>3. Reached(a.gossip, table')
    BY <1>0, <1>1, <2>1, <2>2, Zenon DEF ProbeReached
  <2> QED BY <1>1, <2>1, <2>3, <1>10, Zenon DEF ProbeReached, g
<1>12. probe' = [probe EXCEPT ![n] = q]
  BY <1>0, <1>2, Zenon DEF IndInv, TypeOK, Iteration
<1> HIDE DEF q, g, x, ack
<1> QED BY <1>1, <1>2, <1>8, <1>10, <1>11, <1>12, ProbeFrame, Zenon DEF IndInv, TypeOK

LEMMA IndirectProbeFailsStep ==
  ASSUME IndInv, NEW n \in Nodes, NEW h \in Nodes, IndirectProbeFails(n, h)
  PROVE  IndInv' /\ Advances
<1> DEFINE g == probe[n].snapshot
           x == probe[n].target
           heard == Merge(h, table[h], g)
           q == [probe[n] EXCEPT !.helpers = @ \ {h}]
<1>1. /\ probe[n] # NoProbe /\ h \in probe[n].helpers
      /\ probe' = [probe EXCEPT ![n].helpers = @ \ {h}]
      /\ UNCHANGED <<mode, loops, untried, born, cut, faults>>
  BY Zenon DEF IndirectProbeFails
<1>2. PICK arrived \in {{}, {h}, {h, x}} :
        InstallBoth(h, IF h \in arrived THEN heard ELSE table[h],
                    x, IF x \in arrived THEN HandlePing(x, heard).gossip ELSE table[x])
  BY Zenon DEF IndirectProbeFails
<1>3. /\ probe[n] \in Iteration /\ x \in Nodes /\ g \in Table /\ ProbeReached(probe[n], table)
      /\ Reached(g, table) /\ x # n /\ h # x
      /\ n \notin probe[n].helpers /\ x \notin probe[n].helpers
  BY <1>1, Zenon DEF IndInv, TypeOK, Iteration, ProbeShape, ProbeReached
<1>4. HandlePing(x, heard).gossip = Merge(x, table[x], heard)
  BY Zenon DEF HandlePing, Ack
<1>5. TablesOK(table') /\ Grows /\ Advances
  <2> HIDE DEF x, g
  <2>1. CASE arrived = {}
    <3>1. InstallBoth(h, table[h], x, table[x])
      BY <1>2, <2>1, Zenon
    <3>2. UNCHANGED table
      BY <1>3, <3>1, Zenon DEF InstallBoth, IndInv, TypeOK
    <3> QED BY <3>2, SameStep, Zenon
  <2>2. CASE arrived = {h}
    <3>1. InstallBoth(h, heard, x, table[x])
      BY <1>2, <1>3, <2>2, Zenon
    <3> QED BY <1>1, <1>3, <3>1, AnswerStep, Zenon
  <2>3. CASE arrived = {h, x}
    <3>1. InstallBoth(h, heard, x, Merge(x, table[x], heard))
      BY <1>2, <1>3, <1>4, <2>3, Zenon
    <3> QED BY <1>1, <1>3, <3>1, AnswerStep, Zenon
  <2> QED BY <1>2, <2>1, <2>2, <2>3, Zenon
<1>6. q \in Iteration /\ q.target = x /\ q.snapshot = g /\ q.answer = probe[n].answer
      /\ q.helpers = probe[n].helpers \ {h}
  BY <1>3, Zenon DEF Iteration
<1>7. ProbeReached(q, table')
  <2>1. ProbeReached(probe[n], table')
    BY <1>3, <1>5, ProbeGrows, Zenon DEF IndInv, Grows
  <2> HIDE DEF q
  <2> QED BY <1>1, <2>1, <1>6, Zenon DEF ProbeReached
<1>8. probe' = [probe EXCEPT ![n] = q]
  BY <1>1, <1>3, Zenon DEF IndInv, TypeOK, Iteration
<1> HIDE DEF q, g, x
<1> QED BY <1>1, <1>3, <1>5, <1>6, <1>7, <1>8, ProbeFrame, Zenon DEF IndInv, TypeOK

\* mark_suspect() keeps the incarnation, and leaves the node itself alone.
LEMMA SuspectResult ==
  ASSUME IndInv, NEW n \in Nodes, NEW x \in Nodes, x # n
  PROVE  /\ OwnTable(n, MarkSuspect(table[n], x), table, table)
         /\ Follows(n, MarkSuspect(table[n], x))
<1> DEFINE t == table[n]
           s == MarkSuspect(t, x)
<1>1. OwnTable(n, t, table, table) /\ t \in Table
  BY TableIsOwn, Zenon DEF IndInv, TablesOK
<1>2. CASE t[x] # Absent /\ t[x].status = ALIVE
  <2>1. t[x] \in Record
    BY <1>1, <1>2, Zenon DEF Table
  <2> DEFINE r == [t[x] EXCEPT !.status = SUSPECT]
  <2>2. r \in Record /\ r.incarnation = t[x].incarnation /\ r.status = SUSPECT
    BY <2>1, Zenon DEF Record, SUSPECT, ALIVE, DEAD
  <2>3. r # Absent
    BY <2>2, NullAssumption, Zenon
  <2>4. s = [t EXCEPT ![x] = r]
    BY <1>2, Zenon DEF MarkSuspect
  <2> HIDE DEF r
  <2>5. s \in Table /\ s[x] = r /\ \A k \in Nodes \ {x} : s[k] = t[k]
    BY <1>1, <2>2, <2>4, Zenon DEF Table
  <2> HIDE DEF s
  <2>6. OwnTable(n, s, table, table)
    BY <1>1, <1>2, <2>2, <2>5, Zenon DEF OwnTable
  <2>7. Supersedes(r, t[x])
    BY <1>2, <2>1, <2>2 DEF Supersedes, ALIVE, SUSPECT, Record
  <2>8. Follows(n, s)
    BY <2>3, <2>5, <2>7, Zenon DEF Follows
  <2> QED BY <2>6, <2>8, Zenon DEF s
<1>3. CASE ~(t[x] # Absent /\ t[x].status = ALIVE)
  BY <1>1, <1>3, SameFollows, Zenon DEF MarkSuspect
<1> QED BY <1>2, <1>3, Zenon

LEMMA ProbeEndsStep ==
  ASSUME IndInv, NEW n \in Nodes, ProbeEnds(n)
  PROVE  IndInv' /\ Advances
<1> DEFINE p == probe[n]
           t == CASE "detector" \notin loops[n] -> table[n]
                  [] "detector" \in loops[n] /\ Confirms(p.answer, p.target) ->
                       Merge(n, table[n], p.answer.gossip)
                  [] OTHER -> MarkSuspect(table[n], p.target)
<1>1. /\ p # NoProbe /\ Install(n, t) /\ probe' = [probe EXCEPT ![n] = NoProbe]
      /\ UNCHANGED <<mode, loops, untried, born, cut, faults>>
  BY Zenon DEF ProbeEnds
<1>2. /\ p \in Iteration /\ p.target \in Nodes /\ p.answer \in AckMessage \cup {NoAck}
      /\ ProbeReached(p, table) /\ p.target # n
  BY <1>1, Zenon DEF IndInv, TypeOK, Iteration, ProbeShape
<1>3. OwnTable(n, t, table, table) /\ Follows(n, t)
  <2>1. CASE "detector" \in loops[n] /\ Confirms(p.answer, p.target)
    <3>1. p.answer.gossip \in Table /\ Reached(p.answer.gossip, table)
      BY <1>1, <1>2, <2>1, Zenon DEF Confirms, AckMessage, ProbeReached
    <3>2. OwnTable(n, table[n], table, table) /\ TablesOK(table)
      BY TableIsOwn, Zenon DEF IndInv
    <3>3. OwnTable(n, Merge(n, table[n], p.answer.gossip), table, table)
      BY <3>1, <3>2, MergeIsOwn, Zenon DEF Reached, TablesOK
    <3>4. Follows(n, Merge(n, table[n], p.answer.gossip))
      BY <3>1, <3>2, MergeFollows, SameFollows, Zenon DEF OwnTable
    <3> QED BY <2>1, <3>3, <3>4, Zenon
  <2>2. CASE "detector" \in loops[n] /\ ~Confirms(p.answer, p.target)
    BY <1>2, <2>2, SuspectResult, Zenon
  <2>3. CASE "detector" \notin loops[n]
    BY <2>3, TableIsOwn, SameFollows, Zenon DEF IndInv
  <2> QED BY <2>1, <2>2, <2>3, Zenon
<1> HIDE DEF t
<1>4. TablesOK(table') /\ Grows /\ Advances
  BY <1>1, <1>2, <1>3, InstallStep, Zenon
<1>5. ProbeReached(NoProbe, table')
  BY Zenon DEF ProbeReached
<1> QED BY <1>1, <1>4, <1>5, ProbeFrame, Zenon DEF IndInv, TypeOK

LEMMA ProbeRaisesStep ==
  ASSUME IndInv, NEW n \in Nodes, NEW x \in Nodes, ProbeRaises(n, x)
  PROVE  IndInv' /\ Advances
<1>1. PICK t \in AfterTimers(n) : Install(n, t)
  BY Zenon DEF ProbeRaises
<1>2. /\ Idle(n) /\ loops' = [loops EXCEPT ![n] = @ \ {"detector"}]
      /\ UNCHANGED <<mode, untried, born, probe, cut, faults>>
  BY Zenon DEF ProbeRaises
<1>3. TablesOK(table') /\ Grows /\ Advances
  BY <1>1, <1>2, TimersResult, InstallStep, Zenon
<1>4. loops' \in [Nodes -> SUBSET Loops]
  BY <1>2, Zenon DEF IndInv, TypeOK
<1> QED BY <1>2, <1>3, <1>4, Frame, Zenon DEF IndInv, TypeOK

\* A helper that had been asked merges what it heard, or does not.
LEMMA IndirectProbeRaisesStep ==
  ASSUME IndInv, NEW n \in Nodes, NEW h \in Nodes, IndirectProbeRaises(n, h)
  PROVE  IndInv' /\ Advances
<1> DEFINE p == probe[n]
           u == Merge(h, table[h], p.snapshot)
           q == [p EXCEPT !.helpers = @ \ {h}]
<1>1. /\ p # NoProbe /\ (table' = table \/ Install(h, u))
      /\ loops' = [loops EXCEPT ![n] = @ \ {"detector"}]
      /\ probe' = [probe EXCEPT ![n].helpers = @ \ {h}]
      /\ UNCHANGED <<mode, untried, born, cut, faults>>
  BY Zenon DEF IndirectProbeRaises
<1>2. /\ p \in Iteration /\ p.snapshot \in Table /\ ProbeReached(p, table)
      /\ Reached(p.snapshot, table) /\ p.target # n
      /\ n \notin p.helpers /\ p.target \notin p.helpers
  BY <1>1, Zenon DEF IndInv, TypeOK, Iteration, ProbeShape, ProbeReached
<1>3. TablesOK(table') /\ Grows /\ Advances
  <2>1. CASE Install(h, u)
    <3>1. TablesOK(table) /\ OwnTable(h, table[h], table, table)
      BY TableIsOwn, Zenon DEF IndInv
    <3>2. OwnTable(h, u, table, table)
      BY <1>2, <3>1, MergeIsOwn, Zenon DEF Reached, TablesOK
    <3>3. Follows(h, u)
      BY <1>2, <3>1, MergeFollows, SameFollows, Zenon DEF OwnTable
    <3> HIDE DEF u
    <3> QED BY <2>1, <3>2, <3>3, InstallStep, Zenon
  <2> QED BY <1>1, <2>1, SameStep, Zenon
<1>4. q \in Iteration /\ q.target = p.target /\ q.snapshot = p.snapshot /\ q.answer = p.answer
      /\ q.helpers = p.helpers \ {h}
  BY <1>2, Zenon DEF Iteration
<1>5. ProbeReached(q, table')
  <2>1. ProbeReached(p, table')
    BY <1>2, <1>3, ProbeGrows, Zenon DEF IndInv, Grows
  <2> HIDE DEF q
  <2> QED BY <1>1, <1>4, <2>1, Zenon DEF ProbeReached
<1>6. probe' = [probe EXCEPT ![n] = q] /\ loops' \in [Nodes -> SUBSET Loops]
  BY <1>1, <1>2, Zenon DEF IndInv, TypeOK, Iteration
<1> HIDE DEF q, p
<1> QED BY <1>1, <1>2, <1>3, <1>4, <1>5, <1>6, ProbeFrame, Zenon

\* The gossip loop of a node ends, or a process that had closed its connections.
LEMMA EndStep ==
  ASSUME IndInv, NEW n \in Nodes, Closed(n) \/ \E p \in Nodes : GossipRaises(n, p)
  PROVE  IndInv' /\ Advances
<1>1. /\ UNCHANGED <<table, untried, born, probe, cut, faults>>
      /\ loops' \in [Nodes -> SUBSET Loops]
      /\ mode' \in [Nodes -> {"down", "joining", "up", "closing"}]
  BY Zenon DEF Closed, GossipRaises, IndInv, TypeOK
<1> QED BY <1>1, SameStep, Frame, Zenon

\* Cut and Heal change what is reachable and no table.
LEMMA NetworkStep ==
  ASSUME IndInv, Cut \/ Heal
  PROVE  IndInv' /\ Advances
<1>1. /\ UNCHANGED <<mode, table, loops, untried, born, probe>>
      /\ cut' \in {{}, Cuttable} /\ faults' \in 0..MaxFaults
  BY MembershipAssumption DEF IndInv, TypeOK, Cut, Heal
<1>2. Advances
  BY <1>1, SameStep, Zenon
<1>3. TypeOK'
  BY <1>1, Zenon DEF IndInv, TypeOK
<1>4. /\ TablesOK(table') /\ StartShape' /\ ProbeShape'
      /\ \A k \in Nodes : ProbeReached(probe'[k], table')
  BY <1>1, Zenon DEF IndInv, StartShape, ProbeShape
<1> QED BY <1>2, <1>3, <1>4, Zenon DEF IndInv

LEMMA CrashStep ==
  ASSUME IndInv, NEW n \in Nodes, Crash(n) \/ BootstrapFails(n)
  PROVE  IndInv' /\ Advances
<1>1. Forget(n) /\ cut' \in {{}, Cuttable} /\ faults' \in 0..MaxFaults
  BY MembershipAssumption DEF IndInv, TypeOK, Crash, BootstrapFails
<1> QED BY <1>1, ForgetStep, Zenon

\* Every step, and stuttering.
LEMMA NextStep ==
  ASSUME IndInv, [Next]_vars
  PROVE  IndInv' /\ Advances
<1>1. CASE Next
  BY <1>1, NetworkStep, StartNodeStep, CrashStep, NothingToProbeStep, ProbeEndsStep,
     JoinStep, JoinFailsStep, IndirectProbeStep, IndirectProbeFailsStep, IndirectProbeRaisesStep,
     ProbeStep, ProbeFailsStep, ProbeRaisesStep, GossipStep, EndStep, Zenon
     DEF Next, Continue, Iterate
<1>2. CASE UNCHANGED vars
  <2>1. UNCHANGED <<mode, table, loops, untried, born, probe, cut, faults>>
    BY <1>2, Zenon DEF vars
  <2> QED BY <2>1, SameStep, Frame, Zenon DEF IndInv, TypeOK
<1> QED BY <1>1, <1>2, Zenon
-----------------------------------------------------------------------------
(* Theorems *)

LEMMA InductiveInvariant == Spec => []IndInv
<1>1. IndInv /\ [Next]_vars => IndInv'
  BY NextStep, Zenon
<1> QED BY InitIndInv, <1>1, PTL DEF Spec

\* The tables, the tasks, and what failure detectors have under way are what
\* member.py and failure_detector.py declare them to be.
THEOREM MembershipTypeCorrect == Spec => []TypeOK
<1>1. IndInv => TypeOK
  BY Zenon DEF IndInv
<1> QED BY <1>1, InductiveInvariant, PTL

\* Only a node itself makes its incarnations: neither a table nor gossip under way
\* in a probe ever holds an incarnation that the node has not reached, whatever
\* crashes, partitions and orders of messages merge() meets.
THEOREM IncarnationsStayOwn == Spec => []IncarnationsAreOwn
<1>1. IndInv => IncarnationsAreOwn
  BY Zenon DEF IndInv, TablesOK, ProbeReached, Reached, IncarnationsAreOwn
<1> QED BY <1>1, InductiveInvariant, PTL

\* A record is replaced only by one that supersedes it, or after its tombstone may
\* have been purged: no late or repeated gossip takes a member back.
THEOREM RecordsOnlyAdvance == Spec => RecordsAdvance
<1>1. IndInv /\ [Next]_vars => [Advances]_vars
  BY NextStep, Zenon
<1>2. [Advances]_vars => [\A n, k \in Nodes :
         LET old == table[n][k]
             new == table'[n][k]
         IN  (old # Absent /\ new # Absent /\ new # old)
               => Supersedes(new, old) \/ (old.status = DEAD /\ Idle(n))]_vars
  BY Zenon DEF Advances, RecordAdvances
<1> QED BY <1>1, <1>2, InductiveInvariant, PTL DEF Spec, RecordsAdvance

-----------------------------------------------------------------------------
(* NodeLifecycle *)

\* The lease the manager holds is the last one granted and, unless it has expired
\* or was overtaken, the one the member key hangs on.
LeaseOK ==
  /\ manager \in {"off", "connected", "described", "granting"} => offered = 0 /\ lease = 0
  /\ manager = "registering" => offered = granted /\ granted # 0 /\ lease = 0
  /\ manager \in {"sleeping", "refreshing"} => offered = 0
  /\ lease # 0 => lease = granted
  /\ lease \in alive /\ ~overtaken => key = lease

LeaseInv == LeaseTypeOK /\ LeaseOK

\* What a node holds in each phase of its start.
Opened == {"observability", "pool", "repository"}
Bound == Opened \cup {"server", "coordination"}

HeldOK ==
  /\ phase = "down" => held = {}
  /\ phase = "starting" => held = {"observability"}
  /\ phase \in {"opening_repository", "restoring", "binding"} => held = Opened
  /\ phase = "coordinating" => held = Bound
  /\ phase = "joining_cluster" => held = Bound \cup {"cluster"}
  /\ phase \in {"reconciling", "ready"} => held = Resources
  /\ "crdt" \in held => "coordination" \in held
  /\ "coordination" \in held => "server" \in held
  /\ "server" \in held => "repository" \in held

\* The schema, the identity and the clock are durable.
DbComplete == db.tables = Tables /\ db.version = 1 /\ db.identity # 0 /\ db.clock

DbOK ==
  /\ db.version = 1 => db.tables = Tables
  /\ phase = "restoring" => db.version = 1
  /\ phase = "binding" \/ "server" \in held => DbComplete

\* Readiness, and what is left of the connections once the server is gone.
ServingOK ==
  /\ stopping => phase \in {"releasing", "down"}
  /\ ready => phase = "ready" \/ stopping
  /\ stopping /\ "server" \notin held => open = {} /\ \A c \in Connections : work[c] = "none"
  /\ manager # "off" => "coordination" \in held
  /\ phase \in {"down", "starting", "opening_repository", "restoring", "binding"} => manager = "off"

WorkOK(c) ==
  /\ work[c] \in {"client", "peer"} => DbComplete
  /\ work[c] = "client" => phase \in {"ready", "releasing"} /\ (ready \/ stopping)

\* The inductive invariant.
LifeIndInv ==
  /\ LifecycleTypeOK /\ LeaseOK /\ HeldOK /\ DbOK /\ ServingOK
  /\ \A c \in Connections : WorkOK(c)

-----------------------------------------------------------------------------
(* The lease *)

LEMMA BootstrapSteps ==
  ASSUME LeaseInv, Connect \/ PutNodeMetadata \/ DiscoverMembers
  PROVE  LeaseInv'
BY Zenon DEF LeaseInv, LeaseTypeOK, LeaseOK, Connect, PutNodeMetadata,
       DiscoverMembers, BootstrapStep

LEMMA GrantLeaseStep ==
  ASSUME LeaseInv, GrantLease
  PROVE  LeaseInv'
<1>1. /\ manager = "granting" /\ manager' = "registering" /\ granted' = granted + 1
      /\ alive' = alive \cup {granted'} /\ offered' = granted' /\ offered = 0 /\ lease = 0
      /\ UNCHANGED <<key, overdue, lease, healthy, failures, overtaken>>
      /\ granted \in Nat /\ granted' # 0
  BY DEF LeaseInv, LeaseTypeOK, LeaseOK, GrantLease
<1>2. alive' \subseteq 1 .. granted' /\ overdue' \subseteq 1 .. granted' /\ lease' \notin alive'
  BY <1>1 DEF LeaseInv, LeaseTypeOK
<1>3. key' \in 0 .. granted' /\ lease' \in 0 .. granted' /\ offered' \in 0 .. granted'
  BY <1>1 DEF LeaseInv, LeaseTypeOK
<1>4. LeaseTypeOK'
  BY <1>1, <1>2, <1>3 DEF LeaseInv, LeaseTypeOK
<1>5. LeaseOK'
  BY <1>1, <1>2, Zenon DEF LeaseOK
<1> QED BY <1>4, <1>5, Zenon DEF LeaseInv

LEMMA RegisterMemberStep ==
  ASSUME LeaseInv, RegisterMember
  PROVE  LeaseInv'
BY Zenon DEF LeaseInv, LeaseTypeOK, LeaseOK, RegisterMember

LEMMA RequestFailsStep ==
  ASSUME LeaseInv, RequestFails, manager' \in {"off", "sleeping"}
  PROVE  LeaseInv' /\ manager # "off"
<1>1. /\ lease' = 0 /\ offered' = 0 /\ healthy' = FALSE
      /\ alive' = alive /\ granted' = granted /\ overtaken' = overtaken
      /\ manager \in {"connected", "described", "granting", "registering", "refreshing"}
  BY Zenon DEF RequestFails, Lost
<1>2. /\ granted \in Nat /\ alive \subseteq 1 .. granted /\ overdue \subseteq 1 .. granted
      /\ key \in 0 .. granted /\ overtaken \in BOOLEAN /\ failures \in 0 .. MaxFailures
  BY Zenon DEF LeaseInv, LeaseTypeOK
<1>3. failures' \in 0 .. MaxFailures
  BY <1>2, LeaseAssumption DEF RequestFails
<1>4. manager = "registering" => offered \in 1 .. granted /\ offered \in 0 .. granted
  BY <1>2 DEF LeaseInv, LeaseOK
<1>5. key' \in 0 .. granted /\ overdue' \subseteq 1 .. granted
  BY <1>2, <1>4, Zenon DEF RequestFails
<1>6. LeaseTypeOK'
  <2>1. healthy' \in BOOLEAN /\ overtaken' \in BOOLEAN
    BY <1>1, <1>2, Zenon
  <2>2. lease' \in 0 .. granted /\ offered' \in 0 .. granted
    BY <1>1, <1>2
  <2>3. manager' \in {"off", "connected", "described", "granting", "registering", "sleeping",
                      "refreshing"}
    OBVIOUS
  <2> QED BY <1>1, <1>2, <1>3, <1>5, <2>1, <2>2, <2>3, Zenon DEF LeaseTypeOK
<1>7. lease' \notin alive'
  BY <1>1, <1>2
<1>8. LeaseOK'
  BY <1>1, <1>7, Zenon DEF LeaseOK
<1> QED BY <1>1, <1>6, <1>8, Zenon DEF LeaseInv

LEMMA WakeUpStep ==
  ASSUME LeaseInv, WakeUp
  PROVE  LeaseInv'
BY Zenon DEF LeaseInv, LeaseTypeOK, LeaseOK, WakeUp

LEMMA RefreshLeaseStep ==
  ASSUME LeaseInv, RefreshLease
  PROVE  LeaseInv'
BY Zenon DEF LeaseInv, LeaseTypeOK, LeaseOK, RefreshLease

LEMMA StopLeaseStep ==
  ASSUME LeaseInv, StopLease
  PROVE  LeaseInv' /\ manager' = "off"
<1>1. /\ manager' = "off" /\ lease' = 0 /\ offered' = 0 /\ healthy' = FALSE
      /\ UNCHANGED <<alive, granted, key, failures, overtaken>>
      /\ overdue' = IF manager = "registering" THEN overdue \cup {offered} ELSE overdue
  BY Zenon DEF StopLease, Lost
<1>2. granted \in Nat /\ alive \subseteq 1 .. granted /\ overdue \subseteq 1 .. granted
  BY Zenon DEF LeaseInv, LeaseTypeOK
<1>3. manager = "registering" => offered \in 1 .. granted
  BY <1>2 DEF LeaseInv, LeaseOK
<1>4. overdue' \subseteq 1 .. granted
  BY <1>1, <1>2, <1>3, Zenon
<1>5. LeaseTypeOK'
  <2>1. healthy' \in BOOLEAN /\ overtaken' \in BOOLEAN
    BY <1>1, Zenon DEF LeaseInv, LeaseTypeOK
  <2>2. lease' \in 0 .. granted /\ offered' \in 0 .. granted
    BY <1>1, <1>2
  <2>3. manager' \in {"off", "connected", "described", "granting", "registering", "sleeping",
                      "refreshing"}
    BY <1>1, Zenon
  <2>4. key' \in 0 .. granted /\ failures' \in 0 .. MaxFailures
    BY <1>1, Zenon DEF LeaseInv, LeaseTypeOK
  <2> QED BY <1>1, <1>2, <1>4, <2>1, <2>2, <2>3, <2>4, Zenon DEF LeaseTypeOK
<1>6. LeaseOK'
  BY <1>1, <1>2 DEF LeaseOK
<1> QED BY <1>1, <1>5, <1>6, Zenon DEF LeaseInv

LEMMA ExpireLeaseStep ==
  ASSUME LeaseInv, NEW l, ExpireLease(l)
  PROVE  LeaseInv'
<1>1. /\ l \in alive /\ alive' = alive \ {l} /\ key' = (IF key = l THEN 0 ELSE key)
      /\ UNCHANGED <<granted, overdue, manager, lease, offered, healthy, overtaken>>
  BY Zenon DEF ExpireLease
<1>2. failures' \in 0 .. MaxFailures
  BY LeaseAssumption DEF ExpireLease, LeaseInv, LeaseTypeOK
<1>3. LeaseTypeOK'
  BY <1>1, <1>2 DEF LeaseInv, LeaseTypeOK
<1>4. LeaseOK'
  BY <1>1, Zenon DEF LeaseInv, LeaseOK
<1> QED BY <1>3, <1>4, Zenon DEF LeaseInv

LEMMA LateRegistrationStep ==
  ASSUME LeaseInv, NEW l, LateRegistration(l)
  PROVE  LeaseInv'
<1>1. /\ l \in overdue /\ overdue' = overdue \ {l} /\ key' = (IF l \in alive THEN l ELSE key)
      /\ overtaken' = (overtaken \/ (l \in alive /\ l # granted))
      /\ UNCHANGED <<alive, granted, manager, lease, offered, healthy, failures>>
  BY Zenon DEF LateRegistration
<1>2. granted \in Nat /\ l \in 1 .. granted /\ alive \subseteq 1 .. granted
  BY <1>1, Zenon DEF LeaseInv, LeaseTypeOK
<1>3. LeaseTypeOK'
  BY <1>1, <1>2 DEF LeaseInv, LeaseTypeOK
<1>4. lease \in alive /\ ~overtaken' => key' = lease
  <2> SUFFICES ASSUME lease \in alive, ~overtaken' PROVE key' = lease
    OBVIOUS
  <2>1. ~overtaken /\ ~(l \in alive /\ l # granted)
    BY <1>1, Zenon
  <2>2. lease # 0
    BY <1>2
  <2>3. key = lease /\ lease = granted
    BY <2>1, <2>2, Zenon DEF LeaseInv, LeaseOK
  <2> QED BY <1>1, <2>1, <2>3, Zenon
<1>5. LeaseOK'
  BY <1>1, <1>4, Zenon DEF LeaseInv, LeaseOK
<1> QED BY <1>3, <1>5 DEF LeaseInv

LEMMA SameLease ==
  ASSUME LeaseInv, UNCHANGED leaseVars
  PROVE  LeaseInv' /\ manager' = manager
BY Zenon DEF LeaseInv, LeaseTypeOK, LeaseOK, leaseVars

-----------------------------------------------------------------------------
(* The node *)

\* What is released next is held, and what comes before it in the order is not.
LEMMA NextReleaseResult ==
  ASSUME held \subseteq Resources, held # {}
  PROVE  /\ NextRelease \in held
         /\ NextRelease = "coordination" => held \cap {"crdt", "cluster"} = {}
         /\ NextRelease = "server" => held \cap {"crdt", "cluster", "coordination"} = {}
         /\ NextRelease \in {"repository", "pool", "observability"} =>
              held \cap {"crdt", "cluster", "coordination", "server"} = {}
         /\ NextRelease \in {"cluster", "coordination", "server", "repository", "pool", "observability"} =>
              "crdt" \notin held
<1> DEFINE P(i) == ReleaseOrder[i] \in held /\ \A j \in 1 .. (i - 1) : ReleaseOrder[j] \notin held
           next == CHOOSE i \in DOMAIN ReleaseOrder : P(i)
<1>1. /\ DOMAIN ReleaseOrder = 1 .. 7
      /\ ReleaseOrder[1] = "crdt" /\ ReleaseOrder[2] = "cluster" /\ ReleaseOrder[3] = "coordination"
      /\ ReleaseOrder[4] = "server" /\ ReleaseOrder[5] = "repository" /\ ReleaseOrder[6] = "pool"
      /\ ReleaseOrder[7] = "observability"
  BY DEF ReleaseOrder
<1>2. \E i \in 1 .. 7 : P(i)
  <2>1. CASE "crdt" \in held
    BY <1>1, <2>1
  <2>2. CASE "crdt" \notin held /\ "cluster" \in held
    BY <1>1, <2>2
  <2>3. CASE held \cap {"crdt", "cluster"} = {} /\ "coordination" \in held
    BY <1>1, <2>3
  <2>4. CASE held \cap {"crdt", "cluster", "coordination"} = {} /\ "server" \in held
    BY <1>1, <2>4
  <2>5. CASE held \cap {"crdt", "cluster", "coordination", "server"} = {} /\ "repository" \in held
    BY <1>1, <2>5
  <2>6. CASE held \cap {"crdt", "cluster", "coordination", "server", "repository"} = {} /\ "pool" \in held
    BY <1>1, <2>6
  <2>7. CASE held \cap {"crdt", "cluster", "coordination", "server", "repository", "pool"} = {}
    <3>1. "observability" \in held
      BY <2>7, Zenon DEF Resources
    <3> QED BY <1>1, <2>7, <3>1
  <2> QED BY <2>1, <2>2, <2>3, <2>4, <2>5, <2>6, <2>7, Zenon
<1>3. next \in 1 .. 7 /\ P(next)
  BY <1>1, <1>2, Zenon
<1>4. NextRelease = ReleaseOrder[next]
  BY Zenon DEF NextRelease
<1> HIDE DEF next
<1>5. next \in {1, 2, 3, 4, 5, 6, 7}
  BY <1>3
<1> QED BY <1>1, <1>3, <1>4, <1>5

LEMMA LaunchStep ==
  ASSUME LifeIndInv, Launch
  PROVE  LifeIndInv'
<1>1. LeaseInv' /\ manager' = manager
  BY SameLease, Zenon DEF LifeIndInv, LifecycleTypeOK, LeaseInv, Launch
<1>2. LifecycleTypeOK'
  <2>1. starts' \in 0 .. MaxStarts
    BY LifecycleAssumption DEF LifeIndInv, LifecycleTypeOK, Launch
  <2>2. ready' \in BOOLEAN /\ stopping' \in BOOLEAN
    BY Zenon DEF Launch
  <2>3. phase' \in Phases /\ held' \subseteq Resources
    BY Zenon DEF Launch, Resources, Phases, StartPhases
  <2> QED BY <1>1, <2>1, <2>2, <2>3, Zenon DEF LifeIndInv, LifecycleTypeOK, LeaseInv, Launch
<1>3. HeldOK' /\ DbOK'
  BY Zenon DEF LifeIndInv, HeldOK, DbOK, DbComplete, Launch
<1>4. ServingOK'
  BY <1>1, Zenon DEF LifeIndInv, ServingOK, Launch
<1>5. ASSUME NEW c \in Connections PROVE WorkOK(c)'
  BY Zenon DEF LifeIndInv, WorkOK, DbComplete, Launch
<1> QED BY <1>1, <1>2, <1>3, <1>4, <1>5, Zenon DEF LifeIndInv, LeaseInv

LEMMA CreateRepositoryStep ==
  ASSUME LifeIndInv, CreateRepository
  PROVE  LifeIndInv'
<1>1. LeaseInv' /\ manager' = manager
  BY SameLease, Zenon DEF LifeIndInv, LifecycleTypeOK, LeaseInv, CreateRepository
<1>2. LifecycleTypeOK'
  BY <1>1, Zenon DEF LifeIndInv, LifecycleTypeOK, LeaseInv, CreateRepository, Advance,
              Resources, Phases, StartPhases
<1>3. HeldOK' /\ DbOK'
  BY Zenon DEF LifeIndInv, HeldOK, DbOK, DbComplete, CreateRepository, Advance, Opened
<1>4. ServingOK'
  BY <1>1, Zenon DEF LifeIndInv, ServingOK, CreateRepository, Advance
<1>5. ASSUME NEW c \in Connections PROVE WorkOK(c)'
  BY Zenon DEF LifeIndInv, WorkOK, DbComplete, CreateRepository, Advance
<1> QED BY <1>1, <1>2, <1>3, <1>4, <1>5 DEF LifeIndInv, LeaseInv

\* Statements of the restore leave all but the database alone, and never undo
\* what is durable.
LEMMA DbStep ==
  ASSUME LifeIndInv, Migrate \/ InitializeIdentity \/ SaveClock
  PROVE  LifeIndInv'
<1>1. LeaseInv' /\ manager' = manager
  BY SameLease, Zenon DEF LifeIndInv, LifecycleTypeOK, LeaseInv, Migrate, InitializeIdentity,
                   SaveClock
<1>2. /\ UNCHANGED <<phase, held, ready, stopping, open, work, starts>>
      /\ phase \in {"opening_repository", "restoring"} /\ "server" \notin held
      /\ db \in [tables : 0 .. Tables, version : 0 .. 1, identity : 0 .. MaxStarts, clock : BOOLEAN]
      /\ starts \in 0 .. MaxStarts
  BY Zenon DEF Migrate, InitializeIdentity, SaveClock, LifeIndInv, HeldOK, Opened,
         LifecycleTypeOK
<1>3. /\ db' \in [tables : 0 .. Tables, version : 0 .. 1, identity : 0 .. MaxStarts, clock : BOOLEAN]
      /\ db'.version = 1 => db'.tables = Tables
      /\ phase = "restoring" => db'.version = 1
      /\ DbComplete => DbComplete'
  <2>1. CASE Migrate
    BY <1>2, <2>1 DEF Migrate, LifeIndInv, DbOK, DbComplete, Tables
  <2>2. CASE InitializeIdentity
    BY <1>2, <2>2, Zenon DEF InitializeIdentity, LifeIndInv, DbOK, DbComplete, Tables
  <2>3. CASE SaveClock
    BY <1>2, <2>3, Zenon DEF SaveClock, LifeIndInv, DbOK, DbComplete, Tables
  <2> QED BY <2>1, <2>2, <2>3, Zenon
<1>4. LifecycleTypeOK'
  BY <1>1, <1>2, <1>3, Zenon DEF LifeIndInv, LifecycleTypeOK, LeaseInv
<1>5. HeldOK' /\ DbOK'
  BY <1>2, <1>3, Zenon DEF LifeIndInv, HeldOK, DbOK
<1>6. ServingOK'
  BY <1>1, <1>2, Zenon DEF LifeIndInv, ServingOK
<1>7. ASSUME NEW c \in Connections PROVE WorkOK(c)'
  BY <1>2, <1>3, Zenon DEF LifeIndInv, WorkOK
<1> QED BY <1>1, <1>4, <1>5, <1>6, <1>7, Zenon DEF LifeIndInv, LeaseInv

LEMMA OpenRepositoryStep ==
  ASSUME LifeIndInv, OpenRepository
  PROVE  LifeIndInv'
<1>1. LeaseInv' /\ manager' = manager
  BY SameLease, Zenon DEF LifeIndInv, LifecycleTypeOK, LeaseInv, OpenRepository
<1>2. LifecycleTypeOK'
  BY <1>1, Zenon DEF LifeIndInv, LifecycleTypeOK, LeaseInv, OpenRepository, Advance, Phases,
              StartPhases
<1>3. HeldOK' /\ DbOK'
  BY Zenon DEF LifeIndInv, HeldOK, DbOK, DbComplete, OpenRepository, Advance, Opened
<1>4. ServingOK'
  BY <1>1, Zenon DEF LifeIndInv, ServingOK, OpenRepository, Advance
<1>5. ASSUME NEW c \in Connections PROVE WorkOK(c)'
  BY Zenon DEF LifeIndInv, WorkOK, DbComplete, OpenRepository, Advance
<1> QED BY <1>1, <1>2, <1>3, <1>4, <1>5 DEF LifeIndInv, LeaseInv

LEMMA RestoreStep ==
  ASSUME LifeIndInv, Restore
  PROVE  LifeIndInv'
<1>1. LeaseInv' /\ manager' = manager
  BY SameLease, Zenon DEF LifeIndInv, LifecycleTypeOK, LeaseInv, Restore
<1>2. LifecycleTypeOK'
  BY <1>1, Zenon DEF LifeIndInv, LifecycleTypeOK, LeaseInv, Restore, Advance, Phases,
              StartPhases
<1>3. HeldOK' /\ DbOK'
  BY Zenon DEF LifeIndInv, HeldOK, DbOK, DbComplete, Restore, LoadClock, Advance, Opened
<1>4. ServingOK'
  BY <1>1, Zenon DEF LifeIndInv, ServingOK, Restore, Advance
<1>5. ASSUME NEW c \in Connections PROVE WorkOK(c)'
  BY Zenon DEF LifeIndInv, WorkOK, DbComplete, Restore, Advance
<1> QED BY <1>1, <1>2, <1>3, <1>4, <1>5 DEF LifeIndInv, LeaseInv

LEMMA BindStep ==
  ASSUME LifeIndInv, Bind
  PROVE  LifeIndInv'
<1>1. LeaseInv' /\ manager' = manager
  BY SameLease, Zenon DEF LifeIndInv, LifecycleTypeOK, LeaseInv, Bind
<1>2. LifecycleTypeOK'
  BY <1>1, Zenon DEF LifeIndInv, LifecycleTypeOK, LeaseInv, Bind, Advance, Phases,
              StartPhases, Resources
<1>3. HeldOK' /\ DbOK'
  BY Zenon DEF LifeIndInv, HeldOK, DbOK, DbComplete, Bind, Advance, Opened, Bound
<1>4. ServingOK'
  BY <1>1, Zenon DEF LifeIndInv, ServingOK, Bind, Advance
<1>5. ASSUME NEW c \in Connections PROVE WorkOK(c)'
  BY Zenon DEF LifeIndInv, WorkOK, DbComplete, Bind, Advance
<1> QED BY <1>1, <1>2, <1>3, <1>4, <1>5, Zenon DEF LifeIndInv, LeaseInv

\* Steps of coordination that leave the node alone: the manager runs only while
\* the coordination service is held, and starts only when the node coordinates.
LEMMA LeaseStep ==
  ASSUME LifeIndInv, UNCHANGED nodeVars, LeaseInv', manager # "off" \/ manager' = "off" \/ phase = "coordinating"
  PROVE  LifeIndInv'
<1>1. LifecycleTypeOK'
  BY Zenon DEF LifeIndInv, LifecycleTypeOK, LeaseInv, nodeVars
<1>2. HeldOK' /\ DbOK'
  BY Zenon DEF LifeIndInv, HeldOK, DbOK, DbComplete, nodeVars
<1>3. ServingOK'
  BY Zenon DEF LifeIndInv, ServingOK, HeldOK, Bound, nodeVars
<1>4. ASSUME NEW c \in Connections PROVE WorkOK(c)'
  BY Zenon DEF LifeIndInv, WorkOK, DbComplete, nodeVars
<1> QED BY <1>1, <1>2, <1>3, <1>4, Zenon DEF LifeIndInv, LeaseInv

LEMMA DiscoverStep ==
  ASSUME LifeIndInv, Discover
  PROVE  LifeIndInv'
<1>1. LeaseInv'
  BY BootstrapSteps, Zenon DEF LifeIndInv, LifecycleTypeOK, LeaseInv, Discover
<1> QED BY <1>1, LeaseStep, Zenon DEF Discover

LEMMA LeaseLoopStep ==
  ASSUME LifeIndInv, LeaseLoop
  PROVE  LifeIndInv'
<1>1. LeaseInv
  BY Zenon DEF LifeIndInv, LifecycleTypeOK, LeaseInv
<1>2. LeaseInv'
  BY <1>1, WakeUpStep, RefreshLeaseStep, GrantLeaseStep, RegisterMemberStep, RequestFailsStep
    , Zenon DEF LeaseLoop, LoopFails
<1>3. manager # "off"
  BY Zenon DEF LeaseLoop, WakeUp, RefreshLease, GrantLease, RegisterMember,
         LoopFails, RequestFails
<1> QED BY <1>2, <1>3, LeaseStep, Zenon DEF LeaseLoop

LEMMA EtcdStep ==
  ASSUME LifeIndInv, NEW l, Etcd(l)
  PROVE  LifeIndInv'
<1>1. LeaseInv
  BY Zenon DEF LifeIndInv, LifecycleTypeOK, LeaseInv
<1>2. LeaseInv'
  BY <1>1, ExpireLeaseStep, LateRegistrationStep, Zenon DEF Etcd
<1>3. manager' = manager
  BY Zenon DEF Etcd, ExpireLease, LateRegistration
<1> QED BY <1>2, <1>3, LeaseStep, Zenon DEF Etcd

LEMMA CoordinateStep ==
  ASSUME LifeIndInv, Coordinate
  PROVE  LifeIndInv'
<1>1. LeaseInv' /\ manager = "registering"
  BY RegisterMemberStep, Zenon DEF LifeIndInv, LifecycleTypeOK, LeaseInv, Coordinate, RegisterMember
<1>2. LifecycleTypeOK'
  BY <1>1, Zenon DEF LifeIndInv, LifecycleTypeOK, LeaseInv, Coordinate, Advance, Phases,
              StartPhases, Resources
<1>3. HeldOK' /\ DbOK'
  BY Zenon DEF LifeIndInv, HeldOK, DbOK, DbComplete, Coordinate, Advance, Opened, Bound
<1>4. ServingOK'
  BY <1>1, Zenon DEF LifeIndInv, ServingOK, HeldOK, Bound, Coordinate, Advance
<1>5. ASSUME NEW c \in Connections PROVE WorkOK(c)'
  BY Zenon DEF LifeIndInv, WorkOK, DbComplete, Coordinate, Advance
<1> QED BY <1>1, <1>2, <1>3, <1>4, <1>5, Zenon DEF LifeIndInv, LeaseInv

LEMMA JoinClusterStep ==
  ASSUME LifeIndInv, JoinCluster
  PROVE  LifeIndInv'
<1>1. LeaseInv' /\ manager' = manager
  BY SameLease, Zenon DEF LifeIndInv, LifecycleTypeOK, LeaseInv, JoinCluster
<1>2. LifecycleTypeOK'
  BY <1>1, Zenon DEF LifeIndInv, LifecycleTypeOK, LeaseInv, JoinCluster, Advance, Phases,
              StartPhases, Resources
<1>3. HeldOK' /\ DbOK'
  BY Zenon DEF LifeIndInv, HeldOK, DbOK, DbComplete, JoinCluster, Advance, Opened, Bound,
         Resources
<1>4. ServingOK'
  BY <1>1, Zenon DEF LifeIndInv, ServingOK, HeldOK, Bound, JoinCluster, Advance
<1>5. ASSUME NEW c \in Connections PROVE WorkOK(c)'
  BY Zenon DEF LifeIndInv, WorkOK, DbComplete, JoinCluster, Advance
<1> QED BY <1>1, <1>2, <1>3, <1>4, <1>5 DEF LifeIndInv, LeaseInv

LEMMA ReconcileStep ==
  ASSUME LifeIndInv, Reconcile
  PROVE  LifeIndInv'
<1>1. LeaseInv' /\ manager' = manager
  BY SameLease, Zenon DEF LifeIndInv, LifecycleTypeOK, LeaseInv, Reconcile
<1>2. LifecycleTypeOK'
  BY <1>1, Zenon DEF LifeIndInv, LifecycleTypeOK, LeaseInv, Reconcile, Advance, Phases,
              StartPhases
<1>3. HeldOK' /\ DbOK'
  BY Zenon DEF LifeIndInv, HeldOK, DbOK, DbComplete, Reconcile, Advance
<1>4. ServingOK'
  BY <1>1, Zenon DEF LifeIndInv, ServingOK, HeldOK, Reconcile, Advance
<1>5. ASSUME NEW c \in Connections PROVE WorkOK(c)'
  BY Zenon DEF LifeIndInv, WorkOK, DbComplete, Reconcile, Advance
<1> QED BY <1>1, <1>2, <1>3, <1>4, <1>5 DEF LifeIndInv, LeaseInv

-----------------------------------------------------------------------------
(* stop(), the failure path of start(), crashes *)

LEMMA StartFailsStep ==
  ASSUME LifeIndInv, StartFails
  PROVE  LifeIndInv'
<1>1. LeaseInv' /\ (manager' = "off" \/ manager' = manager)
  <2>1. LeaseInv
    BY DEF LifeIndInv, LifecycleTypeOK, LeaseInv
  <2>2. (RequestFails /\ manager' = "off") \/ UNCHANGED leaseVars
    BY Zenon DEF StartFails
  <2> QED BY <2>1, <2>2, RequestFailsStep, SameLease, Zenon
<1>2. LifecycleTypeOK'
  BY <1>1, Zenon DEF LifeIndInv, LifecycleTypeOK, LeaseInv, StartFails, Phases
<1>3. HeldOK' /\ DbOK'
  BY Zenon DEF LifeIndInv, HeldOK, DbOK, DbComplete, StartFails
<1>4. ServingOK'
  BY <1>1, Zenon DEF LifeIndInv, ServingOK, StartFails, StartPhases
<1>5. ASSUME NEW c \in Connections PROVE WorkOK(c)'
  BY Zenon DEF LifeIndInv, WorkOK, DbComplete, StartFails, StartPhases
<1> QED BY <1>1, <1>2, <1>3, <1>4, <1>5, Zenon DEF LifeIndInv, LeaseInv

LEMMA StopStep ==
  ASSUME LifeIndInv, Stop
  PROVE  LifeIndInv'
<1>1. LeaseInv' /\ manager' = manager
  BY SameLease, Zenon DEF LifeIndInv, LifecycleTypeOK, LeaseInv, Stop
<1>2. LifecycleTypeOK'
  BY <1>1, Zenon DEF LifeIndInv, LifecycleTypeOK, LeaseInv, Stop, Phases
<1>3. HeldOK' /\ DbOK'
  BY Zenon DEF LifeIndInv, HeldOK, DbOK, DbComplete, Stop
<1>4. ServingOK'
  BY <1>1, Zenon DEF LifeIndInv, ServingOK, HeldOK, Resources, Stop
<1>5. ASSUME NEW c \in Connections PROVE WorkOK(c)'
  BY Zenon DEF LifeIndInv, WorkOK, DbComplete, Stop
<1> QED BY <1>1, <1>2, <1>3, <1>4, <1>5 DEF LifeIndInv, LeaseInv

LEMMA ReleaseStep ==
  ASSUME LifeIndInv, Release
  PROVE  LifeIndInv'
<1> DEFINE x == NextRelease
<1>1. /\ phase = "releasing" /\ held # {} /\ held \subseteq Resources
      /\ x = "server" => open = {}
      /\ held' = held \ {x}
      /\ work' = IF x = "server" /\ stopping THEN [c \in Connections |-> "none"] ELSE work
      /\ UNCHANGED <<phase, ready, stopping, db, open, starts>>
      /\ (x = "coordination" /\ manager # "off" /\ StopLease)
           \/ (~(x = "coordination" /\ manager # "off") /\ UNCHANGED leaseVars)
  BY Zenon DEF Release, LifeIndInv, LifecycleTypeOK
<1>2. /\ x \in held
      /\ x = "coordination" => held \cap {"crdt", "cluster"} = {}
      /\ x = "server" => held \cap {"crdt", "cluster", "coordination"} = {}
      /\ x \in {"repository", "pool", "observability"} =>
           held \cap {"crdt", "cluster", "coordination", "server"} = {}
  BY <1>1, NextReleaseResult, Zenon
<1> HIDE DEF x
<1>3. LeaseInv' /\ (manager' = "off" \/ (manager' = manager /\ x # "coordination"))
  <2>1. LeaseInv
    BY DEF LifeIndInv, LifecycleTypeOK, LeaseInv
  <2> QED BY <1>1, <2>1, StopLeaseStep, SameLease, Zenon
<1>4. LifecycleTypeOK'
  BY <1>1, <1>3, Zenon DEF LifeIndInv, LifecycleTypeOK, LeaseInv, Work
<1>5. HeldOK'
  BY <1>1, <1>2, Zenon DEF LifeIndInv, HeldOK
<1>6. DbOK'
  BY <1>1, Zenon DEF LifeIndInv, DbOK, DbComplete
<1>7. ServingOK'
  <2>1. /\ stopping' => phase' \in {"releasing", "down"}
        /\ ready' => phase' = "ready" \/ stopping'
    BY <1>1, Zenon DEF LifeIndInv, ServingOK
  <2>2. stopping' /\ "server" \notin held' => open' = {} /\ \A c \in Connections : work'[c] = "none"
    <3>1. CASE x = "server"
      BY <1>1, <3>1, Zenon
    <3>2. CASE x # "server"
      BY <1>1, <3>2, Zenon DEF LifeIndInv, ServingOK
    <3> QED BY <3>1, <3>2, Zenon
  <2>3. manager' # "off" => "coordination" \in held'
    BY <1>1, <1>3, Zenon DEF LifeIndInv, ServingOK
  <2> QED BY <1>1, <2>1, <2>2, <2>3, Zenon DEF ServingOK
<1>8. ASSUME NEW c \in Connections PROVE WorkOK(c)'
  <2>1. work'[c] = work[c] \/ work'[c] = "none"
    BY <1>1, Zenon
  <2> QED BY <1>1, <2>1, Zenon DEF LifeIndInv, WorkOK, DbComplete
<1> QED BY <1>3, <1>4, <1>5, <1>6, <1>7, <1>8, Zenon DEF LifeIndInv, LeaseInv

LEMMA ExitStep ==
  ASSUME LifeIndInv, Exit
  PROVE  LifeIndInv'
<1>1. LeaseInv' /\ manager' = manager /\ manager = "off"
  BY SameLease, Zenon DEF LifeIndInv, LifecycleTypeOK, LeaseInv, ServingOK, Exit
<1>2. LifecycleTypeOK'
  BY <1>1, Zenon DEF LifeIndInv, LifecycleTypeOK, LeaseInv, Exit, Phases, Work
<1>3. HeldOK' /\ DbOK'
  BY Zenon DEF LifeIndInv, HeldOK, DbOK, DbComplete, Exit
<1>4. ServingOK'
  BY <1>1, Zenon DEF LifeIndInv, ServingOK, Exit
<1>5. ASSUME NEW c \in Connections PROVE WorkOK(c)'
  BY Zenon DEF WorkOK, Exit
<1> QED BY <1>1, <1>2, <1>3, <1>4, <1>5, Zenon DEF LifeIndInv, LeaseInv

LEMMA LifeCrashStep ==
  ASSUME LifeIndInv, NodeCrash
  PROVE  LifeIndInv'
<1>1. LeaseInv' /\ manager' = "off"
  BY StopLeaseStep, Zenon DEF LifeIndInv, LifecycleTypeOK, LeaseInv, NodeCrash
<1>2. LifecycleTypeOK'
  <2>1. ready' \in BOOLEAN /\ stopping' \in BOOLEAN
    BY Zenon DEF NodeCrash
  <2>2. work' \in [Connections -> Work] /\ open' \subseteq Connections /\ held' \subseteq Resources
    BY Zenon DEF NodeCrash, Work
  <2> QED BY <1>1, <2>1, <2>2, Zenon DEF LifeIndInv, LifecycleTypeOK, LeaseInv, NodeCrash, Phases
<1>3. HeldOK' /\ DbOK'
  BY Zenon DEF LifeIndInv, HeldOK, DbOK, DbComplete, NodeCrash
<1>4. ServingOK'
  BY <1>1, Zenon DEF ServingOK, NodeCrash
<1>5. ASSUME NEW c \in Connections PROVE WorkOK(c)'
  BY Zenon DEF WorkOK, NodeCrash
<1> QED BY <1>1, <1>2, <1>3, <1>4, <1>5, Zenon DEF LifeIndInv, LeaseInv
-----------------------------------------------------------------------------
(* Connections *)

\* Steps of a handler: only connections and their requests change.
LEMMA HandlerStep ==
  ASSUME LifeIndInv, UNCHANGED <<phase, held, ready, stopping, db, starts, leaseVars>>,
         open' \subseteq Connections, work' \in [Connections -> Work],
         stopping /\ "server" \notin held => open' = {} /\ \A c \in Connections : work'[c] = "none",
         \A c \in Connections : WorkOK(c)'
  PROVE  LifeIndInv'
<1>1. LeaseInv' /\ manager' = manager
  BY SameLease, Zenon DEF LifeIndInv, LifecycleTypeOK, LeaseInv
<1>2. LifecycleTypeOK'
  BY <1>1, Zenon DEF LifeIndInv, LifecycleTypeOK, LeaseInv
<1>3. HeldOK' /\ DbOK'
  BY Zenon DEF LifeIndInv, HeldOK, DbOK, DbComplete
<1>4. ServingOK'
  BY <1>1, Zenon DEF LifeIndInv, ServingOK
<1> QED BY <1>1, <1>2, <1>3, <1>4, Zenon DEF LifeIndInv, LeaseInv

LEMMA AcceptStep ==
  ASSUME LifeIndInv, NEW c \in Connections, Accept(c)
  PROVE  LifeIndInv'
<1>1. /\ UNCHANGED <<phase, held, ready, stopping, db, work, starts, leaseVars>>
      /\ open' = open \cup {c} /\ "server" \in held
  BY Zenon DEF Accept, Listening
<1>2. open' \subseteq Connections /\ work' \in [Connections -> Work]
  BY <1>1, Zenon DEF LifeIndInv, LifecycleTypeOK
<1>3. \A d \in Connections : WorkOK(d)'
  BY <1>1, Zenon DEF LifeIndInv, WorkOK, DbComplete
<1> QED BY <1>1, <1>2, <1>3, HandlerStep, Zenon

LEMMA HangUpStep ==
  ASSUME LifeIndInv, NEW c \in Connections, HangUp(c)
  PROVE  LifeIndInv'
<1>1. /\ UNCHANGED <<phase, held, ready, stopping, db, work, starts, leaseVars>>
      /\ open' = open \ {c}
  BY Zenon DEF HangUp
<1>2. open' \subseteq Connections /\ work' \in [Connections -> Work]
  BY <1>1, Zenon DEF LifeIndInv, LifecycleTypeOK
<1>3. \A d \in Connections : WorkOK(d)'
  BY <1>1, Zenon DEF LifeIndInv, WorkOK, DbComplete
<1>4. stopping /\ "server" \notin held => open' = {} /\ \A d \in Connections : work'[d] = "none"
  BY <1>1, Zenon DEF LifeIndInv, ServingOK
<1> QED BY <1>1, <1>2, <1>3, <1>4, HandlerStep, Zenon

LEMMA LifeAnswerStep ==
  ASSUME LifeIndInv, NEW c \in Connections, Answer(c)
  PROVE  LifeIndInv'
<1>1. /\ UNCHANGED <<phase, held, ready, stopping, db, starts, leaseVars>>
      /\ work[c] # "none" /\ work' = [work EXCEPT ![c] = "none"]
      /\ open' \subseteq open
  BY Zenon DEF Answer, AfterAnswer
<1>2. open' \subseteq Connections /\ work' \in [Connections -> Work]
  BY <1>1, Zenon DEF LifeIndInv, LifecycleTypeOK, Work
<1>3. \A d \in Connections : work'[d] = "none" \/ work'[d] = work[d]
  BY <1>1, Zenon DEF LifeIndInv, LifecycleTypeOK
<1>4. \A d \in Connections : WorkOK(d)'
  BY <1>1, <1>3, Zenon DEF LifeIndInv, WorkOK, DbComplete
<1>5. stopping /\ "server" \notin held => open' = {} /\ \A d \in Connections : work'[d] = "none"
  BY <1>1, <1>3, Zenon DEF LifeIndInv, ServingOK
<1> QED BY <1>1, <1>2, <1>4, <1>5, HandlerStep, Zenon

LEMMA HandleMessageStep ==
  ASSUME LifeIndInv, NEW c \in Connections, NEW kind \in Work \ {"none"}, HandleMessage(c, kind)
  PROVE  LifeIndInv'
<1>1. /\ UNCHANGED <<phase, held, ready, stopping, db, starts, leaseVars>>
      /\ c \in open
      /\ \/ Admitted(kind) /\ work' = [work EXCEPT ![c] = kind] /\ open' = open
         \/ work' = work /\ open' \subseteq open
  BY Zenon DEF HandleMessage, AfterAnswer
<1>2. open' \subseteq Connections /\ work' \in [Connections -> Work]
  BY <1>1, Zenon DEF LifeIndInv, LifecycleTypeOK
<1>3. stopping => "server" \in held
  BY <1>1, Zenon DEF LifeIndInv, ServingOK
<1>4. ASSUME NEW d \in Connections PROVE WorkOK(d)'
  <2>1. CASE work'[d] = work[d]
    BY <1>1, <2>1, Zenon DEF LifeIndInv, WorkOK, DbComplete
  <2>2. CASE Admitted(kind) /\ work'[d] = kind
    <3>1. kind \in {"client", "peer"} => "crdt" \in held
      BY <2>2, Zenon DEF Admitted, Work
    <3>2. kind = "client" => ready
      BY <2>2, Zenon DEF Admitted
    <3>3. "crdt" \in held => "server" \in held /\ DbComplete /\ phase # "down"
      BY Zenon DEF LifeIndInv, HeldOK, DbOK
    <3>4. DbComplete' <=> DbComplete
      BY <1>1, Zenon DEF DbComplete
    <3>5. kind = "client" => phase \in {"ready", "releasing"} /\ (ready \/ stopping)
      BY <3>1, <3>2, <3>3, Zenon DEF LifeIndInv, ServingOK
    <3> QED BY <1>1, <2>2, <3>1, <3>3, <3>4, <3>5, Zenon DEF WorkOK
  <2> QED BY <1>1, <2>1, <2>2, Zenon DEF LifeIndInv, LifecycleTypeOK
<1> QED BY <1>1, <1>2, <1>3, <1>4, HandlerStep, Zenon

-----------------------------------------------------------------------------
(* The theorems *)

LEMMA LifeInitIndInv ==
  ASSUME LifecycleInit
  PROVE  LifeIndInv
<1>1. LeaseTypeOK /\ LeaseOK /\ manager = "off"
  <2>1. healthy \in BOOLEAN /\ overtaken \in BOOLEAN
    BY Zenon DEF LifecycleInit, LeaseInit
  <2> QED BY <2>1, LeaseAssumption DEF LifecycleInit, LeaseInit, LeaseTypeOK, LeaseOK
<1>2. LifecycleTypeOK
  <2>1. ready \in BOOLEAN /\ stopping \in BOOLEAN
    BY Zenon DEF LifecycleInit
  <2>2. db \in [tables : 0 .. Tables, version : 0 .. 1, identity : 0 .. MaxStarts, clock : BOOLEAN]
    BY LifecycleAssumption DEF LifecycleInit, Tables
  <2>3. phase \in Phases /\ held \subseteq Resources /\ open \subseteq Connections
        /\ work \in [Connections -> Work] /\ starts \in 0 .. MaxStarts
    BY LifecycleAssumption DEF LifecycleInit, Phases, Work
  <2> QED BY <1>1, <2>1, <2>2, <2>3, Zenon DEF LifecycleTypeOK
<1>3. HeldOK /\ DbOK
  BY DEF LifecycleInit, HeldOK, DbOK
<1>4. ServingOK
  BY <1>1, Zenon DEF LifecycleInit, ServingOK
<1>5. \A c \in Connections : WorkOK(c)
  BY Zenon DEF LifecycleInit, WorkOK
<1> QED BY <1>1, <1>2, <1>3, <1>4, <1>5, Zenon DEF LifeIndInv

LEMMA LifeNextIndInv ==
  ASSUME LifeIndInv, [LifecycleNext]_lifecycleVars
  PROVE  LifeIndInv'
<1>1. CASE StartStep
  BY <1>1, CreateRepositoryStep, DbStep, OpenRepositoryStep, RestoreStep, BindStep, DiscoverStep,
     CoordinateStep, JoinClusterStep, ReconcileStep, Zenon DEF StartStep
<1>2. CASE Handlers
  BY <1>2, AcceptStep, LifeAnswerStep, HangUpStep, HandleMessageStep, Zenon DEF Handlers
<1>3. CASE UNCHANGED lifecycleVars
  <2>1. UNCHANGED nodeVars /\ UNCHANGED leaseVars
    BY <1>3, Zenon DEF lifecycleVars
  <2>2. LeaseInv' /\ manager' = manager
    BY <2>1, SameLease, Zenon DEF LifeIndInv, LifecycleTypeOK, LeaseInv
  <2> QED BY <2>1, <2>2, LeaseStep, Zenon
<1> QED BY <1>1, <1>2, <1>3, LaunchStep, StartFailsStep, StopStep, ReleaseStep, ExitStep,
   LifeCrashStep,
           LeaseLoopStep, EtcdStep DEF LifecycleNext

\* The state of a node, of its database and of its lease keep their shape.
THEOREM LifecycleTypeCorrect == LifecycleSpec => []LifecycleTypeOK
<1>1. LifeIndInv => LifecycleTypeOK
  BY Zenon DEF LifeIndInv
<1> QED BY <1>1, LifeInitIndInv, LifeNextIndInv, PTL DEF LifecycleSpec

\* The CRDT service is entered only on top of a durable schema, identity and clock,
\* and by clients only in a node that has reconciled, wherever earlier starts were
\* interrupted.
THEOREM OnlyRecoveredServes == LifecycleSpec => []ServesRecovered
<1>1. LifeIndInv => ServesRecovered
  BY Zenon DEF LifeIndInv, WorkOK, DbComplete, ServesRecovered
<1> QED BY <1>1, LifeInitIndInv, LifeNextIndInv, PTL DEF LifecycleSpec

\* No handler and no connection outlives the repository that stop() closes.
THEOREM QuietOnceClosed == LifecycleSpec => []ClosedIsQuiet
<1>1. LifeIndInv => ClosedIsQuiet
  BY Zenon DEF LifeIndInv, ServingOK, HeldOK, ClosedIsQuiet
<1> QED BY <1>1, LifeInitIndInv, LifeNextIndInv, PTL DEF LifecycleSpec

\* The lease is renewed only while server and repository are open, along every
\* path of start(), its failure and stop().
THEOREM LeaseNeedsServer == LifecycleSpec => []RenewsWhileBound
<1>1. LifeIndInv => RenewsWhileBound
  BY Zenon DEF LifeIndInv, ServingOK, HeldOK, RenewsWhileBound
<1> QED BY <1>1, LifeInitIndInv, LifeNextIndInv, PTL DEF LifecycleSpec

\* A live lease reported healthy is the one the member key hangs on, unless etcd
\* carried out an abandoned registration after a later one.
THEOREM HealthyLeaseIsKey == LifecycleSpec => []HealthyIsRegistered
<1>1. LifeIndInv => HealthyIsRegistered
  BY Zenon DEF LifeIndInv, LeaseOK, HealthyIsRegistered
<1> QED BY <1>1, LifeInitIndInv, LifeNextIndInv, PTL DEF LifecycleSpec
=============================================================================
