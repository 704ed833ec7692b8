------------------------ MODULE DurableReplicaProofs ------------------------
(***************************************************************************)
(* The safety properties of DurableReplica, for any keys, actors, handlers *)
(* and bounds, with crashes anywhere; and DurableReplica implements        *)
(* AtomicReplica, in which a mutation and a merge are single steps.        *)
(***************************************************************************)
EXTENDS DurableReplica, CausalEntriesProofs

Good(w, k, e) == Exact(w, k, e) /\ Within(w, e.version)

\* The mutations there will be once handler t has committed what it has staged.
Staged(t) == pc[t] = "commit" /\ request[t].kind = "mutate"
History(t) == IF Staged(t) THEN [written EXCEPT ![Self] = Append(@, request[t].key)] ELSE written

\* Mutation i of the node is durable, and it is in memory.
Kept(i) ==
  i \in 1..Len(written[Self]) /\ i \in memory[written[Self][i]].dots[Self]

\* A handler between the lock of its key and the end of its installation.
Holding(t) == pc[t] \in {"clock", "commit", "install"}

TaskOK(t) ==
  /\ Holding(t) => /\ keyLock[request[t].key] = t
                   /\ EntryLeq(memory[request[t].key], entry[t])
  /\ pc[t] \in {"commit", "install"} => /\ clockLock = t
                                        /\ Leq(frontier, clock[t])
                                        /\ Leq(entry[t].context, clock[t])
  /\ pc[t] # "idle" => Good(History(t), request[t].key, entry[t])
  /\ pc[t] \in {"key", "clock"} => entry[t].context[Self] <= Len(written[Self])
  /\ pc[t] = "commit" => clock[t][Self] = Len(History(t)[Self])
  /\ Staged(t) => entry[t].version[Self] = Len(written[Self]) + 1
  /\ pc[t] = "install" => /\ disk[request[t].key] = entry[t]
                          /\ diskClock = clock[t]
                          /\ request[t].kind = "mutate" =>
                               entry[t].version[Self] \in entry[t].dots[Self]
  /\ pc[t] \in {"observe", "respond"} => /\ Leq(entry[t].context, frontier)
                                         /\ request[t].kind = "mutate" =>
                                              Kept(entry[t].version[Self])

\* Only a handler that holds it has the lock of a key or of the clock.
LocksOK ==
  /\ \A k \in Keys : keyLock[k] # NoTask => Holding(keyLock[k]) /\ request[keyLock[k]].key = k
  /\ clockLock # NoTask => pc[clockLock] \in {"commit", "install"}

\* Memory and disk agree except while a handler installs, and the clock covers
\* the entries.
MirrorOK ==
  /\ up => \A k \in Keys : (keyLock[k] = NoTask \/ pc[keyLock[k]] # "install")
                             => memory[k] = disk[k]
  /\ up /\ (clockLock = NoTask \/ pc[clockLock] # "install") => frontier = diskClock
  /\ ~up => /\ memory = [k \in Keys |-> NoEntry] /\ frontier = Zero
            /\ \A t \in Tasks : pc[t] = "idle"
  /\ \A k \in Keys : Leq(memory[k].context, frontier) /\ Leq(disk[k].context, diskClock)

\* The entries tell which mutations they contain, the durable ones contain all
\* mutations of the node, and its clock counts them.
HistoryOK ==
  /\ \A k \in Keys : /\ Good(written, k, disk[k]) /\ Good(written, k, memory[k])
                     /\ OwnComplete(written, k, disk[k], Self)
  /\ diskClock[Self] = Len(written[Self])
  /\ exposed <= Len(written[Self])
  /\ \A i \in acked : i \in 1..Len(written[Self]) /\ (up => Kept(i))

\* The inductive invariant.
IndInv ==
  TypeOK /\ LocksOK /\ MirrorOK /\ HistoryOK /\ \A t \in Tasks : TaskOK(t)
-----------------------------------------------------------------------------
(* What the invariant says *)

LEMMA Types ==
  ASSUME TypeOK
  PROVE  /\ written \in Histories /\ Self \in Actors
         /\ \A a \in Actors : Len(written[a]) \in Nat
         /\ frontier \in Vector /\ diskClock \in Vector
         /\ \A k \in Keys : memory[k] \in Entry /\ disk[k] \in Entry
         /\ \A t \in Tasks : /\ entry[t] \in Entry /\ clock[t] \in Vector
                             /\ pc[t] # "idle" => request[t] \in Request /\ request[t].key \in Keys
<1>1. written \in Histories /\ \A a \in Actors : Len(written[a]) \in Nat
  BY DEF TypeOK, Histories
<1> QED BY <1>1, ReplicaAssumption, Zenon DEF TypeOK, Request

\* The clock in memory never gets ahead of the durable one.
LEMMA FrontierDurable ==
  ASSUME IndInv
  PROVE  Leq(frontier, diskClock)
<1>1. TypeOK /\ MirrorOK /\ LocksOK
  BY Zenon DEF IndInv
<1>2. frontier \in Vector /\ diskClock \in Vector
  BY <1>1, Types, Zenon
<1>3. CASE ~up
  BY <1>1, <1>2, <1>3, NoEntryIsEntry, Zenon DEF MirrorOK
<1>4. CASE up /\ (clockLock = NoTask \/ pc[clockLock] # "install")
  BY <1>1, <1>2, <1>4, LeqOrder, Zenon DEF MirrorOK
<1>5. CASE clockLock # NoTask /\ pc[clockLock] = "install"
  <2>1. clockLock \in Tasks
    BY <1>1, <1>5, Zenon DEF TypeOK
  <2> QED BY <1>5, <2>1, Zenon DEF IndInv, TaskOK
<1> QED BY <1>3, <1>4, <1>5, Zenon

\* A handler that holds the lock of its key and has not committed finds the same
\* entry in memory and on disk.
LEMMA HolderMirror ==
  ASSUME IndInv, NEW t \in Tasks, pc[t] \in {"clock", "commit"}
  PROVE  /\ up /\ memory[request[t].key] = disk[request[t].key]
         /\ pc[t] = "commit" => frontier = diskClock
<1>1. TypeOK /\ MirrorOK /\ TaskOK(t)
  BY Zenon DEF IndInv
<1>2. up
  BY <1>1, Zenon DEF MirrorOK
<1>3. request[t].key \in Keys /\ keyLock[request[t].key] = t
  BY <1>1, Types, Zenon DEF TaskOK, Holding
<1>4. pc[t] = "commit" => clockLock = t
  BY <1>1, Zenon DEF TaskOK
<1> QED BY <1>1, <1>2, <1>3, <1>4, Zenon DEF MirrorOK

\* Handlers are untouched by what another handler t does under locks of its own
\* that changes neither memory nor disk.
LEMMA OthersUntouched ==
  ASSUME IndInv, NEW t \in Tasks, NEW u \in Tasks, u # t,
         UNCHANGED <<diskVars, memory, frontier>>,
         pc'[u] = pc[u], request'[u] = request[u], entry'[u] = entry[u], clock'[u] = clock[u],
         \A k \in Keys : keyLock'[k] = keyLock[k] \/ keyLock[k] \in {NoTask, t},
         clockLock' = clockLock \/ clockLock \in {NoTask, t}
  PROVE  TaskOK(u)'
<1>1. TaskOK(u) /\ TypeOK
  BY Zenon DEF IndInv
<1>2. u # NoTask /\ (pc[u] # "idle" => request[u].key \in Keys)
  BY <1>1, Types, ReplicaAssumption, Zenon
<1>3. History(u)' = History(u) /\ (Staged(u)' <=> Staged(u)) /\ (Holding(u)' <=> Holding(u))
  BY Zenon DEF History, Staged, diskVars, Holding
<1>4. Holding(u) => keyLock'[request[u].key] = u
  BY <1>1, <1>2, Zenon DEF TaskOK, Holding
<1>5. pc[u] \in {"commit", "install"} => clockLock' = u
  BY <1>1, <1>2, Zenon DEF TaskOK
<1>6. Kept(entry[u].version[Self])' <=> Kept(entry[u].version[Self])
  BY Zenon DEF Kept, diskVars
<1> QED BY <1>1, <1>3, <1>4, <1>5, <1>6, Zenon DEF TaskOK, diskVars

\* The invariant when handler t takes a step that changes neither memory nor disk.
LEMMA QuietStep ==
  ASSUME IndInv, TypeOK', NEW t \in Tasks, NEW x, pc' = [pc EXCEPT ![t] = x],
         pc[t] # "install", x # "install", up, UNCHANGED <<diskVars, memoryVars>>,
         \A u \in Tasks \ {t} : /\ request'[u] = request[u] /\ entry'[u] = entry[u]
                                /\ clock'[u] = clock[u],
         \A k \in Keys : keyLock'[k] = keyLock[k] \/ keyLock[k] \in {NoTask, t},
         clockLock' = clockLock \/ clockLock \in {NoTask, t},
         LocksOK', TaskOK(t)',
         exposed' <= Len(written[Self]), \A i \in acked' : Kept(i)
  PROVE  IndInv'
<1>1. TypeOK /\ LocksOK /\ MirrorOK /\ HistoryOK /\ \A u \in Tasks : TaskOK(u)
  BY Zenon DEF IndInv
<1>2. pc \in [Tasks -> {"idle", "key", "clock", "commit", "install", "observe", "respond"}]
      /\ keyLock \in [Keys -> Tasks \cup {NoTask}] /\ keyLock' \in [Keys -> Tasks \cup {NoTask}]
      /\ clockLock \in Tasks \cup {NoTask} /\ clockLock' \in Tasks \cup {NoTask}
  BY <1>1, Zenon DEF TypeOK
<1>3. \A u \in Tasks : TaskOK(u)'
  BY <1>2, OthersUntouched, Zenon DEF memoryVars
<1>4. MirrorOK'
  <2>1. ASSUME NEW k \in Keys, keyLock'[k] = NoTask \/ pc'[keyLock'[k]] # "install"
        PROVE  memory[k] = disk[k]
    <3>1. keyLock[k] = NoTask \/ pc[keyLock[k]] # "install"
      BY <1>2, <2>1, Zenon
    <3> QED BY <1>1, <3>1, Zenon DEF MirrorOK
  <2>2. ASSUME clockLock' = NoTask \/ pc'[clockLock'] # "install"
        PROVE  frontier = diskClock
    <3>1. clockLock = NoTask \/ pc[clockLock] # "install"
      BY <1>2, <2>2, Zenon
    <3> QED BY <1>1, <3>1, Zenon DEF MirrorOK
  <2> QED BY <1>1, <2>1, <2>2, Zenon DEF MirrorOK, diskVars, memoryVars
<1>5. HistoryOK'
  <2>1. \A i \in acked' : Kept(i)' /\ i \in 1..Len(written'[Self])
    BY Zenon DEF Kept, diskVars, memoryVars
  <2> QED BY <1>1, <2>1, Zenon DEF HistoryOK, diskVars, memoryVars
<1> QED BY <1>3, <1>4, <1>5, Zenon DEF IndInv

\* The invariant when a handler that holds no lock takes such a step.
LEMMA FreeStep ==
  ASSUME IndInv, TypeOK', NEW t \in Tasks, NEW x, pc' = [pc EXCEPT ![t] = x],
         ~Holding(t), x \notin {"clock", "commit", "install"}, up,
         UNCHANGED <<diskVars, memoryVars, lockVars>>,
         \A u \in Tasks \ {t} : /\ request'[u] = request[u] /\ entry'[u] = entry[u]
                                /\ clock'[u] = clock[u],
         TaskOK(t)',
         exposed' <= Len(written[Self]), \A i \in acked' : Kept(i)
  PROVE  IndInv'
<1>1. LocksOK /\ TypeOK
  BY Zenon DEF IndInv
<1>2. LocksOK'
  <2>1. ASSUME NEW k \in Keys, keyLock'[k] # NoTask
        PROVE  Holding(keyLock[k])' /\ request'[keyLock[k]].key = k
    <3>1. keyLock[k] \in Tasks /\ Holding(keyLock[k]) /\ request[keyLock[k]].key = k
      BY <1>1, <2>1 DEF LocksOK, TypeOK, lockVars
    <3>2. keyLock[k] # t
      BY <3>1, Zenon
    <3> QED BY <1>1, <3>1, <3>2 DEF Holding, TypeOK, lockVars
  <2>2. ASSUME clockLock' # NoTask
        PROVE  pc'[clockLock] \in {"commit", "install"}
    <3>1. clockLock \in Tasks /\ pc[clockLock] \in {"commit", "install"}
      BY <1>1, <2>2, Zenon DEF LocksOK, TypeOK, lockVars
    <3>2. clockLock # t
      BY <3>1, Zenon DEF Holding
    <3> QED BY <1>1, <3>1, <3>2, Zenon DEF TypeOK
  <2> QED BY <2>1, <2>2, Zenon DEF LocksOK, lockVars
<1>3. pc[t] # "install" /\ x # "install"
  BY Zenon DEF Holding
<1>4. /\ \A k \in Keys : keyLock'[k] = keyLock[k]
      /\ clockLock' = clockLock
  BY Zenon DEF lockVars
<1> QED BY <1>2, <1>3, <1>4, QuietStep, Zenon

LEMMA AckedKept ==
  ASSUME IndInv, up
  PROVE  exposed <= Len(written[Self]) /\ \A i \in acked : Kept(i)
BY Zenon DEF IndInv, HistoryOK

\* A request arrives with an entry that does not go beyond what was written.
LEMMA StartStep ==
  ASSUME IndInv, NEW t \in Tasks, NEW kind \in {"mutate", "merge", "context", "read", "error"},
         NEW k \in Keys, NEW e \in Entry, NEW where \in {"key", "observe", "respond"},
         Start(t, kind, k, e, where), Good(written, k, e),
         where = "key" => e.context[Self] <= Len(written[Self]),
         where # "key" => Leq(e.context, frontier) /\ kind # "mutate"
  PROVE  IndInv'
<1>1. TypeOK /\ up /\ pc[t] = "idle" /\ pc' = [pc EXCEPT ![t] = where]
      /\ request' = [request EXCEPT ![t] = [kind |-> kind, key |-> k]]
      /\ entry' = [entry EXCEPT ![t] = e]
      /\ UNCHANGED <<diskVars, memoryVars, lockVars, clock, history>>
  BY Zenon DEF IndInv, Start
<1>2. [kind |-> kind, key |-> k] \in Request /\ [kind |-> kind, key |-> k] # NoRequest
  BY ReplicaAssumption DEF Request
<1>3. TypeOK'
  BY <1>1, <1>2, Zenon DEF TypeOK, diskVars, memoryVars, lockVars, history
<1>4. pc'[t] = where /\ request'[t].kind = kind /\ request'[t].key = k /\ entry'[t] = e
      /\ clock'[t] = clock[t]
  BY <1>1, Zenon DEF TypeOK
<1>5. TaskOK(t)'
  <2>1. ~Staged(t)' /\ History(t)' = written'
    BY <1>4, Zenon DEF History, Staged
  <2>2. written' = written /\ frontier' = frontier
    BY <1>1, Zenon DEF diskVars, memoryVars
  <2> QED BY <1>4, <2>1, <2>2, Zenon DEF TaskOK, Holding
<1>6. \A u \in Tasks \ {t} : request'[u] = request[u] /\ entry'[u] = entry[u] /\ clock'[u] = clock[u]
  BY <1>1, Zenon DEF TypeOK
<1>7. ~Holding(t)
  BY <1>1, Zenon DEF Holding
<1>8. exposed' <= Len(written[Self]) /\ \A i \in acked' : Kept(i)
  BY <1>1, AckedKept, Zenon DEF history
<1> QED BY <1>1, <1>3, <1>5, <1>6, <1>7, <1>8, FreeStep, Zenon

LEMMA OutsideResult ==
  ASSUME IndInv, NEW v \in Outside
  PROVE  v \in Vector /\ Within(written, v)
<1>1. TypeOK /\ HistoryOK
  BY Zenon DEF IndInv
<1>2. exposed \in Nat /\ exposed <= Len(written[Self]) /\ \A a \in Actors : Len(written[a]) \in Nat
  BY <1>1, Types, Zenon DEF HistoryOK, TypeOK
<1>3. MaxOf(MaxWrites, MaxOthers) \in Nat
  BY ReplicaAssumption, Zenon DEF MaxOf
<1>4. v \in Vector /\ v[Self] <= exposed /\ \A o \in Others : v[o] <= Len(written[o])
  BY <1>3 DEF Outside, Vector
<1>5. ASSUME NEW a \in Actors PROVE v[a] <= Len(written[a])
  <2>1. v[a] \in Nat
    BY <1>4, Zenon DEF Vector
  <2>2. CASE a = Self
    BY <1>2, <1>4, <2>1, <2>2
  <2>3. CASE a # Self
    BY <1>4, <2>3, Zenon DEF Others
  <2> QED BY <2>2, <2>3, Zenon
<1> QED BY <1>4, <1>5, Zenon DEF Within

LEMMA ArrivalStep ==
  ASSUME IndInv, NEW t \in Tasks, Arrival(t)
  PROVE  IndInv'
<1>1. TypeOK /\ HistoryOK /\ MirrorOK /\ written \in Histories /\ Self \in Actors
      /\ \A a \in Actors : Len(written[a]) \in Nat
  BY Types, Zenon DEF IndInv
<1>2. ASSUME NEW k \in Keys, NEW v \in Outside,
             BeginMutation(t, k, v) \/ BeginMergeMetadata(t, k, v)
      PROVE  IndInv'
  <2>1. v \in Vector /\ Within(written, v)
    BY OutsideResult, Zenon
  <2>2. OnlyContext(v) \in Entry /\ OnlyContext(v).context = v
        /\ Good(written, k, OnlyContext(v))
    BY <1>1, <2>1, NoEntryIsEntry, NothingIsExact, Zenon DEF Good
  <2>3. OnlyContext(v).context[Self] <= Len(written[Self])
    BY <1>1, <2>1, <2>2, Zenon DEF Within
  <2>4. \/ Start(t, "mutate", k, OnlyContext(v), "key")
        \/ Start(t, "context", k, OnlyContext(v), "key")
    BY <1>2, Zenon DEF BeginMutation, BeginMergeMetadata
  <2> QED BY <2>2, <2>3, <2>4, StartStep, Zenon
<1>3. ASSUME NEW k \in Keys, NEW e \in OutsideEntry(k), BeginMerge(t, k, e)
      PROVE  IndInv'
  <2>1. PICK v \in Outside, c \in Outside :
          e = [dots |-> DotsUpTo(written, k, v), version |-> v, context |-> Merge(v, c)]
    BY SMTT(15) DEF OutsideEntry
  <2>2. v \in Vector /\ Within(written, v) /\ c \in Vector /\ Within(written, c)
    BY OutsideResult, Zenon
  <2>3. DotsUpTo(written, k, v) \in Dots
    BY <1>1 DEF DotsUpTo, Dots
  <2>4. Merge(v, c) \in Vector /\ Merge(v, c)[Self] <= Len(written[Self])
    <3>1. Merge(v, c)[Self] = MaxOf(v[Self], c[Self])
      BY <1>1, Zenon DEF Merge
    <3> QED BY <1>1, <2>2, <3>1, MergeIsJoin, Zenon DEF Within, MaxOf, Vector
  <2>5. e \in Entry
    BY <2>1, <2>2, <2>3, <2>4, Zenon DEF Entry
  <2>6. Good(written, k, e)
    BY <2>1, <2>2, Zenon DEF Good, Exact
  <2>7. e.context[Self] <= Len(written[Self])
    BY <2>1, <2>4, Zenon
  <2>8. Start(t, "merge", k, e, "key")
    BY <1>3, Zenon DEF BeginMerge
  <2> QED BY <2>5, <2>6, <2>7, <2>8, StartStep, Zenon
<1>4. ASSUME NEW k \in Keys, BeginRead(t, k)
      PROVE  IndInv'
  <2>1. \E where \in {"observe", "respond"} : Start(t, "read", k, memory[k], where)
    BY <1>4, Zenon DEF BeginRead
  <2>2. memory[k] \in Entry /\ Good(written, k, memory[k]) /\ Leq(memory[k].context, frontier)
    BY <1>1, Types, Zenon DEF HistoryOK, MirrorOK
  <2> QED BY <2>1, <2>2, StartStep, Zenon
<1> QED BY <1>2, <1>3, <1>4, Zenon DEF Arrival

\* The lock of the key is taken, and the entry in memory is joined with the input.
LEMMA LockKeyStep ==
  ASSUME IndInv, NEW t \in Tasks, LockKey(t)
  PROVE  IndInv'
<1> DEFINE k == request[t].key
           e == MergeEntries(memory[k], entry[t])
<1>1. /\ TypeOK /\ HistoryOK /\ MirrorOK /\ LocksOK /\ TaskOK(t)
      /\ written \in Histories /\ Self \in Actors
      /\ \A a \in Actors : Len(written[a]) \in Nat
  BY Types, Zenon DEF IndInv
<1>2. /\ pc[t] = "key" /\ keyLock[k] = NoTask
      /\ keyLock' = [keyLock EXCEPT ![k] = t]
      /\ entry' = [entry EXCEPT ![t] = e]
      /\ pc' = [pc EXCEPT ![t] = "clock"]
      /\ UNCHANGED <<diskVars, memoryVars, clockLock, request, clock, history>>
  BY Zenon DEF LockKey, KeyFree
<1>3. up /\ k \in Keys /\ memory[k] \in Entry /\ entry[t] \in Entry /\ frontier \in Vector
      /\ diskClock \in Vector
  BY <1>1, <1>2, Types, Zenon DEF MirrorOK
<1>4. e \in Entry /\ EntryLeq(memory[k], e) /\ e.context = Merge(memory[k].context, entry[t].context)
      /\ e.version = Merge(memory[k].version, entry[t].version)
  BY <1>3, MergeEntriesResult, Zenon
<1>5. Good(written, k, memory[k]) /\ Good(written, k, entry[t])
  BY <1>1, <1>2, <1>3, Zenon DEF TaskOK, HistoryOK, History, Staged
<1>6. Exact(written, k, e)
  BY <1>1, <1>3, <1>5, MergeKeepsExact, Zenon DEF Good
<1>7. Within(written, e.version)
  <2>1. ASSUME NEW a \in Actors PROVE e.version[a] <= Len(written[a])
    <3>1. e.version[a] = MaxOf(memory[k].version[a], entry[t].version[a])
      BY <1>4, Zenon DEF Merge
    <3>2. memory[k].version[a] <= Len(written[a]) /\ entry[t].version[a] <= Len(written[a])
      BY <1>5, Zenon DEF Good, Within
    <3> QED BY <3>1, <3>2, Zenon DEF MaxOf
  <2> QED BY <2>1, Zenon DEF Within
<1>8. e.context[Self] <= Len(written[Self])
  <2>1. e.context[Self] = MaxOf(memory[k].context[Self], entry[t].context[Self])
    BY <1>1, <1>4, Zenon DEF Merge
  <2>2. entry[t].context[Self] <= Len(written[Self])
    BY <1>1, <1>2, Zenon DEF TaskOK
  <2>3. /\ memory[k].context[Self] <= frontier[Self] /\ frontier[Self] <= diskClock[Self]
        /\ diskClock[Self] = Len(written[Self])
    BY <1>1, <1>3, FrontierDurable, Zenon DEF MirrorOK, HistoryOK, Leq
  <2>4. memory[k].context[Self] \in Nat /\ frontier[Self] \in Nat /\ entry[t].context[Self] \in Nat
    BY <1>1, <1>3, Zenon DEF Entry, Vector
  <2> HIDE DEF e
  <2> QED BY <1>1, <2>1, <2>2, <2>3, <2>4 DEF MaxOf
<1> HIDE DEF e, k
<1>9. TypeOK'
  BY <1>1, <1>2, <1>3, <1>4, Zenon DEF TypeOK, diskVars, memoryVars, history
<1>10. pc'[t] = "clock" /\ request'[t].key = k /\ entry'[t] = e /\ keyLock'[k] = t
  BY <1>1, <1>2, <1>3, Zenon DEF TypeOK, k
<1>11. TaskOK(t)'
  <2>1. ~Staged(t)' /\ History(t)' = written'
    BY <1>10, Zenon DEF History, Staged
  <2>2. written' = written /\ memory' = memory
    BY <1>2, Zenon DEF diskVars, memoryVars
  <2> QED BY <1>4, <1>6, <1>7, <1>8, <1>10, <2>1, <2>2, Zenon DEF TaskOK, Holding, Good
<1>12. LocksOK'
  <2>1. ASSUME NEW j \in Keys, keyLock'[j] # NoTask
        PROVE  (Holding(keyLock[j]) /\ request[keyLock[j]].key = j)'
    <3>1. CASE j = k
      BY <1>10, <3>1, Zenon DEF Holding
    <3>2. CASE j # k
      <4>1. keyLock'[j] = keyLock[j] /\ keyLock[j] \in Tasks
        BY <1>1, <1>2, <2>1, <3>2, Zenon DEF TypeOK
      <4>2. Holding(keyLock[j]) /\ request[keyLock[j]].key = j
        BY <1>1, <2>1, <4>1, Zenon DEF LocksOK
      <4>3. keyLock[j] # t
        BY <1>2, <4>2, Zenon DEF Holding
      <4> QED BY <1>1, <1>2, <4>1, <4>2, <4>3, Zenon DEF Holding, TypeOK
    <3> QED BY <3>1, <3>2, Zenon
  <2>2. ASSUME clockLock' # NoTask PROVE pc'[clockLock'] \in {"commit", "install"}
    <3>1. clockLock \in Tasks /\ pc[clockLock] \in {"commit", "install"} /\ clockLock' = clockLock
      BY <1>1, <1>2, <2>2, Zenon DEF LocksOK, TypeOK
    <3> QED BY <1>1, <1>2, <3>1, Zenon DEF TypeOK
  <2> QED BY <2>1, <2>2, Zenon DEF LocksOK
<1>13. \A u \in Tasks \ {t} : request'[u] = request[u] /\ entry'[u] = entry[u] /\ clock'[u] = clock[u]
  BY <1>1, <1>2, Zenon DEF TypeOK
<1>14. \A j \in Keys : keyLock'[j] = keyLock[j] \/ keyLock[j] \in {NoTask, t}
  BY <1>1, <1>2, Zenon DEF TypeOK
<1>15. exposed' <= Len(written[Self]) /\ \A i \in acked' : Kept(i)
  BY <1>2, <1>3, AckedKept, Zenon DEF history
<1>16. pc[t] # "install" /\ clockLock' = clockLock /\ UNCHANGED <<diskVars, memoryVars>>
  BY <1>2, Zenon
<1> QED BY <1>2, <1>3, <1>9, <1>11, <1>12, <1>13, <1>14, <1>15, <1>16, QuietStep, Zenon

\* _error() leaves a handler with nothing but an answer to give.
LEMMA FailResult ==
  ASSUME IndInv, NEW t \in Tasks, pc[t] # "idle", Fail(t), UNCHANGED <<diskVars, memoryVars>>,
         keyLock' \in [Keys -> Tasks \cup {NoTask}], clockLock' \in Tasks \cup {NoTask},
         UNCHANGED history
  PROVE  /\ TypeOK' /\ TaskOK(t)' /\ pc' = [pc EXCEPT ![t] = "respond"]
         /\ \A u \in Tasks \ {t} : /\ request'[u] = request[u] /\ entry'[u] = entry[u]
                                   /\ clock'[u] = clock[u]
<1>1. TypeOK /\ written \in Histories /\ request[t] \in Request /\ frontier \in Vector
  BY Types, Zenon DEF IndInv
<1>2. /\ pc' = [pc EXCEPT ![t] = "respond"] /\ request' = [request EXCEPT ![t].kind = "error"]
      /\ entry' = [entry EXCEPT ![t] = NoEntry] /\ clock' = [clock EXCEPT ![t] = Zero]
  BY Zenon DEF Fail
<1>3. NoEntry \in Entry /\ Zero \in Vector /\ Leq(Zero, frontier)
  BY <1>1, NoEntryIsEntry, Zenon
<1>4. /\ request'[t] = [request[t] EXCEPT !.kind = "error"]
      /\ [request[t] EXCEPT !.kind = "error"] \in Request
  BY <1>1, <1>2, Zenon DEF TypeOK, Request
<1>5. request'[t] # NoRequest
  BY <1>4, ReplicaAssumption, Zenon
<1>6. TypeOK'
  <2>1. request' \in [Tasks -> Request \cup {NoRequest}]
    BY <1>1, <1>2, <1>4, Zenon DEF TypeOK
  <2>2. \A u \in Tasks : pc'[u] = "idle" <=> request'[u] = NoRequest
    BY <1>1, <1>2, <1>5, Zenon DEF TypeOK
  <2> QED BY <1>1, <1>2, <1>3, <2>1, <2>2, Zenon DEF TypeOK, diskVars, memoryVars, history
<1>7. pc'[t] = "respond" /\ request'[t].kind = "error" /\ entry'[t] = NoEntry
  BY <1>1, <1>2, Zenon DEF TypeOK, Request
<1>8. TaskOK(t)'
  <2>1. ~Staged(t)' /\ History(t)' = written'
    BY <1>7, Zenon DEF History, Staged
  <2>2. written' = written /\ frontier' = frontier
    BY Zenon DEF diskVars, memoryVars
  <2>3. NoEntry.version = Zero /\ NoEntry.context = Zero
    BY Zenon DEF NoEntry
  <2>4. Good(written, request'[t].key, NoEntry)
    BY <1>1, <2>3, NothingIsExact, Zenon DEF Good
  <2> QED BY <1>3, <1>7, <2>1, <2>2, <2>3, <2>4, Zenon DEF TaskOK, Holding
<1> QED BY <1>1, <1>2, <1>6, <1>8, Zenon DEF TypeOK

LEMMA RefuseStep ==
  ASSUME IndInv, NEW t \in Tasks, Refuse(t)
  PROVE  IndInv'
<1>1. TypeOK /\ MirrorOK
  BY Zenon DEF IndInv
<1>2. pc[t] = "key" /\ Fail(t) /\ UNCHANGED <<diskVars, memoryVars, lockVars, history>>
  BY Zenon DEF Refuse
<1>3. up /\ ~Holding(t)
  BY <1>1, <1>2, Zenon DEF MirrorOK, Holding
<1>4. keyLock' \in [Keys -> Tasks \cup {NoTask}] /\ clockLock' \in Tasks \cup {NoTask}
  BY <1>1, <1>2, Zenon DEF TypeOK, lockVars
<1>5. exposed' <= Len(written[Self]) /\ \A i \in acked' : Kept(i)
  BY <1>2, <1>3, AckedKept, Zenon DEF history
<1>6. /\ TypeOK' /\ TaskOK(t)' /\ pc' = [pc EXCEPT ![t] = "respond"]
      /\ \A u \in Tasks \ {t} : /\ request'[u] = request[u] /\ entry'[u] = entry[u]
                                /\ clock'[u] = clock[u]
  BY <1>2, <1>4, FailResult, Zenon
<1> QED BY <1>2, <1>3, <1>5, <1>6, FreeStep, Zenon

\* Both locks are given back by the handler that holds them.
LEMMA UnlockedLocks ==
  ASSUME IndInv, NEW t \in Tasks, pc[t] \in {"commit", "install"}, Unlocked(request[t].key),
         NEW x, pc' = [pc EXCEPT ![t] = x],
         \A u \in Tasks \ {t} : request'[u] = request[u]
  PROVE  /\ LocksOK' /\ keyLock' \in [Keys -> Tasks \cup {NoTask}] /\ clockLock' = NoTask
         /\ clockLock = t
         /\ \A j \in Keys : \/ keyLock'[j] = NoTask /\ (keyLock[j] = NoTask \/ keyLock[j] = t)
                            \/ keyLock'[j] = keyLock[j] /\ keyLock[j] \in Tasks \ {t}
<1> DEFINE k == request[t].key
<1>1. TypeOK /\ LocksOK /\ TaskOK(t) /\ k \in Keys
  BY Types, Zenon DEF IndInv
<1>2. keyLock' = [keyLock EXCEPT ![k] = NoTask] /\ clockLock' = NoTask
  BY Zenon DEF Unlocked
<1>3. clockLock = t /\ keyLock[k] = t
  BY <1>1, Zenon DEF TaskOK, Holding
<1>4. ASSUME NEW j \in Keys, j # k, keyLock[j] # NoTask
      PROVE  /\ keyLock'[j] = keyLock[j] /\ keyLock[j] \in Tasks \ {t}
             /\ (Holding(keyLock[j]) /\ request[keyLock[j]].key = j)'
  <2>1. keyLock'[j] = keyLock[j] /\ keyLock[j] \in Tasks
    BY <1>1, <1>2, <1>4, Zenon DEF TypeOK
  <2>2. Holding(keyLock[j]) /\ request[keyLock[j]].key = j
    BY <1>1, <1>4, Zenon DEF LocksOK
  <2>3. keyLock[j] # t
    BY <1>4, <2>2, Zenon
  <2> HIDE DEF k
  <2> QED BY <1>1, <2>1, <2>2, <2>3, Zenon DEF TypeOK, Holding
<1>5. ASSUME NEW j \in Keys
      PROVE  /\ keyLock'[j] # NoTask => (Holding(keyLock[j]) /\ request[keyLock[j]].key = j)'
             /\ \/ keyLock'[j] = NoTask /\ (keyLock[j] = NoTask \/ keyLock[j] = t)
                \/ keyLock'[j] = keyLock[j] /\ keyLock[j] \in Tasks \ {t}
  <2>1. CASE j = k
    <3>1. keyLock'[j] = NoTask
      BY <1>1, <1>2, <2>1, Zenon DEF TypeOK
    <3> QED BY <1>3, <2>1, <3>1, Zenon
  <2>2. CASE j # k /\ keyLock[j] = NoTask
    <3>1. keyLock'[j] = NoTask
      BY <1>1, <1>2, <2>2, Zenon DEF TypeOK
    <3> QED BY <2>2, <3>1, Zenon
  <2>3. CASE j # k /\ keyLock[j] # NoTask
    BY <1>4, <2>3, Zenon
  <2> QED BY <2>1, <2>2, <2>3, Zenon
<1>6. LocksOK'
  BY <1>2, <1>5, Zenon DEF LocksOK
<1>7. keyLock' \in [Keys -> Tasks \cup {NoTask}]
  BY <1>1, <1>2, Zenon DEF TypeOK
<1> QED BY <1>2, <1>3, <1>5, <1>6, <1>7, Zenon

LEMMA AbortStep ==
  ASSUME IndInv, NEW t \in Tasks, Abort(t)
  PROVE  IndInv'
<1>1. TypeOK /\ MirrorOK
  BY DEF IndInv
<1>2. pc[t] = "commit" /\ Unlocked(request[t].key) /\ Fail(t)
      /\ UNCHANGED <<diskVars, memoryVars, history>>
  BY Zenon DEF Abort
<1>3. up
  BY <1>1, <1>2, Zenon DEF MirrorOK
<1>4. pc' = [pc EXCEPT ![t] = "respond"] /\ \A u \in Tasks \ {t} : request'[u] = request[u]
  BY <1>1, <1>2, Zenon DEF Fail, TypeOK
<1>5. /\ LocksOK' /\ keyLock' \in [Keys -> Tasks \cup {NoTask}] /\ clockLock' = NoTask
      /\ clockLock = t
      /\ \A j \in Keys : \/ keyLock'[j] = NoTask /\ (keyLock[j] = NoTask \/ keyLock[j] = t)
                         \/ keyLock'[j] = keyLock[j] /\ keyLock[j] \in Tasks \ {t}
  BY <1>2, <1>4, UnlockedLocks, Zenon
<1>6. /\ TypeOK' /\ TaskOK(t)'
      /\ \A u \in Tasks \ {t} : /\ request'[u] = request[u] /\ entry'[u] = entry[u]
                                /\ clock'[u] = clock[u]
  BY <1>2, <1>5, FailResult, Zenon
<1>7. exposed' <= Len(written[Self]) /\ \A i \in acked' : Kept(i)
  BY <1>2, <1>3, AckedKept, Zenon DEF history
<1>8. \A j \in Keys : keyLock'[j] = keyLock[j] \/ keyLock[j] \in {NoTask, t}
  BY <1>5, Zenon
<1>9. pc[t] # "install" /\ "respond" # "install" /\ UNCHANGED <<diskVars, memoryVars>>
  BY <1>2, Zenon
<1> QED BY <1>3, <1>4, <1>5, <1>6, <1>7, <1>8, <1>9, QuietStep, Zenon

\* What staged_allocation() and staged_observe() give to handler t.
LEMMA StagedResult ==
  ASSUME IndInv, NEW t \in Tasks, pc[t] = "clock", clockLock = NoTask,
         NEW base, base = Merge(frontier, entry[t].context)
  PROVE  /\ base \in Vector /\ Leq(frontier, base) /\ Leq(entry[t].context, base)
         /\ base[Self] = Len(written[Self])
<1>1. /\ TypeOK /\ MirrorOK /\ HistoryOK /\ TaskOK(t) /\ Self \in Actors
      /\ \A a \in Actors : Len(written[a]) \in Nat
      /\ frontier \in Vector /\ entry[t] \in Entry
  BY Types, Zenon DEF IndInv
<1>2. entry[t].context \in Vector
  BY <1>1, Zenon DEF Entry
<1>3. up
  BY <1>1, Zenon DEF MirrorOK
<1>4. frontier[Self] = Len(written[Self])
  BY <1>1, <1>3, Zenon DEF MirrorOK, HistoryOK
<1>5. entry[t].context[Self] <= Len(written[Self])
  BY <1>1, Zenon DEF TaskOK
<1>6. base[Self] = MaxOf(frontier[Self], entry[t].context[Self])
  BY <1>1, Zenon DEF Merge
<1>7. base[Self] = Len(written[Self])
  BY <1>1, <1>2, <1>4, <1>5, <1>6, Zenon DEF MaxOf, Vector
<1> QED BY <1>1, <1>2, <1>7, MergeIsJoin, Zenon

\* The lock of the clock is taken.
LEMMA LockClockLocks ==
  ASSUME IndInv, NEW t \in Tasks, pc[t] = "clock", clockLock = NoTask, clockLock' = t,
         pc' = [pc EXCEPT ![t] = "commit"], UNCHANGED <<keyLock, request>>
  PROVE  LocksOK'
<1>1. TypeOK /\ LocksOK
  BY Zenon DEF IndInv
<1>2. pc'[t] = "commit"
  BY <1>1, Zenon DEF TypeOK
<1>3. ASSUME NEW j \in Keys, keyLock[j] # NoTask
      PROVE  (Holding(keyLock[j]) /\ request[keyLock[j]].key = j)'
  <2>1. keyLock[j] \in Tasks /\ Holding(keyLock[j]) /\ request[keyLock[j]].key = j
    BY <1>1, <1>3 DEF LocksOK, TypeOK
  <2> QED BY <1>1, <2>1, Zenon DEF Holding, TypeOK
<1> QED BY <1>2, <1>3, Zenon DEF LocksOK

LEMMA LockClockStep ==
  ASSUME IndInv, NEW t \in Tasks, LockClock(t)
  PROVE  IndInv'
<1> DEFINE k == request[t].key
           base == Merge(frontier, entry[t].context)
           n == Len(written[Self])
           w2 == [written EXCEPT ![Self] = Append(@, k)]
           f == Mutated(entry[t], base, Self, n + 1)
           c == WithDot(base, Self, n + 1)
<1>1. /\ TypeOK /\ MirrorOK /\ HistoryOK /\ TaskOK(t) /\ LocksOK
      /\ Self \in Actors /\ written \in Histories /\ n \in Nat
      /\ frontier \in Vector /\ entry[t] \in Entry /\ entry[t].context \in Vector
  BY Types, EntryParts, Zenon DEF IndInv
<1>2. /\ pc[t] = "clock" /\ clockLock = NoTask /\ clockLock' = t
      /\ pc' = [pc EXCEPT ![t] = "commit"]
      /\ UNCHANGED <<diskVars, memoryVars, keyLock, request, history>>
  BY Zenon DEF LockClock
<1>3. k \in Keys /\ memory[k] \in Entry /\ disk[k] \in Entry /\ up
  BY <1>1, <1>2, Types, Zenon DEF MirrorOK
<1>4. base \in Vector /\ Leq(frontier, base) /\ Leq(entry[t].context, base) /\ base[Self] = n
  BY <1>2, StagedResult, Zenon
<1>5. \/ /\ request[t].kind = "mutate"
         /\ clock' = [clock EXCEPT ![t] = c] /\ entry' = [entry EXCEPT ![t] = f]
      \/ /\ request[t].kind # "mutate"
         /\ clock' = [clock EXCEPT ![t] = base] /\ entry' = entry
  BY <1>4, Zenon DEF LockClock
<1>6. Good(written, k, entry[t]) /\ EntryLeq(memory[k], entry[t])
  BY <1>1, <1>2, Zenon DEF TaskOK, Holding, History, Staged
<1>7. OwnComplete(written, k, entry[t], Self)
  <2>1. memory[k] = disk[k] /\ OwnComplete(written, k, disk[k], Self)
    BY <1>1, <1>2, <1>3, HolderMirror, Zenon DEF HistoryOK
  <2>2. memory[k].version[Self] <= entry[t].version[Self]
    BY <1>1, <1>6, Zenon DEF EntryLeq, Leq
  <2>3. memory[k].version[Self] \in Nat /\ entry[t].version[Self] \in Nat
    BY <1>1, <1>3, Zenon DEF Entry, Vector
  <2> HIDE DEF k
  <2> QED BY SMTT(30), <1>1, <2>1, <2>2, <2>3 DEF OwnComplete
<1>8. w2 \in Histories /\ Appended(written, w2, Self, k) /\ Len(w2[Self]) = n + 1
  BY <1>1, <1>3, AppendExtends DEF Appended
<1>9. f \in Entry /\ EntryLeq(entry[t], f)
      /\ f.context = WithDot(Merge(entry[t].context, base), Self, n + 1)
  <2> HIDE DEF base, n
  <2>1. n + 1 \in Nat
    BY <1>1
  <2> QED BY SMTT(30), <1>1, <1>4, <2>1, MutatedResult
<1>10. Good(w2, k, f) /\ f.version[Self] = n + 1
  <2> DEFINE e == entry[t]
             i == n + 1
  <2>1. Exact(written, k, e) /\ Within(written, e.version)
    BY <1>6, Zenon DEF Good
  <2>2. i \in Nat /\ i = Len(written[Self]) + 1
    BY <1>1
  <2>3. /\ written \in Histories /\ w2 \in Histories /\ k \in Keys /\ e \in Entry /\ base \in Vector
        /\ Self \in Actors /\ OwnComplete(written, k, e, Self) /\ Appended(written, w2, Self, k)
        /\ f = Mutated(e, base, Self, i)
    BY <1>1, <1>3, <1>4, <1>7, <1>8, Zenon
  <2> HIDE DEF base, w2, k, e, f, i
  <2>4. Exact(w2, k, f) /\ Within(w2, f.version) /\ f.version[Self] = i
    BY <2>1, <2>2, <2>3, MutationKeepsExact
  <2> QED BY <2>4, Zenon DEF Good, i
<1>11. c \in Vector /\ Leq(frontier, c) /\ Leq(f.context, c) /\ c[Self] = n + 1
  <2> HIDE DEF base, n, f
  <2>1. n + 1 \in Nat
    BY <1>1
  <2>2. c \in Vector /\ Leq(base, c) /\ c[Self] = MaxOf(base[Self], n + 1)
    BY <1>1, <1>4, <2>1, WithDotResult, Zenon
  <2>3. Leq(frontier, c)
    BY <1>1, <1>4, <2>2, LeqOrder
  <2>4. c[Self] = n + 1
    BY <1>1, <1>4, <2>2 DEF MaxOf
  <2>5. Merge(entry[t].context, base) = base
    <3>1. ASSUME NEW a \in Actors PROVE MaxOf(entry[t].context[a], base[a]) = base[a]
      BY <1>1, <1>4 DEF Leq, Vector, MaxOf
    <3> QED BY <1>4, <3>1, Zenon DEF Merge, Vector
  <2>6. f.context = c
    BY <1>9, <2>5, Zenon
  <2> HIDE DEF c
  <2> QED BY <2>2, <2>3, <2>4, <2>6, LeqOrder, Zenon
<1> HIDE DEF k, base, w2, f, c, n
<1>12. TypeOK'
  <2>1. clock' \in [Tasks -> Vector]
    BY <1>1, <1>4, <1>5, <1>11, Zenon DEF TypeOK
  <2>2. entry' \in [Tasks -> Entry]
    BY <1>1, <1>5, <1>9, Zenon DEF TypeOK
  <2>3. pc' \in [Tasks -> {"idle", "key", "clock", "commit", "install", "observe", "respond"}]
    BY <1>1, <1>2, Zenon DEF TypeOK
  <2>4. \A u \in Tasks : pc'[u] = "idle" <=> request'[u] = NoRequest
    BY <1>1, <1>2, Zenon DEF TypeOK
  <2>5. clockLock' \in Tasks \cup {NoTask}
    BY <1>2, Zenon
  <2> QED BY <1>1, <1>2, <2>1, <2>2, <2>3, <2>4, <2>5, Zenon DEF TypeOK, diskVars, memoryVars, history
<1>13. pc'[t] = "commit" /\ request'[t] = request[t] /\ written' = written /\ frontier' = frontier
       /\ memory' = memory /\ keyLock'[k] = t
  BY <1>1, <1>2, Zenon DEF TypeOK, diskVars, memoryVars, TaskOK, Holding, k
<1>14. TaskOK(t)'
  <2>1. CASE request[t].kind = "mutate"
    <3>1. clock'[t] = c /\ entry'[t] = f
      BY <1>1, <1>5, <2>1, Zenon DEF TypeOK
    <3>2. Staged(t)' /\ History(t)' = w2
      BY <1>13, <2>1, Zenon DEF Staged, History, w2, k
    <3>3. EntryLeq(memory[k], f)
      BY <1>1, <1>3, <1>6, <1>9, EntryLeqTransitive, Zenon
    <3> QED BY <1>2, <1>8, <1>10, <1>11, <1>13, <3>1, <3>2, <3>3, Zenon DEF TaskOK, Holding, k, n
  <2>2. CASE request[t].kind # "mutate"
    <3>1. clock'[t] = base /\ entry'[t] = entry[t]
      BY <1>1, <1>5, <2>2, Zenon DEF TypeOK
    <3>2. ~Staged(t)' /\ History(t)' = written
      BY <1>13, <2>2, Zenon DEF Staged, History
    <3> QED BY <1>2, <1>4, <1>6, <1>13, <3>1, <3>2, Zenon DEF TaskOK, Holding, k, n
  <2> QED BY <2>1, <2>2, Zenon
<1>15. LocksOK'
  BY <1>2, LockClockLocks, Zenon
<1>16. \A u \in Tasks \ {t} : request'[u] = request[u] /\ entry'[u] = entry[u] /\ clock'[u] = clock[u]
  BY <1>1, <1>2, <1>5, Zenon DEF TypeOK
<1>17. exposed' <= Len(written[Self]) /\ \A i \in acked' : Kept(i)
  BY <1>2, <1>3, AckedKept, Zenon DEF history
<1>18. /\ \A j \in Keys : keyLock'[j] = keyLock[j]
       /\ pc[t] # "install" /\ UNCHANGED <<diskVars, memoryVars>>
  BY <1>2, Zenon
<1> QED BY <1>2, <1>3, <1>12, <1>14, <1>15, <1>16, <1>17, <1>18, QuietStep, Zenon

\* observe() before the answer finds nothing new: the clock covers the entry.
LEMMA ObserveStep ==
  ASSUME IndInv, NEW t \in Tasks, Observe(t)
  PROVE  IndInv'
<1>1. TypeOK /\ MirrorOK /\ TaskOK(t) /\ frontier \in Vector /\ entry[t].context \in Vector
  BY Types, EntryParts, Zenon DEF IndInv
<1>2. /\ pc[t] = "observe" /\ frontier' = Merge(frontier, entry[t].context)
      /\ pc' = [pc EXCEPT ![t] = "respond"]
      /\ UNCHANGED <<diskVars, up, memory, lockVars, request, entry, clock, history>>
  BY Zenon DEF Observe
<1>3. up /\ ~Holding(t)
  BY <1>1, <1>2, Zenon DEF MirrorOK, Holding
<1>4. frontier' = frontier
  <2>1. ASSUME NEW a \in Actors PROVE MaxOf(frontier[a], entry[t].context[a]) = frontier[a]
    BY <1>1, <1>2, Zenon DEF TaskOK, Leq, Vector, MaxOf
  <2> QED BY <1>1, <1>2, <2>1, Zenon DEF Merge, Vector
<1>5. TypeOK'
  BY <1>1, <1>2, <1>4, Zenon DEF TypeOK, diskVars, lockVars, history
<1>6. pc'[t] = "respond"
  BY <1>1, <1>2, Zenon DEF TypeOK
<1>7. TaskOK(t)'
  <2>1. ~Staged(t)' /\ History(t)' = written' /\ ~Staged(t) /\ History(t) = written
    BY <1>2, <1>6, Zenon DEF History, Staged
  <2>2. Kept(entry[t].version[Self])' <=> Kept(entry[t].version[Self])
    BY <1>2, Zenon DEF Kept, diskVars
  <2> QED BY <1>1, <1>2, <1>4, <1>6, <2>1, <2>2, Zenon DEF TaskOK, Holding, diskVars
<1>8. exposed' <= Len(written[Self]) /\ \A i \in acked' : Kept(i)
  BY <1>2, <1>3, AckedKept, Zenon DEF history
<1>9. UNCHANGED <<diskVars, memoryVars, lockVars>>
  BY <1>2, <1>4, Zenon DEF memoryVars
<1> QED BY <1>2, <1>3, <1>5, <1>7, <1>8, <1>9, FreeStep, Zenon

LEMMA RespondStep ==
  ASSUME IndInv, NEW t \in Tasks, Respond(t)
  PROVE  IndInv'
<1>1. /\ TypeOK /\ MirrorOK /\ HistoryOK /\ TaskOK(t) /\ frontier \in Vector /\ diskClock \in Vector
      /\ entry[t] \in Entry /\ entry[t].context \in Vector /\ entry[t].version \in Vector
      /\ Self \in Actors /\ Len(written[Self]) \in Nat
  BY Types, EntryParts, Zenon DEF IndInv
<1>2. /\ pc[t] = "respond" /\ Finish(t) /\ UNCHANGED <<diskVars, memoryVars, lockVars>>
      /\ exposed' = MaxOf(exposed, Merge(frontier, entry[t].context)[Self])
      /\ acked' = IF request[t].kind = "mutate" THEN acked \cup {entry[t].version[Self]} ELSE acked
  BY Zenon DEF Respond
<1>3. /\ pc' = [pc EXCEPT ![t] = "idle"] /\ request' = [request EXCEPT ![t] = NoRequest]
      /\ entry' = [entry EXCEPT ![t] = NoEntry] /\ clock' = [clock EXCEPT ![t] = Zero]
  BY <1>2, Zenon DEF Finish
<1>4. up /\ ~Holding(t)
  BY <1>1, <1>2, Zenon DEF MirrorOK, Holding
<1>5. /\ Merge(frontier, entry[t].context)[Self] = MaxOf(frontier[Self], entry[t].context[Self])
      /\ frontier[Self] <= diskClock[Self] /\ entry[t].context[Self] <= frontier[Self]
      /\ diskClock[Self] = Len(written[Self])
      /\ frontier[Self] \in Nat /\ entry[t].context[Self] \in Nat /\ exposed \in Nat
  BY <1>1, <1>2, FrontierDurable, Zenon DEF Merge, Leq, TaskOK, HistoryOK, Vector, TypeOK
<1>6. exposed' \in Nat /\ exposed' <= Len(written[Self])
  BY <1>1, <1>2, <1>4, <1>5, AckedKept, Zenon DEF MaxOf
<1>7. acked' \in SUBSET Nat /\ \A i \in acked' : Kept(i)
  <2>1. \A i \in acked : Kept(i)
    BY <1>4, AckedKept, Zenon
  <2>2. request[t].kind = "mutate" => Kept(entry[t].version[Self])
    BY <1>1, <1>2, Zenon DEF TaskOK
  <2>3. entry[t].version[Self] \in Nat
    BY <1>1, Zenon DEF Vector
  <2> QED BY <1>1, <1>2, <2>1, <2>2, <2>3, Zenon DEF TypeOK
<1>8. TypeOK'
  BY <1>1, <1>2, <1>3, <1>6, <1>7, NoEntryIsEntry, Zenon DEF TypeOK, diskVars, memoryVars, lockVars
<1>9. TaskOK(t)'
  <2>1. pc'[t] = "idle"
    BY <1>1, <1>3, Zenon DEF TypeOK
  <2> QED BY <2>1, Zenon DEF TaskOK, Holding, Staged
<1>10. \A u \in Tasks \ {t} : request'[u] = request[u] /\ entry'[u] = entry[u] /\ clock'[u] = clock[u]
  BY <1>1, <1>3, Zenon DEF TypeOK
<1> QED BY <1>2, <1>3, <1>4, <1>6, <1>7, <1>8, <1>9, <1>10, FreeStep, Zenon

\* A longer history keeps what is durable and what is in memory.
LEMMA KeptGrows ==
  ASSUME TypeOK, written' \in Histories, Extends(written, written'), NEW i, Kept(i),
         UNCHANGED memory
  PROVE  Kept(i)'
<1>1. Self \in Actors /\ Len(written[Self]) \in Nat /\ Len(written'[Self]) \in Nat
  BY Types, ReplicaAssumption DEF Histories
<1>2. i \in 1..Len(written[Self]) /\ i \in memory[written[Self][i]].dots[Self]
  BY Zenon DEF Kept
<1>3. Len(written[Self]) <= Len(written'[Self]) /\ written'[Self][i] = written[Self][i]
  BY <1>1, <1>2, Zenon DEF Extends
<1> QED BY SMTT(30), <1>1, <1>2, <1>3 DEF Kept

LEMMA EntryLeqReflexive ==
  ASSUME NEW e \in Entry
  PROVE  EntryLeq(e, e)
<1>1. e.version \in Vector /\ e.context \in Vector
  BY Zenon DEF Entry
<1>2. Leq(e.version, e.version) /\ Leq(e.context, e.context)
  BY <1>1, LeqOrder, Zenon
<1> QED BY <1>2, Zenon DEF EntryLeq

LEMMA GoodGrows ==
  ASSUME NEW w \in Histories, NEW w2 \in Histories, Extends(w, w2), NEW k \in Keys,
         NEW e \in Entry, Good(w, k, e)
  PROVE  Good(w2, k, e)
BY WritesKeepExact, Zenon DEF Good

LEMMA RestoredClock ==
  ASSUME IndInv
  PROVE  Restored = diskClock
<1>1. diskClock \in Vector /\ \A k \in Keys : disk[k].context \in Vector /\ Leq(disk[k].context, diskClock)
  BY Types, EntryParts, Zenon DEF IndInv, MirrorOK
<1>2. ASSUME NEW a \in Actors PROVE Restored[a] = diskClock[a]
  <2> DEFINE S == {diskClock[a]} \cup {disk[k].context[a] : k \in Keys}
             P(n) == n >= diskClock[a] /\ \A k \in Keys : n >= disk[k].context[a]
  <2>1. diskClock[a] \in Nat /\ \A k \in Keys : disk[k].context[a] \in Nat /\ disk[k].context[a] <= diskClock[a]
    BY <1>1, Zenon DEF Vector, Leq
  <2>2. diskClock[a] \in S /\ P(diskClock[a])
    BY <2>1
  <2>3. \A n \in S : P(n) => n = diskClock[a]
    BY <2>1
  <2>4. Restored[a] = CHOOSE n \in S : P(n)
    BY Zenon DEF Restored
  <2> HIDE DEF S, P
  <2> QED BY <2>2, <2>3, <2>4, Zenon
<1> QED BY <1>1, <1>2, Zenon DEF Restored, Vector

LEMMA CommitStep ==
  ASSUME IndInv, NEW t \in Tasks, Commit(t)
  PROVE  /\ IndInv'
         /\ \A k \in Keys : EntryLeq(disk[k], disk'[k])
<1> DEFINE k == request[t].key
<1>1. /\ TypeOK /\ MirrorOK /\ HistoryOK /\ LocksOK /\ TaskOK(t) /\ Self \in Actors
      /\ written \in Histories /\ \A a \in Actors : Len(written[a]) \in Nat
      /\ frontier \in Vector /\ diskClock \in Vector /\ entry[t] \in Entry /\ clock[t] \in Vector
      /\ \A j \in Keys : memory[j] \in Entry /\ disk[j] \in Entry
  BY Types, Zenon DEF IndInv
<1>2. /\ pc[t] = "commit" /\ diskClock' = clock[t] /\ disk' = [disk EXCEPT ![k] = entry[t]]
      /\ written' = History(t)
      /\ pc' = [pc EXCEPT ![t] = "install"]
      /\ UNCHANGED <<memoryVars, lockVars, request, entry, clock, history>>
  BY Zenon DEF Commit, PersistedClock, UpsertEntry, History, Staged
<1>3. k \in Keys /\ up /\ memory[k] = disk[k] /\ frontier = diskClock
  BY <1>1, <1>2, Types, HolderMirror, Zenon
<1>4. written' \in Histories /\ Extends(written, written')
  <2>1. CASE Staged(t)
    <3>1. written' = [written EXCEPT ![Self] = Append(@, k)]
      BY <1>2, <2>1, Zenon DEF History
    <3> HIDE DEF k
    <3>2. written' \in Histories /\ Appended(written, written', Self, k)
      BY <1>1, <1>3, <3>1, AppendExtends, Zenon
    <3> QED BY <1>1, <1>3, <3>2, AppendedExtends, Zenon
  <2>2. CASE ~Staged(t)
    BY <1>1, <1>2, <2>2 DEF History, Extends
  <2> QED BY <2>1, <2>2, Zenon
<1>5. /\ keyLock[k] = t /\ clockLock = t /\ EntryLeq(memory[k], entry[t])
      /\ Leq(frontier, clock[t]) /\ Leq(entry[t].context, clock[t])
      /\ Good(written', k, entry[t]) /\ clock[t][Self] = Len(written'[Self])
  BY <1>1, <1>2, Zenon DEF TaskOK, Holding
<1>6. \A a \in Actors : Len(written'[a]) \in Nat /\ Len(written[a]) <= Len(written'[a])
  BY <1>4 DEF Histories, Extends
<1>7. disk'[k] = entry[t] /\ \A j \in Keys \ {k} : disk'[j] = disk[j]
  BY <1>1, <1>3, Zenon DEF TypeOK, UpsertEntry, Commit
<1>8. ASSUME NEW j \in Keys PROVE EntryLeq(disk[j], disk'[j])
  <2>1. CASE j = k
    BY <1>3, <1>5, <1>7, <2>1, Zenon
  <2>2. CASE j # k
    <3>1. disk'[j] = disk[j] /\ disk[j] \in Entry
      BY <1>1, <1>7, <2>2, Zenon
    <3> QED BY <3>1, EntryLeqReflexive, Zenon
  <2> QED BY <2>1, <2>2, Zenon
<1>9. request[t].kind = "mutate" =>
        /\ Appended(written, written', Self, k) /\ entry[t].version[Self] = Len(written'[Self])
        /\ entry[t].version[Self] \in entry[t].dots[Self]
  <2> SUFFICES ASSUME request[t].kind = "mutate"
               PROVE  /\ Appended(written, written', Self, k)
                      /\ entry[t].version[Self] = Len(written'[Self])
                      /\ entry[t].version[Self] \in entry[t].dots[Self]
    OBVIOUS
  <2>1. Staged(t)
    BY <1>2, Zenon DEF Staged
  <2>2. written' = [written EXCEPT ![Self] = Append(@, k)]
    BY <1>2, <2>1, Zenon DEF History
  <2>3. Appended(written, written', Self, k)
    <3> HIDE DEF k
    <3> QED BY <1>1, <1>3, <2>2, AppendExtends, Zenon
  <2>4. entry[t].version[Self] = Len(written[Self]) + 1
    BY <1>1, <2>1, Zenon DEF TaskOK
  <2>5. entry[t].version[Self] = Len(written'[Self]) /\ written'[Self][entry[t].version[Self]] = k
    BY <2>3, <2>4, Zenon DEF Appended
  <2>6. entry[t].dots[Self] = {i \in 1..Len(written'[Self]) :
                                 i <= entry[t].version[Self] /\ written'[Self][i] = k}
    BY <1>1, <1>5, Zenon DEF Good, Exact, DotsUpTo
  <2> QED BY SMTT(30), <1>1, <1>6, <2>3, <2>4, <2>5, <2>6
<1> HIDE DEF k
<1>10. TypeOK'
  BY <1>1, <1>2, <1>3, <1>4, Zenon DEF TypeOK, memoryVars, lockVars, history, Histories
<1>11. ASSUME NEW u \in Tasks PROVE TaskOK(u)'
  <2>1. CASE u = t
    <3>1. pc'[t] = "install" /\ request'[t] = request[t] /\ entry'[t] = entry[t] /\ clock'[t] = clock[t]
      BY <1>1, <1>2, Zenon DEF TypeOK
    <3>2. ~Staged(t)' /\ History(t)' = written'
      BY <3>1, Zenon DEF Staged, History
    <3>3. keyLock' = keyLock /\ clockLock' = clockLock /\ memory' = memory /\ frontier' = frontier
      BY <1>2, Zenon DEF lockVars, memoryVars
    <3> QED BY <1>2, <1>5, <1>7, <1>9, <2>1, <3>1, <3>2, <3>3, Zenon DEF TaskOK, Holding, k
  <2>2. CASE u # t
    <3>1. TaskOK(u) /\ pc[u] \notin {"commit", "install"}
      BY <1>5, <2>2, Zenon DEF IndInv, TaskOK
    <3>2. pc'[u] = pc[u] /\ request'[u] = request[u] /\ entry'[u] = entry[u]
          /\ keyLock' = keyLock /\ memory' = memory /\ frontier' = frontier
      BY <1>1, <1>2, <2>2, Zenon DEF TypeOK, memoryVars, lockVars
    <3>3. ~Staged(u)' /\ History(u)' = written' /\ ~Staged(u) /\ History(u) = written
      BY <3>1, <3>2, Zenon DEF Staged, History
    <3>4. pc[u] # "idle" => Good(written', request[u].key, entry[u])
      BY <1>1, <1>4, <3>1, <3>3, Types, GoodGrows, Zenon DEF TaskOK
    <3>5. pc[u] \in {"key", "clock"} => entry[u].context[Self] <= Len(written'[Self])
      <4>1. entry[u].context[Self] \in Nat
        BY <1>1, Types, Zenon DEF Entry, Vector
      <4>2. pc[u] \in {"key", "clock"} => entry[u].context[Self] <= Len(written[Self])
        BY <3>1, Zenon DEF TaskOK
      <4>3. /\ Len(written[Self]) \in Nat /\ Len(written'[Self]) \in Nat
            /\ Len(written[Self]) <= Len(written'[Self])
        BY <1>1, <1>6, Zenon
      <4> DEFINE c == entry[u].context[Self]
                 m == Len(written[Self])
                 m2 == Len(written'[Self])
      <4>4. c \in Nat /\ m \in Nat /\ m2 \in Nat /\ m <= m2
        BY <4>1, <4>3, Zenon
      <4>5. pc[u] \in {"key", "clock"} => c <= m
        BY <4>2, Zenon
      <4> HIDE DEF c, m, m2
      <4>6. pc[u] \in {"key", "clock"} => c <= m2
        BY <4>4, <4>5
      <4> QED BY <4>6, Zenon DEF c, m2
    <3>6. pc[u] \in {"observe", "respond"} /\ request[u].kind = "mutate" => Kept(entry[u].version[Self])'
      <4>1. pc[u] \in {"observe", "respond"} /\ request[u].kind = "mutate" => Kept(entry[u].version[Self])
        BY <3>1, Zenon DEF TaskOK
      <4>2. Kept(entry[u].version[Self]) => Kept(entry[u].version[Self])'
        <5>1. ASSUME NEW i, Kept(i) PROVE Kept(i)'
          BY <1>1, <1>4, <3>2, <5>1, KeptGrows, Zenon
        <5> QED BY <3>2, <5>1, Zenon DEF Kept
      <4> QED BY <4>1, <4>2, Zenon
    <3> QED BY <3>1, <3>2, <3>3, <3>4, <3>5, <3>6, Zenon DEF TaskOK, Holding
  <2> QED BY <2>1, <2>2, Zenon
<1>12. pc'[t] = "install" /\ \A u \in Tasks \ {t} : pc'[u] = pc[u]
  BY <1>1, <1>2, Zenon DEF TypeOK
<1>13. LocksOK'
  <2>1. ASSUME NEW j \in Keys, keyLock[j] # NoTask
        PROVE  (Holding(keyLock[j]) /\ request[keyLock[j]].key = j)'
    <3>1. keyLock[j] \in Tasks /\ Holding(keyLock[j]) /\ request[keyLock[j]].key = j
      BY <1>1, <2>1 DEF LocksOK, TypeOK
    <3> QED BY <1>2, <1>12, <3>1, Zenon DEF Holding, lockVars
  <2> QED BY <1>2, <1>5, <1>12, <2>1, Zenon DEF LocksOK, lockVars
<1>14. MirrorOK'
  <2>1. ASSUME NEW j \in Keys, keyLock[j] = NoTask \/ pc'[keyLock[j]] # "install"
        PROVE  memory[j] = disk'[j]
    <3>1. j # k
      BY <1>5, <1>12, <2>1, ReplicaAssumption, Zenon
    <3>2. keyLock[j] \in Tasks \cup {NoTask}
      BY <1>1, Zenon DEF TypeOK
    <3>3. keyLock[j] = NoTask \/ pc[keyLock[j]] # "install"
      BY <1>2, <1>12, <2>1, <3>2, Zenon
    <3> QED BY <1>1, <1>3, <1>7, <3>1, <3>3, Zenon DEF MirrorOK
  <2>2. ASSUME NEW j \in Keys PROVE Leq(memory[j].context, frontier) /\ Leq(disk'[j].context, clock[t])
    <3>1. CASE j = k
      BY <1>1, <1>5, <1>7, <3>1, Zenon DEF MirrorOK
    <3>2. CASE j # k
      <4>1. disk'[j] = disk[j] /\ Leq(memory[j].context, frontier) /\ Leq(disk[j].context, diskClock)
        BY <1>1, <1>7, <3>2, Zenon DEF MirrorOK
      <4>2. disk[j].context \in Vector /\ diskClock \in Vector /\ clock[t] \in Vector
            /\ Leq(diskClock, clock[t])
        BY <1>1, <1>3, <1>5, EntryParts, Zenon
      <4>3. Leq(disk[j].context, clock[t])
        BY <4>1, <4>2, LeqOrder, Zenon
      <4> QED BY <4>1, <4>3, Zenon
    <3> QED BY <3>1, <3>2, Zenon
  <2> QED BY <1>2, <1>3, <1>5, <1>12, <2>1, <2>2, ReplicaAssumption, Zenon DEF MirrorOK, memoryVars, lockVars
<1>15. HistoryOK'
  <2>1. ASSUME NEW j \in Keys PROVE Good(written', j, disk'[j]) /\ Good(written', j, memory[j])
    BY <1>1, <1>4, <1>5, <1>7, GoodGrows, Zenon DEF HistoryOK
  <2>2. ASSUME NEW j \in Keys, NEW i \in 1..Len(written'[Self]), written'[Self][i] = j
        PROVE  i <= disk'[j].version[Self]
    <3>1. CASE j = k /\ request[t].kind = "mutate"
      BY SMTT(30), <1>1, <1>6, <1>7, <1>9, <3>1
    <3>2. CASE request[t].kind # "mutate"
      <4>1. written' = written
        BY <1>2, <3>2, Zenon DEF History, Staged
      <4>2. i <= disk[j].version[Self]
        BY <1>1, <2>2, <4>1, Zenon DEF HistoryOK, OwnComplete
      <4>3. disk[j].version[Self] <= disk'[j].version[Self]
        BY <1>1, <1>8, Zenon DEF EntryLeq, Leq
      <4>4. disk'[j] \in Entry
        BY <1>10, Zenon DEF TypeOK
      <4>5. disk[j].version[Self] \in Nat /\ disk'[j].version[Self] \in Nat /\ i \in Nat
        BY <1>1, <4>4 DEF Entry, Vector
      <4> QED BY <4>2, <4>3, <4>5
    <3>3. CASE j # k /\ request[t].kind = "mutate"
      <4>1. i \in 1..Len(written[Self]) /\ written[Self][i] = j
        BY <1>1, <1>9, <2>2, <3>3 DEF Appended
      <4> QED BY <1>1, <1>7, <3>3, <4>1, Zenon DEF HistoryOK, OwnComplete
    <3> QED BY <3>1, <3>2, <3>3, Zenon
  <2>3. exposed <= Len(written'[Self])
    <3>1. exposed \in Nat
      BY <1>1, Zenon DEF TypeOK
    <3> QED BY <1>1, <1>6, <3>1 DEF HistoryOK
  <2>4. ASSUME NEW i \in acked PROVE i \in 1..Len(written'[Self]) /\ Kept(i)'
    <3>1. Kept(i)
      BY <1>3, AckedKept, Zenon
    <3>2. Kept(i)'
      BY <1>1, <1>2, <1>4, <3>1, KeptGrows, Zenon DEF memoryVars
    <3> QED BY <3>2, Zenon DEF Kept
  <2> QED BY <1>2, <1>5, <2>1, <2>2, <2>3, <2>4, Zenon DEF HistoryOK, OwnComplete, memoryVars, history
<1> QED BY <1>8, <1>10, <1>11, <1>13, <1>14, <1>15, Zenon DEF IndInv

LEMMA InstallStep ==
  ASSUME IndInv, NEW t \in Tasks, Install(t)
  PROVE  /\ IndInv'
         /\ \A j \in Keys : EntryLeq(memory[j], memory'[j])
<1> DEFINE k == request[t].key
<1>1. /\ TypeOK /\ MirrorOK /\ HistoryOK /\ LocksOK /\ TaskOK(t) /\ Self \in Actors
      /\ written \in Histories /\ \A a \in Actors : Len(written[a]) \in Nat
      /\ frontier \in Vector /\ diskClock \in Vector /\ entry[t] \in Entry /\ clock[t] \in Vector
      /\ \A j \in Keys : memory[j] \in Entry /\ disk[j] \in Entry
  BY Types DEF IndInv
<1>2. /\ pc[t] = "install" /\ memory' = [memory EXCEPT ![k] = entry[t]] /\ frontier' = clock[t]
      /\ Unlocked(k) /\ pc' = [pc EXCEPT ![t] = "observe"]
      /\ exposed' = IF request[t].kind = "mutate" THEN MaxOf(exposed, entry[t].context[Self]) ELSE exposed
      /\ UNCHANGED <<diskVars, up, request, entry, clock, acked>>
  BY Zenon DEF Install, Replace
<1>3. k \in Keys /\ up
  BY <1>1, <1>2, Types, Zenon DEF MirrorOK
<1>4. /\ keyLock[k] = t /\ clockLock = t /\ EntryLeq(memory[k], entry[t])
      /\ Leq(frontier, clock[t]) /\ Leq(entry[t].context, clock[t])
      /\ Good(written, k, entry[t]) /\ disk[k] = entry[t] /\ diskClock = clock[t]
      /\ request[t].kind = "mutate" => entry[t].version[Self] \in entry[t].dots[Self]
  BY <1>1, <1>2, Zenon DEF TaskOK, Holding, History, Staged
<1>5. /\ LocksOK' /\ keyLock' \in [Keys -> Tasks \cup {NoTask}] /\ clockLock' = NoTask
      /\ \A j \in Keys : \/ keyLock'[j] = NoTask /\ (keyLock[j] = NoTask \/ keyLock[j] = t)
                         \/ keyLock'[j] = keyLock[j] /\ keyLock[j] \in Tasks \ {t}
  BY <1>2, UnlockedLocks, Zenon
<1>6. memory'[k] = entry[t] /\ \A j \in Keys \ {k} : memory'[j] = memory[j]
  BY <1>1, <1>2, <1>3, Zenon DEF TypeOK
<1>7. pc'[t] = "observe" /\ \A u \in Tasks \ {t} : pc'[u] = pc[u]
  BY <1>1, <1>2, Zenon DEF TypeOK
<1> HIDE DEF k
<1>8. ASSUME NEW j \in Keys PROVE EntryLeq(memory[j], memory'[j])
  <2>1. CASE j = k
    BY <1>4, <1>6, <2>1, Zenon
  <2>2. CASE j # k
    <3>1. memory'[j] = memory[j] /\ memory[j] \in Entry
      BY <1>1, <1>6, <2>2, Zenon
    <3> QED BY <3>1, EntryLeqReflexive
  <2> QED BY <2>1, <2>2, Zenon
<1>9. entry[t].context[Self] \in Nat /\ entry[t].version[Self] \in Nat /\ clock[t][Self] \in Nat
      /\ exposed \in Nat /\ entry[t].context[Self] <= Len(written[Self])
  <2>1. entry[t].context[Self] \in Nat /\ entry[t].version[Self] \in Nat /\ clock[t][Self] \in Nat
        /\ exposed \in Nat
    BY <1>1, Zenon DEF Entry, Vector, TypeOK
  <2>2. entry[t].context[Self] <= clock[t][Self] /\ clock[t][Self] = Len(written[Self])
    BY <1>1, <1>4, Zenon DEF Leq, HistoryOK
  <2> QED BY <1>1, <2>1, <2>2, Zenon
<1>10. exposed' \in Nat /\ exposed' <= Len(written[Self])
  BY <1>1, <1>2, <1>9, Zenon DEF HistoryOK, MaxOf
<1>11. TypeOK'
  <2>1. memory' \in [Keys -> Entry]
    BY <1>1, <1>2, <1>3, Zenon DEF TypeOK
  <2>2. pc' \in [Tasks -> {"idle", "key", "clock", "commit", "install", "observe", "respond"}]
    BY <1>1, <1>2, Zenon DEF TypeOK
  <2>3. \A u \in Tasks : pc'[u] = "idle" <=> request'[u] = NoRequest
    BY <1>1, <1>2, <1>7, Zenon DEF TypeOK
  <2> QED BY <1>1, <1>2, <1>5, <1>10, <2>1, <2>2, <2>3, Zenon DEF TypeOK, diskVars
<1>12. ASSUME NEW i, Kept(i) PROVE Kept(i)'
  <2>1. i \in 1..Len(written[Self]) /\ i \in memory[written[Self][i]].dots[Self]
        /\ written[Self] \in Seq(Keys)
    BY <1>1, <1>12, Zenon DEF Kept, TypeOK
  <2>2. written[Self][i] \in Keys
    BY <2>1
  <2>3. memory[written[Self][i]].dots[Self] \subseteq memory'[written[Self][i]].dots[Self]
    BY <1>1, <1>8, <2>2, Zenon DEF EntryLeq
  <2> QED BY <1>2, <2>1, <2>3, Zenon DEF Kept, diskVars
<1>13. request[t].kind = "mutate" => Kept(entry[t].version[Self])'
  <2> SUFFICES ASSUME request[t].kind = "mutate" PROVE Kept(entry[t].version[Self])'
    OBVIOUS
  <2> DEFINE i == entry[t].version[Self]
  <2>1. i \in entry[t].dots[Self]
    BY <1>4, Zenon
  <2>2. i \in 1..Len(written[Self]) /\ written[Self][i] = k
    <3>1. entry[t].dots = DotsUpTo(written, k, entry[t].version) /\ Self \in Actors
      BY <1>1, <1>4, Zenon DEF Good, Exact
    <3>2. entry[t].dots[Self] = {m \in 1..Len(written[Self]) :
                                   m <= entry[t].version[Self] /\ written[Self][m] = k}
      BY <3>1, Zenon DEF DotsUpTo
    <3> HIDE DEF i
    <3> QED BY <2>1, <3>2, Zenon
  <2>3. i \in memory'[k].dots[Self]
    BY <1>6, <2>1, Zenon
  <2>4. written' = written /\ entry' = entry
    BY <1>2, Zenon DEF diskVars
  <2> QED BY <2>2, <2>3, <2>4, Zenon DEF Kept
<1>14. ASSUME NEW u \in Tasks PROVE TaskOK(u)'
  <2>0. request' = request /\ entry' = entry /\ clock' = clock /\ written' = written
        /\ disk' = disk /\ diskClock' = diskClock
    BY <1>2, Zenon DEF diskVars
  <2>1. CASE u = t
    <3>1. ~Staged(t)' /\ History(t)' = written /\ ~Holding(t)'
      BY <1>7, <2>0, Zenon DEF Staged, History, Holding
    <3>2. Leq(entry[t].context, frontier')
      BY <1>2, <1>4, Zenon
    <3> QED BY <1>4, <1>7, <1>13, <2>0, <2>1, <3>1, <3>2, Zenon DEF TaskOK, k
  <2>2. CASE u # t
    <3>1. TaskOK(u) /\ pc[u] \notin {"commit", "install"} /\ entry[u] \in Entry
      BY <1>1, <1>4, <2>2, Types, Zenon DEF IndInv, TaskOK
    <3>2. pc'[u] = pc[u]
      BY <1>7, <2>2, Zenon
    <3>3. ~Staged(u)' /\ History(u)' = written /\ History(u) = written /\ (Holding(u)' <=> Holding(u))
      BY <2>0, <3>1, <3>2 DEF Staged, History, Holding
    <3>4. Holding(u) => /\ keyLock'[request[u].key] = u
                        /\ EntryLeq(memory'[request[u].key], entry[u])
      <4> SUFFICES ASSUME Holding(u)
                   PROVE  /\ keyLock'[request[u].key] = u
                          /\ EntryLeq(memory'[request[u].key], entry[u])
        OBVIOUS
      <4>1. request[u].key \in Keys /\ keyLock[request[u].key] = u
            /\ EntryLeq(memory[request[u].key], entry[u])
        BY <1>1, <3>1, Types, Zenon DEF TaskOK, Holding
      <4>2. request[u].key # k
        BY <1>4, <2>2, <4>1, Zenon
      <4> QED BY <1>5, <1>6, <2>2, <4>1, <4>2, ReplicaAssumption, Zenon
    <3>5. pc[u] \in {"observe", "respond"} => Leq(entry[u].context, frontier')
      BY <1>1, <1>2, <1>4, <3>1, EntryParts, LeqOrder, Zenon DEF TaskOK
    <3>6. pc[u] \in {"observe", "respond"} /\ request[u].kind = "mutate" => Kept(entry[u].version[Self])'
      <4>1. Kept(entry[u].version[Self]) => Kept(entry[u].version[Self])'
        <5>1. ASSUME NEW i, i = entry[u].version[Self], Kept(i) PROVE Kept(i)'
          BY <1>12, <5>1, Zenon
        <5> QED BY <2>0, <5>1, Zenon DEF Kept
      <4> QED BY <3>1, <4>1, Zenon DEF TaskOK
    <3> QED BY <2>0, <3>1, <3>2, <3>3, <3>4, <3>5, <3>6, Zenon DEF TaskOK
  <2> QED BY <2>1, <2>2
<1>15. MirrorOK'
  <2>1. ASSUME NEW j \in Keys PROVE memory'[j] = disk[j]
    <3>1. CASE j = k
      BY <1>4, <1>6, <3>1, Zenon
    <3>2. CASE j # k
      <4>1. keyLock[j] = NoTask \/ pc[keyLock[j]] # "install"
        <5> SUFFICES ASSUME keyLock[j] # NoTask PROVE pc[keyLock[j]] # "install"
          OBVIOUS
        <5>1. keyLock[j] \in Tasks /\ request[keyLock[j]].key = j
          BY <1>1 DEF LocksOK, TypeOK
        <5>2. keyLock[j] # t
          BY <3>2, <5>1, Zenon DEF k
        <5>3. TaskOK(keyLock[j])
          BY <5>1, Zenon DEF IndInv
        <5> QED BY <1>4, <5>2, <5>3, Zenon DEF TaskOK
      <4> QED BY <1>1, <1>3, <1>6, <3>2, <4>1, Zenon DEF MirrorOK
    <3> QED BY <3>1, <3>2, Zenon
  <2>2. ASSUME NEW j \in Keys PROVE Leq(disk[j].context, diskClock)
    BY <1>1, Zenon DEF MirrorOK
  <2>3. up' /\ frontier' = diskClock /\ disk' = disk /\ diskClock' = diskClock
    BY <1>2, <1>3, <1>4, Zenon DEF diskVars
  <2> QED BY <2>1, <2>2, <2>3, Zenon DEF MirrorOK
<1>16. HistoryOK'
  <2>1. ASSUME NEW j \in Keys PROVE Good(written, j, memory'[j])
    <3>1. CASE j = k
      BY <1>4, <1>6, <3>1, Zenon
    <3>2. CASE j # k
      BY <1>1, <1>6, <3>2, Zenon DEF HistoryOK
    <3> QED BY <3>1, <3>2, Zenon
  <2>2. ASSUME NEW i \in acked PROVE Kept(i)' /\ i \in 1..Len(written[Self])
    BY <1>3, <1>12, AckedKept, Zenon DEF Kept
  <2>3. written' = written /\ disk' = disk /\ diskClock' = diskClock /\ acked' = acked
    BY <1>2, Zenon DEF diskVars
  <2> QED BY <1>1, <1>10, <2>1, <2>2, <2>3, Zenon DEF HistoryOK
<1> QED BY <1>5, <1>8, <1>11, <1>14, <1>15, <1>16, Zenon DEF IndInv

LEMMA CrashStep ==
  ASSUME IndInv, Crash
  PROVE  IndInv'
<1>1. /\ TypeOK /\ MirrorOK /\ HistoryOK /\ written \in Histories /\ diskClock \in Vector
      /\ Zero \in Vector /\ NoEntry \in Entry
  BY Types, NoEntryIsEntry, Zenon DEF IndInv
<1>2. TypeOK'
  BY <1>1, Zenon DEF Crash, TypeOK, diskVars, history
<1>3. LocksOK'
  BY Zenon DEF Crash, LocksOK
<1>4. \A u \in Tasks : TaskOK(u)'
  BY Zenon DEF Crash, TaskOK, Holding, Staged
<1>5. NoEntry.context = Zero /\ NoEntry.version = Zero
  BY Zenon DEF NoEntry
<1>6. MirrorOK'
  <2>1. \A j \in Keys : memory'[j] = NoEntry
    BY Zenon DEF Crash
  <2>2. Leq(Zero, Zero)
    BY <1>1, NoEntryIsEntry, Zenon
  <2> QED BY <1>1, <1>5, <2>1, <2>2, Zenon DEF Crash, MirrorOK, diskVars
<1>7. HistoryOK'
  <2>1. \A j \in Keys : Good(written, j, NoEntry)
    BY <1>1, <1>5, NothingIsExact, Zenon DEF Good
  <2> QED BY <1>1, <2>1, Zenon DEF Crash, HistoryOK, diskVars, history
<1> QED BY <1>2, <1>3, <1>4, <1>6, <1>7, Zenon DEF IndInv

\* An acknowledged mutation is in the durable entry of its key.
LEMMA AckedDurable ==
  ASSUME IndInv, NEW i \in acked
  PROVE  i \in 1..Len(written[Self]) /\ i \in disk[written[Self][i]].dots[Self]
<1>1. TypeOK /\ HistoryOK /\ Self \in Actors /\ written \in Histories
      /\ \A j \in Keys : disk[j] \in Entry
  BY Types, Zenon DEF IndInv
<1>2. i \in 1..Len(written[Self]) /\ written[Self] \in Seq(Keys)
  BY <1>1, Zenon DEF HistoryOK, TypeOK
<1>3. PICK j \in Keys : j = written[Self][i]
  BY <1>2
<1>4. i <= disk[j].version[Self]
  BY <1>1, <1>2, <1>3, Zenon DEF HistoryOK, OwnComplete
<1>5. disk[j].dots[Self] = {n \in 1..Len(written[Self]) : n <= disk[j].version[Self] /\ written[Self][n] = j}
  BY <1>1, Zenon DEF HistoryOK, Good, Exact, DotsUpTo
<1> QED BY <1>2, <1>3, <1>4, <1>5, Zenon

LEMMA RestartStep ==
  ASSUME IndInv, Restart
  PROVE  IndInv'
<1>1. /\ TypeOK /\ LocksOK /\ MirrorOK /\ HistoryOK /\ written \in Histories /\ diskClock \in Vector
      /\ Self \in Actors /\ Len(written[Self]) \in Nat /\ \A k \in Keys : disk[k] \in Entry
  BY Types, Zenon DEF IndInv
<1>2. /\ ~up /\ up' /\ memory' = disk /\ frontier' = diskClock /\ diskClock' = diskClock
      /\ UNCHANGED <<written, disk, lockVars, taskVars, history>>
  BY RestoredClock, Zenon DEF Restart
<1>3. \A u \in Tasks : pc[u] = "idle" /\ pc'[u] = "idle"
  BY <1>1, <1>2, Zenon DEF MirrorOK, taskVars
<1>4. TypeOK'
  BY <1>1, <1>2, Zenon DEF TypeOK, lockVars, taskVars, history, Restart
<1>5. LocksOK'
  BY <1>1, <1>2, Zenon DEF LocksOK, Holding, lockVars, taskVars
<1>6. \A u \in Tasks : TaskOK(u)'
  BY <1>3, Zenon DEF TaskOK, Holding, Staged
<1>7. MirrorOK'
  BY <1>1, <1>2, Zenon DEF MirrorOK
<1>8. HistoryOK'
  <2>1. ASSUME NEW i \in acked PROVE i \in disk[written[Self][i]].dots[Self] /\ i \in 1..Len(written[Self])
    BY AckedDurable, Zenon
  <2>2. \A i \in acked' : i \in 1..Len(written'[Self]) /\ Kept(i)'
    BY <1>2, <2>1, Zenon DEF Kept, history
  <2> QED BY <1>1, <1>2, <2>2, Zenon DEF HistoryOK, history
<1> QED BY <1>4, <1>5, <1>6, <1>7, <1>8, Zenon DEF IndInv

\* Another node writes: every history grows, the node's own part does not.
LEMMA OtherWritesStep ==
  ASSUME IndInv, NEW o \in Others, NEW k \in Keys, OtherWrites(o, k)
  PROVE  IndInv'
<1>1. /\ TypeOK /\ LocksOK /\ MirrorOK /\ HistoryOK /\ written \in Histories /\ Self \in Actors
      /\ \A j \in Keys : memory[j] \in Entry /\ disk[j] \in Entry
  BY Types, Zenon DEF IndInv
<1>2. /\ written' = [written EXCEPT ![o] = Append(@, k)] /\ o \in Actors /\ o # Self
      /\ diskClock' = diskClock /\ disk' = disk /\ memory' = memory /\ up' = up /\ frontier' = frontier
      /\ keyLock' = keyLock /\ clockLock' = clockLock
      /\ pc' = pc /\ request' = request /\ entry' = entry /\ clock' = clock
      /\ exposed' = exposed /\ acked' = acked
  BY Zenon DEF OtherWrites, Others, memoryVars, lockVars, taskVars, history
<1>3. written' \in Histories /\ Appended(written, written', o, k) /\ Extends(written, written')
  <2>1. written' \in Histories /\ Appended(written, written', o, k)
    BY <1>1, <1>2, AppendExtends, Zenon
  <2> QED BY <1>1, <1>2, <2>1, AppendedExtends, Zenon
<1>4. written'[Self] = written[Self]
  BY <1>1, <1>2, Zenon DEF TypeOK
<1>5. TypeOK'
  BY <1>1, <1>2, <1>3, Zenon DEF TypeOK, Histories
<1>6. ASSUME NEW u \in Tasks PROVE TaskOK(u)'
  <2>1. /\ TaskOK(u) /\ entry[u] \in Entry /\ (pc[u] # "idle" => request[u].key \in Keys)
    BY <1>1, Types, Zenon DEF IndInv
  <2>2. (Staged(u)' <=> Staged(u)) /\ (Holding(u)' <=> Holding(u))
    BY <1>2, Zenon DEF Staged, Holding
  <2>3. Len(History(u)[Self])' = Len(History(u)[Self])
    <3>1. (History(u)[Self])' = History(u)[Self]
      BY <1>1, <1>2, <1>4, <2>2, Zenon DEF History, TypeOK
    <3> QED BY <3>1, Zenon
  <2>4. pc[u] # "idle" => (Good(History(u), request[u].key, entry[u]))'
    <3> SUFFICES ASSUME pc[u] # "idle" PROVE (Good(History(u), request[u].key, entry[u]))'
      OBVIOUS
    <3>1. Good(History(u), request[u].key, entry[u])
      BY <2>1, Zenon DEF TaskOK
    <3>2. CASE ~Staged(u)
      <4>1. History(u) = written /\ History(u)' = written'
        BY <2>2, <3>2, Zenon DEF History
      <4> DEFINE j == request[u].key
                 e == entry[u]
      <4>2. j \in Keys /\ e \in Entry /\ Good(written, j, e)
        BY <2>1, <3>1, <4>1, Zenon
      <4>3. request'[u].key = j /\ entry'[u] = e
        BY <1>2, Zenon
      <4> HIDE DEF j, e
      <4>4. Good(written', j, e)
        BY <1>1, <1>3, <4>2, GoodGrows, Zenon
      <4> QED BY <4>1, <4>3, <4>4, Zenon
    <3>3. CASE Staged(u)
      <4> DEFINE j == request[u].key
                 w == [written EXCEPT ![Self] = Append(@, j)]
                 w2 == [written' EXCEPT ![Self] = Append(@, j)]
      <4>1. History(u) = w /\ History(u)' = w2
        BY <1>2, <2>2, <3>3, Zenon DEF History
      <4>2. j \in Keys
        BY <2>1, Zenon
      <4>3. w \in Histories /\ w2 \in Histories
        BY <1>1, <1>3, <4>2, AppendExtends, Zenon
      <4>4. w2 = [w EXCEPT ![o] = Append(@, k)]
        BY <1>1, <1>2, Zenon DEF TypeOK
      <4>5. Extends(w, w2)
        <5>1. Appended(w, w2, o, k)
          <6> HIDE DEF w
          <6> QED BY <1>2, <4>3, <4>4, AppendExtends, Zenon
        <5> HIDE DEF w, w2
        <5> QED BY <1>2, <4>3, <5>1, AppendedExtends, Zenon
      <4> HIDE DEF w, w2
      <4>6. Good(w2, j, entry[u])
        BY <2>1, <3>1, <4>1, <4>2, <4>3, <4>5, GoodGrows, Zenon
      <4> QED BY <1>2, <4>1, <4>6, Zenon
    <3> QED BY <3>2, <3>3, Zenon
  <2>5. ASSUME NEW i, Kept(i) PROVE Kept(i)'
    BY <1>2, <1>4, <2>5, Zenon DEF Kept
  <2>6. Kept(entry[u].version[Self]) => Kept(entry[u].version[Self])'
    BY <1>2, <1>4, Zenon DEF Kept
  <2> QED BY <1>2, <1>4, <2>1, <2>2, <2>3, <2>4, <2>6, Zenon DEF TaskOK
<1>7. LocksOK'
  BY <1>1, <1>2, Zenon DEF LocksOK, Holding
<1>8. MirrorOK'
  BY <1>1, <1>2, Zenon DEF MirrorOK
<1>9. HistoryOK'
  <2>1. \A j \in Keys : Good(written', j, disk[j]) /\ Good(written', j, memory[j])
    BY <1>1, <1>3, GoodGrows, Zenon DEF HistoryOK
  <2>2. \A j \in Keys : OwnComplete(written', j, disk[j], Self)
    BY <1>1, <1>4, Zenon DEF HistoryOK, OwnComplete
  <2>3. \A i \in acked : up => Kept(i)'
    BY <1>1, <1>2, <1>4, Zenon DEF HistoryOK, Kept
  <2> QED BY <1>1, <1>2, <1>4, <2>1, <2>2, <2>3, Zenon DEF HistoryOK
<1> QED BY <1>5, <1>6, <1>7, <1>8, <1>9, Zenon DEF IndInv
-----------------------------------------------------------------------------
(* The induction *)

LEMMA InitIndInv ==
  ASSUME Init
  PROVE  IndInv
<1>1. Zero \in Vector /\ NoEntry \in Entry /\ Leq(Zero, Zero) /\ NoEntry.context = Zero
      /\ NoEntry.version = Zero
  BY NoEntryIsEntry, Zenon DEF NoEntry
<1>2. TypeOK
  <2>1. written \in [Actors -> Seq(Keys)] /\ diskClock \in Vector /\ frontier \in Vector
    <3>1. written \in [Actors -> Seq(Keys)]
      BY DEF Init
    <3>2. diskClock = Zero /\ frontier = Zero
      BY Zenon DEF Init
    <3> QED BY <1>1, <3>1, <3>2, Zenon
  <2>2. disk \in [Keys -> Entry] /\ memory \in [Keys -> Entry]
    BY <1>1, Zenon DEF Init
  <2>3. entry \in [Tasks -> Entry] /\ clock \in [Tasks -> Vector]
    BY <1>1, Zenon DEF Init
  <2>4. up \in BOOLEAN /\ exposed \in Nat /\ acked \in SUBSET Nat
    BY Zenon DEF Init
  <2>5. keyLock \in [Keys -> Tasks \cup {NoTask}] /\ clockLock \in Tasks \cup {NoTask}
    BY Zenon DEF Init
  <2>6. /\ pc \in [Tasks -> {"idle", "key", "clock", "commit", "install", "observe", "respond"}]
        /\ request \in [Tasks -> Request \cup {NoRequest}]
        /\ \A t \in Tasks : pc[t] = "idle" <=> request[t] = NoRequest
    BY Zenon DEF Init
  <2> QED BY <2>1, <2>2, <2>3, <2>4, <2>5, <2>6, Zenon DEF TypeOK
<1>3. LocksOK /\ MirrorOK
  BY <1>1, Zenon DEF Init, LocksOK, MirrorOK
<1>4. \A t \in Tasks : TaskOK(t)
  BY Zenon DEF Init, TaskOK, Holding, Staged
<1>5. HistoryOK
  <2>1. written \in Histories /\ Self \in Actors /\ written[Self] = <<>>
    BY <1>2, Types, Zenon DEF Init
  <2>2. \A j \in Keys : Good(written, j, NoEntry)
    BY <1>1, <2>1, NothingIsExact, Zenon DEF Good
  <2>3. Len(written[Self]) = 0
    BY <2>1
  <2>4. diskClock[Self] = 0
    BY <2>1, Zenon DEF Init, Zero
  <2>5. \A j \in Keys : OwnComplete(written, j, NoEntry, Self)
    <3>1. 1..Len(written[Self]) = {}
      BY <2>3
    <3> QED BY <3>1, Zenon DEF OwnComplete
  <2>6. \A j \in Keys : disk[j] = NoEntry /\ memory[j] = NoEntry
    BY Zenon DEF Init
  <2>7. exposed = 0 /\ acked = {}
    BY Zenon DEF Init
  <2>8. \A j \in Keys : /\ Good(written, j, disk[j]) /\ Good(written, j, memory[j])
                         /\ OwnComplete(written, j, disk[j], Self)
    BY <2>2, <2>5, <2>6, Zenon
  <2>9. diskClock[Self] = Len(written[Self]) /\ exposed <= Len(written[Self])
    BY <2>3, <2>4, <2>7
  <2> QED BY <2>7, <2>8, <2>9, Zenon DEF HistoryOK
<1> QED BY <1>2, <1>3, <1>4, <1>5, Zenon DEF IndInv

\* What NothingIsLost says of the entries in one step.
Grows(e, f) == \A a \in Actors : e.dots[a] \subseteq f.dots[a] /\ e.context[a] <= f.context[a]

LEMMA LeqGrows ==
  ASSUME NEW e, NEW f, EntryLeq(e, f)
  PROVE  Grows(e, f)
BY Zenon DEF EntryLeq, Leq, Grows

LEMMA SameGrows ==
  ASSUME NEW e \in Entry
  PROVE  Grows(e, e)
BY DEF Entry, Vector, Grows

LEMMA NothingGrows ==
  ASSUME NEW e \in Entry
  PROVE  Grows(NoEntry, e)
<1>1. \A a \in Actors : NoEntry.dots[a] = {} /\ NoEntry.context[a] = 0
  BY Zenon DEF NoEntry, Zero
<1>2. ASSUME NEW a \in Actors PROVE NoEntry.context[a] <= e.context[a]
  <2>1. e.context[a] \in Nat
    BY Zenon DEF Entry, Vector
  <2> QED BY <1>1, <2>1
<1> QED BY <1>1, <1>2, Zenon DEF Grows

LEMMA TaskStep ==
  ASSUME IndInv, NEW t \in Tasks, Arrival(t) \/ Step(t)
  PROVE  /\ IndInv'
         /\ \A k \in Keys : Grows(disk[k], disk'[k]) /\ Grows(memory[k], memory'[k])
<1>1. \A k \in Keys : Grows(disk[k], disk[k]) /\ Grows(memory[k], memory[k])
  BY Types, SameGrows, Zenon DEF IndInv
<1>2. CASE Arrival(t)
  BY <1>1, <1>2, ArrivalStep, Zenon DEF Arrival, BeginMutation, BeginMerge, BeginMergeMetadata, BeginRead,
       Start, diskVars, memoryVars
<1>3. CASE LockKey(t)
  BY <1>1, <1>3, LockKeyStep, Zenon DEF LockKey, diskVars, memoryVars
<1>4. CASE Refuse(t)
  BY <1>1, <1>4, RefuseStep, Zenon DEF Refuse, diskVars, memoryVars
<1>5. CASE LockClock(t)
  BY <1>1, <1>5, LockClockStep, Zenon DEF LockClock, diskVars, memoryVars
<1>6. CASE Commit(t)
  BY <1>1, <1>6, CommitStep, LeqGrows, Zenon DEF Commit, memoryVars
<1>7. CASE Abort(t)
  BY <1>1, <1>7, AbortStep, Zenon DEF Abort, diskVars, memoryVars
<1>8. CASE Install(t)
  BY <1>1, <1>8, InstallStep, LeqGrows, Zenon DEF Install, diskVars
<1>9. CASE Observe(t)
  BY <1>1, <1>9, ObserveStep, Zenon DEF Observe, diskVars
<1>10. CASE Respond(t)
  BY <1>1, <1>10, RespondStep, Zenon DEF Respond, diskVars, memoryVars
<1> QED BY <1>2, <1>3, <1>4, <1>5, <1>6, <1>7, <1>8, <1>9, <1>10, Zenon DEF Step

LEMMA NextStep ==
  ASSUME IndInv, [Next]_vars
  PROVE  /\ IndInv'
         /\ \A k \in Keys : Grows(disk[k], disk'[k]) /\ (up' => Grows(memory[k], memory'[k]))
<1>1. \A k \in Keys : Grows(disk[k], disk[k]) /\ Grows(memory[k], memory[k])
  BY Types, SameGrows, Zenon DEF IndInv
<1>2. CASE \E t \in Tasks : Arrival(t) \/ Step(t)
  BY <1>2, TaskStep, Zenon
<1>3. CASE Crash
  BY <1>1, <1>3, CrashStep, Zenon DEF Crash, diskVars
<1>4. CASE Restart
  <2>1. \A k \in Keys : Grows(memory[k], disk[k])
    <3>1. \A k \in Keys : memory[k] = NoEntry /\ disk[k] \in Entry
      BY <1>4, Types, Zenon DEF Restart, IndInv, MirrorOK
    <3> QED BY <3>1, NothingGrows, Zenon
  <2> QED BY <1>1, <1>4, <2>1, RestartStep, Zenon DEF Restart
<1>5. CASE \E o \in Others, k \in Shared : OtherWrites(o, k)
  BY <1>1, <1>5, OtherWritesStep, ReplicaAssumption, Zenon DEF OtherWrites, memoryVars
<1>6. CASE UNCHANGED vars
  <2>1. IndInv'
    <3>1. TypeOK'
      BY <1>6, Zenon DEF vars, IndInv, TypeOK
    <3>2. LocksOK' /\ MirrorOK'
      BY <1>6, Zenon DEF vars, IndInv, LocksOK, MirrorOK, Holding
    <3>3. HistoryOK'
      BY <1>6, Zenon DEF vars, IndInv, HistoryOK, Kept
    <3>4. ASSUME NEW t \in Tasks PROVE TaskOK(t)'
      BY <1>6, Zenon DEF vars, IndInv, TaskOK, Holding, Staged, History, Kept
    <3> QED BY <3>1, <3>2, <3>3, <3>4, Zenon DEF IndInv
  <2> QED BY <1>1, <1>6, <2>1, Zenon DEF vars
<1> QED BY <1>2, <1>3, <1>4, <1>5, <1>6, Zenon DEF Next

LEMMA InductiveInvariant == Spec => []IndInv
BY InitIndInv, NextStep, PTL DEF Spec

\* What the properties say follows from the invariant.
LEMMA InvariantImplies ==
  ASSUME IndInv
  PROVE  PersistedBeforeExposed /\ AckedSurvives /\ ExactVersions /\ ClockIsDurable /\ FreshDot
<1>1. /\ TypeOK /\ LocksOK /\ MirrorOK /\ HistoryOK /\ Self \in Actors /\ written \in Histories
      /\ \A t \in Tasks : TaskOK(t)
      /\ \A k \in Keys : memory[k] \in Entry /\ disk[k] \in Entry
  BY Types, Zenon DEF IndInv
<1>2. ASSUME NEW k \in Keys PROVE Grows(memory[k], disk[k])
  <2>1. CASE ~up
    <3>1. memory[k] = NoEntry
      BY <1>1, <2>1, Zenon DEF MirrorOK
    <3> QED BY <1>1, <3>1, NothingGrows, Zenon
  <2>2. CASE up /\ (keyLock[k] = NoTask \/ pc[keyLock[k]] # "install")
    BY <1>1, <2>2, SameGrows, Zenon DEF MirrorOK
  <2>3. CASE keyLock[k] # NoTask /\ pc[keyLock[k]] = "install"
    <3>1. keyLock[k] \in Tasks /\ request[keyLock[k]].key = k
      BY <1>1, <2>3 DEF LocksOK, TypeOK
    <3>2. EntryLeq(memory[k], disk[k])
      <4> DEFINE h == keyLock[k]
      <4>1. TaskOK(h)
        BY <1>1, <3>1, Zenon
      <4>2. pc[h] = "install" /\ request[h].key = k
        BY <2>3, <3>1, Zenon
      <4> HIDE DEF h
      <4>3. EntryLeq(memory[k], entry[h]) /\ disk[k] = entry[h]
        BY <4>1, <4>2, Zenon DEF TaskOK, Holding
      <4> QED BY <4>3, Zenon
    <3> QED BY <3>2, LeqGrows, Zenon
  <2> QED BY <2>1, <2>2, <2>3, Zenon
<1>3. PersistedBeforeExposed
  BY <1>1, <1>2, FrontierDurable, Zenon DEF PersistedBeforeExposed, HistoryOK, Grows, Leq
<1>4. AckedSurvives
  <2>1. ASSUME NEW i \in acked PROVE i \in disk[written[Self][i]].dots[Self] /\ i \in 1..Len(written[Self])
    BY AckedDurable, Zenon
  <2> QED BY <1>1, <2>1, Zenon DEF AckedSurvives, HistoryOK, Kept
<1>5. ExactVersions
  BY <1>1, Zenon DEF ExactVersions, HistoryOK, Good, TaskOK, History, Staged
<1>6. ClockIsDurable
  <2>1. clockLock \in Tasks \cup {NoTask}
    BY <1>1, Zenon DEF TypeOK
  <2> QED BY <1>1, <2>1, Zenon DEF ClockIsDurable, MirrorOK
<1>7. FreshDot
  BY <1>1, Zenon DEF FreshDot, Mutating, TaskOK, Staged
<1> QED BY <1>3, <1>4, <1>5, <1>6, <1>7, Zenon

\* A handler has a request exactly while it is not idle, and every entry, vector
\* and lock keeps its shape.
THEOREM ReplicaTypeCorrect == Spec => []TypeOK
<1>1. IndInv => TypeOK
  BY Zenon DEF IndInv
<1> QED BY <1>1, InductiveInvariant, PTL

\* Durable before visible: memory, answers and tokens never refer to a mutation
\* of the node that a crash could undo, because the transaction of
\* durable_store.py commits before the entry and the clock are installed.
THEOREM DurableBeforeVisible == Spec => []PersistedBeforeExposed
BY InductiveInvariant, InvariantImplies, PTL

\* A mutation that _success() has acknowledged stays in the durable entry of its
\* key, and in memory whenever the node serves.
THEOREM AcknowledgedIsKept == Spec => []AckedSurvives
BY InductiveInvariant, InvariantImplies, PTL

\* The state_version of every durable, installed and staged entry tells exactly
\* which mutations the entry contains.
THEOREM VersionsAreExact == Spec => []ExactVersions
BY InductiveInvariant, InvariantImplies, PTL

\* The clock in memory is the row of the clock whenever nothing is being
\* installed, so a restart restores the clock that was served.
THEOREM ClockSurvives == Spec => []ClockIsDurable
BY InductiveInvariant, InvariantImplies, PTL

\* staged_allocation() gives every mutation the successor of the last durable
\* counter: no dot is reused after an abort or a crash, and none is skipped.
THEOREM DotsAreFresh == Spec => []FreshDot
BY InductiveInvariant, InvariantImplies, PTL

\* No step removes a mutation or a part of a context from a durable entry, and
\* only a crash removes anything from memory.
THEOREM EntriesOnlyGrow == Spec => NothingIsLost
<1>1. IndInv /\ [Next]_vars =>
        [\A k \in Keys, a \in Actors :
           /\ disk[k].dots[a] \subseteq disk'[k].dots[a]
           /\ disk[k].context[a] <= disk'[k].context[a]
           /\ up' => /\ memory[k].dots[a] \subseteq memory'[k].dots[a]
                     /\ memory[k].context[a] <= memory'[k].context[a]]_vars
  BY NextStep, Zenon DEF Grows
<1> QED BY <1>1, InductiveInvariant, PTL DEF Spec, NothingIsLost
-----------------------------------------------------------------------------
(* DurableReplica implements AtomicReplica *)

\* Handler t has staged the mutation of its key that a single step would make now,
\* with a token that covers the clock b on top of which its dot was allocated.
StagedMutation(t, b) ==
  /\ Leq(frontier, b)
  /\ entry[t] = Mutated(memory[request[t].key], b, Self, b[Self] + 1)
  /\ clock[t] = WithDot(b, Self, b[Self] + 1)

\* What a handler holds refers to mutations that have happened, or to its own one.
\* Until it commits, it has nothing but the memory of its key and its input.
StepOK(t) ==
  /\ pc[t] \in {"key", "clock"} => Within(written, entry[t].context)
  /\ pc[t] = "key" /\ request[t].kind = "mutate" =>
       entry[t].dots = NoEntry.dots /\ entry[t].version = Zero
  /\ pc[t] = "clock" /\ request[t].kind = "mutate" =>
       /\ entry[t].dots = memory[request[t].key].dots
       /\ entry[t].version = memory[request[t].key].version
  /\ pc[t] = "commit" /\ request[t].kind = "mutate" =>
       \E b \in Atomic!Known : StagedMutation(t, b)
  /\ pc[t] = "commit" /\ request[t].kind # "mutate" =>
       clock[t] = Merge(frontier, entry[t].context) /\ Within(written, clock[t])

AtomicInv == Within(written, diskClock) /\ \A t \in Tasks : StepOK(t)

\* AtomicReplica uses the operators of CausalEntries that DurableReplica uses.
LEMMA AtomicOperators ==
  /\ Atomic!Zero = Zero /\ Atomic!NoEntry = NoEntry
  /\ \A v, w : Atomic!Merge(v, w) = Merge(v, w)
  /\ \A v, a, c : Atomic!WithDot(v, a, c) = WithDot(v, a, c)
  /\ \A e, f : Atomic!MergeEntries(e, f) = MergeEntries(e, f)
  /\ \A e, b, a, c : Atomic!Mutated(e, b, a, c) = Mutated(e, b, a, c)
  /\ \A w, k, v : Atomic!DotsUpTo(w, k, v) = DotsUpTo(w, k, v)
<1>1. Atomic!Zero = Zero /\ Atomic!NoEntry = NoEntry
  BY Zenon DEF Atomic!Zero, Zero, Atomic!NoEntry, NoEntry
<1>2. \A m, n : Atomic!MaxOf(m, n) = MaxOf(m, n)
  BY Zenon DEF Atomic!MaxOf, MaxOf
<1>3. \A v, w : Atomic!Merge(v, w) = Merge(v, w)
  BY <1>2, Zenon DEF Atomic!Merge, Merge
<1>4. \A v, a, c : Atomic!WithDot(v, a, c) = WithDot(v, a, c)
  BY <1>2, Zenon DEF Atomic!WithDot, WithDot
<1>5. \A e, f : Atomic!MergeEntries(e, f) = MergeEntries(e, f)
  BY <1>3, Zenon DEF Atomic!MergeEntries, MergeEntries
<1>6. \A e, b, a, c : Atomic!Mutated(e, b, a, c) = Mutated(e, b, a, c)
  BY <1>3, <1>4, Zenon DEF Atomic!Mutated, Mutated
<1>7. \A w, k, v : Atomic!DotsUpTo(w, k, v) = DotsUpTo(w, k, v)
  BY Zenon DEF Atomic!DotsUpTo, DotsUpTo
<1> QED BY <1>1, <1>3, <1>4, <1>5, <1>6, <1>7, Zenon

\* Everything that the node serves counts mutations that have happened.
LEMMA ServedKnown ==
  ASSUME IndInv, AtomicInv
  PROVE  Within(written, frontier) /\ \A k \in Keys : Within(written, memory[k].context)
<1>1. written \in Histories /\ frontier \in Vector /\ diskClock \in Vector /\ MirrorOK
      /\ \A k \in Keys : memory[k].context \in Vector
  BY Types, EntryParts, Zenon DEF IndInv
<1>2. Within(written, frontier)
  BY <1>1, FrontierDurable, WithinBelow DEF AtomicInv
<1> QED BY <1>1, <1>2, WithinBelow, Zenon DEF MirrorOK

\* No step of a handler touches what the others have staged.
OthersSame(t) ==
  \A u \in Tasks \ {t} : /\ pc'[u] = pc[u] /\ request'[u] = request[u]
                         /\ entry'[u] = entry[u] /\ clock'[u] = clock[u]

\* A handler keeps what it has staged while others write, install and observe,
\* because it holds the locks of what it depends on.
LEMMA StagedStays ==
  ASSUME IndInv, IndInv', AtomicInv, NEW u \in Tasks, Extends(written, written'),
         pc'[u] = pc[u], request'[u] = request[u], entry'[u] = entry[u], clock'[u] = clock[u],
         pc[u] \in {"clock", "commit"} => memory'[request[u].key] = memory[request[u].key],
         pc[u] = "commit" => frontier' = frontier
  PROVE  StepOK(u)'
<1>1. written \in Histories /\ written' \in Histories /\ StepOK(u)
  BY Zenon DEF IndInv, AtomicInv, TypeOK, Histories
<1>2. entry[u].context \in Vector /\ clock[u] \in Vector
  BY Types, EntryParts, Zenon DEF IndInv
<1>3. \A b \in Atomic!Known : b \in Atomic!Known'
  <2>1. Atomic!Known = KnownIn(written) /\ Atomic!Known' = KnownIn(written')
    BY Zenon DEF Atomic!Known, KnownIn
  <2>2. ASSUME NEW b \in KnownIn(written) PROVE b \in KnownIn(written')
    BY <1>1, KnownIs, WithinGrows, Zenon
  <2> QED BY <2>1, <2>2, Zenon
<1>4. pc[u] = "commit" => \A b : StagedMutation(u, b) => StagedMutation(u, b)'
  BY Zenon DEF StagedMutation
<1>5. pc[u] \in {"key", "clock"} => Within(written', entry[u].context)
  BY <1>1, <1>2, WithinGrows, Zenon DEF StepOK
<1>6. pc[u] = "commit" /\ request[u].kind # "mutate" => Within(written', clock[u])
  BY <1>1, <1>2, WithinGrows, Zenon DEF StepOK
<1> QED BY <1>1, <1>3, <1>4, <1>5, <1>6, Zenon DEF StepOK

\* Outside the stages before its installation a handler depends on nothing.
LEMMA NothingStaged ==
  ASSUME NEW t \in Tasks, pc'[t] \in {"install", "observe", "respond", "idle"}
  PROVE  StepOK(t)'
BY Zenon DEF StepOK

\* A history extends itself.
LEMMA SameHistory ==
  ASSUME NEW w \in Histories
  PROVE  Extends(w, w)
BY DEF Extends, Histories

\* The invariant when handler t takes a step.
LEMMA HandlerAtomic ==
  ASSUME IndInv, IndInv', AtomicInv, NEW t \in Tasks, OthersSame(t),
         Extends(written, written'), Within(written', diskClock'), StepOK(t)',
         \A u \in Tasks \ {t} :
           /\ pc[u] \in {"clock", "commit"} => memory'[request[u].key] = memory[request[u].key]
           /\ pc[u] = "commit" => frontier' = frontier
  PROVE  AtomicInv'
<1>1. ASSUME NEW u \in Tasks, u # t PROVE StepOK(u)'
  BY <1>1, StagedStays, Zenon DEF OthersSame
<1> QED BY <1>1, Zenon DEF AtomicInv

\* A step that writes nothing durable keeps what the durable clock counts.
LEMMA DiskStays ==
  ASSUME IndInv, AtomicInv, written' = written, diskClock' = diskClock
  PROVE  Extends(written, written') /\ Within(written', diskClock')
<1>1. written \in Histories /\ Within(written, diskClock)
  BY Types, Zenon DEF IndInv, AtomicInv
<1> QED BY <1>1, SameHistory, Zenon

\* In particular when it changes neither memory nor disk.
LEMMA QuietAtomic ==
  ASSUME IndInv, IndInv', AtomicInv, NEW t \in Tasks, OthersSame(t),
         UNCHANGED <<diskVars, memoryVars>>, StepOK(t)'
  PROVE  AtomicInv'
<1>1. written' = written /\ diskClock' = diskClock /\ memory' = memory /\ frontier' = frontier
  BY Zenon DEF diskVars, memoryVars
<1>2. Extends(written, written') /\ Within(written', diskClock')
  BY <1>1, DiskStays, Zenon
<1> QED BY <1>1, <1>2, HandlerAtomic, Zenon

\* A request arrives with something that is known.
LEMMA ArrivalAtomic ==
  ASSUME IndInv, IndInv', AtomicInv, NEW t \in Tasks, Arrival(t)
  PROVE  AtomicInv'
<1>1. TypeOK /\ written \in Histories
  BY Types, Zenon DEF IndInv
<1>2. ASSUME NEW kind, NEW k, NEW e, NEW where, Start(t, kind, k, e, where),
             where = "key" => /\ Within(written, e.context)
                              /\ kind = "mutate" => e.dots = NoEntry.dots /\ e.version = Zero,
             where \notin {"clock", "commit"}
      PROVE  AtomicInv'
  <2>1. /\ pc'[t] = where /\ request'[t].kind = kind /\ entry'[t] = e /\ OthersSame(t)
        /\ UNCHANGED <<diskVars, memoryVars>>
    BY <1>1, <1>2, Zenon DEF Start, TypeOK, OthersSame
  <2>2. StepOK(t)'
    BY <1>2, <2>1, Zenon DEF StepOK, diskVars
  <2> QED BY <2>1, <2>2, QuietAtomic, Zenon
<1>3. ASSUME NEW k \in Keys, NEW v \in Outside,
             BeginMutation(t, k, v) \/ BeginMergeMetadata(t, k, v)
      PROVE  AtomicInv'
  <2>1. v \in Vector /\ Within(written, v)
    BY OutsideResult, Zenon
  <2>2. OnlyContext(v).context = v /\ OnlyContext(v).dots = NoEntry.dots
        /\ OnlyContext(v).version = Zero
    BY <2>1, NoEntryIsEntry, Zenon
  <2>3. \E kind : Start(t, kind, k, OnlyContext(v), "key")
    BY <1>3, Zenon DEF BeginMutation, BeginMergeMetadata
  <2> QED BY <1>2, <2>1, <2>2, <2>3
<1>4. ASSUME NEW k \in Keys, NEW e \in OutsideEntry(k), BeginMerge(t, k, e)
      PROVE  AtomicInv'
  <2>1. PICK v \in Outside, c \in Outside :
          e = [dots |-> DotsUpTo(written, k, v), version |-> v, context |-> Merge(v, c)]
    BY SMTT(15) DEF OutsideEntry
  <2>2. v \in Vector /\ Within(written, v) /\ c \in Vector /\ Within(written, c)
    BY OutsideResult, Zenon
  <2>3. Within(written, e.context)
    BY <1>1, <2>1, <2>2, WithinBelow, WithinMerge, Zenon
  <2>4. Start(t, "merge", k, e, "key")
    BY <1>4, Zenon DEF BeginMerge
  <2> QED BY <1>2, <2>3, <2>4
<1>5. ASSUME NEW k \in Keys, BeginRead(t, k)
      PROVE  AtomicInv'
  <2>1. \E where \in {"observe", "respond"} : Start(t, "read", k, memory[k], where)
    BY <1>5, Zenon DEF BeginRead
  <2> QED BY <1>2, <2>1, Zenon
<1> QED BY <1>3, <1>4, <1>5, Zenon DEF Arrival

\* Merging a context alone into an entry changes nothing but its context.
LEMMA ContextAlone ==
  ASSUME NEW e \in Entry, NEW f \in Entry, f.dots = NoEntry.dots, f.version = Zero
  PROVE  MergeEntries(e, f).dots = e.dots /\ MergeEntries(e, f).version = e.version
<1>1. e.dots \in Dots /\ e.version \in Vector
  BY EntryParts, Zenon
<1>2. \A a \in Actors : f.dots[a] = {}
  BY Zenon DEF NoEntry
<1>3. [a \in Actors |-> e.dots[a] \cup f.dots[a]] = e.dots
  BY <1>1, <1>2, Zenon DEF Dots
<1>4. Merge(e.version, f.version) = e.version
  BY <1>1 DEF Merge, Zero, Vector, MaxOf
<1> QED BY <1>3, <1>4, Zenon DEF MergeEntries

LEMMA LockKeyAtomic ==
  ASSUME IndInv, IndInv', AtomicInv, NEW t \in Tasks, LockKey(t)
  PROVE  AtomicInv'
<1> DEFINE k == request[t].key
           e == MergeEntries(memory[k], entry[t])
<1>1. TypeOK /\ StepOK(t) /\ written \in Histories /\ entry[t] \in Entry
      /\ \A j \in Keys : memory[j] \in Entry
  BY Types, Zenon DEF IndInv, AtomicInv
<1>2. /\ pc[t] = "key" /\ pc'[t] = "clock" /\ entry'[t] = e /\ request' = request
      /\ OthersSame(t) /\ UNCHANGED <<diskVars, memoryVars>>
  BY <1>1, Zenon DEF LockKey, TypeOK, OthersSame
<1>3. k \in Keys
  BY <1>1, <1>2, Types, Zenon
<1> HIDE DEF k
<1>4. e.context = Merge(memory[k].context, entry[t].context)
  BY <1>1, <1>3, MergeEntriesResult, Zenon
<1>5. Within(written, e.context)
  <2>1. Within(written, memory[k].context) /\ Within(written, entry[t].context)
    BY <1>1, <1>2, <1>3, ServedKnown, Zenon DEF StepOK
  <2>2. memory[k].context \in Vector /\ entry[t].context \in Vector
    BY <1>1, <1>3, EntryParts, Zenon
  <2> QED BY <1>1, <1>4, <2>1, <2>2, WithinMerge, Zenon
<1>6. request[t].kind = "mutate" => e.dots = memory[k].dots /\ e.version = memory[k].version
  BY <1>1, <1>2, <1>3, ContextAlone, Zenon DEF StepOK
<1> HIDE DEF e
<1>7. written' = written /\ memory' = memory
  BY <1>2, Zenon DEF diskVars, memoryVars
<1>8. StepOK(t)'
  BY <1>2, <1>5, <1>6, <1>7, Zenon DEF StepOK, k
<1> QED BY <1>2, <1>8, QuietAtomic, Zenon

\* Allocating on top of a clock that covers the contexts makes the same entry of
\* the entry in memory and of that entry with the token.
LEMMA SameMutation ==
  ASSUME NEW e \in Entry, NEW f \in Entry, NEW b \in Vector, NEW a, NEW c,
         e.dots = f.dots, e.version = f.version, Leq(e.context, b), Leq(f.context, b)
  PROVE  Mutated(e, b, a, c) = Mutated(f, b, a, c)
<1>1. Merge(e.context, b) = b /\ Merge(f.context, b) = b
  BY EntryParts DEF Merge, Vector, Leq, MaxOf
<1> QED BY <1>1, Zenon DEF Mutated

LEMMA LockClockAtomic ==
  ASSUME IndInv, IndInv', AtomicInv, NEW t \in Tasks, LockClock(t)
  PROVE  AtomicInv'
<1> DEFINE k == request[t].key
           b == Merge(frontier, entry[t].context)
<1>1. TypeOK /\ MirrorOK /\ StepOK(t) /\ written \in Histories /\ entry[t] \in Entry
      /\ frontier \in Vector /\ \A j \in Keys : memory[j] \in Entry
  BY Types, Zenon DEF IndInv, AtomicInv
<1>2. /\ pc[t] = "clock" /\ pc'[t] = "commit" /\ request' = request
      /\ OthersSame(t) /\ UNCHANGED <<diskVars, memoryVars>>
  BY <1>1, Zenon DEF LockClock, TypeOK, OthersSame
<1>3. /\ request[t].kind = "mutate" => /\ clock'[t] = WithDot(b, Self, b[Self] + 1)
                                       /\ entry'[t] = Mutated(entry[t], b, Self, b[Self] + 1)
      /\ request[t].kind # "mutate" => clock'[t] = b /\ entry'[t] = entry[t]
  BY <1>1, Zenon DEF LockClock, TypeOK
<1>4. k \in Keys
  BY <1>1, <1>2, Types, Zenon
<1> HIDE DEF k
<1>5. written' = written /\ memory' = memory /\ frontier' = frontier
  BY <1>2, Zenon DEF diskVars, memoryVars
<1>6. entry[t].context \in Vector /\ memory[k].context \in Vector /\ Leq(memory[k].context, frontier)
  BY <1>1, <1>4, EntryParts DEF MirrorOK
<1>7. /\ b \in Vector /\ Leq(frontier, b) /\ Leq(entry[t].context, b) /\ Within(written, b)
      /\ Leq(memory[k].context, b)
  <2>1. b \in Vector /\ Leq(frontier, b) /\ Leq(entry[t].context, b)
    BY <1>1, <1>6, MergeIsJoin
  <2>2. Within(written, b)
    BY <1>1, <1>2, <1>6, ServedKnown, WithinMerge, WithinBelow, Zenon DEF StepOK
  <2> HIDE DEF b
  <2> QED BY <1>1, <1>6, <2>1, <2>2, LeqOrder, Zenon
<1> HIDE DEF b
<1>8. ASSUME request[t].kind = "mutate" PROVE \E x \in Atomic!Known' : StagedMutation(t, x)'
  <2>1. entry'[t] = Mutated(memory[k], b, Self, b[Self] + 1)
    <3>1. entry[t].dots = memory[k].dots /\ entry[t].version = memory[k].version
      BY <1>1, <1>2, <1>8, Zenon DEF StepOK, k
    <3>2. memory[k] \in Entry
      BY <1>1, <1>4, Zenon
    <3>3. Mutated(entry[t], b, Self, b[Self] + 1) = Mutated(memory[k], b, Self, b[Self] + 1)
      BY <1>1, <1>7, <3>1, <3>2, SameMutation
    <3> QED BY <1>3, <1>8, <3>3, Zenon
  <2>2. PICK x : x = b
    OBVIOUS
  <2>3. StagedMutation(t, x)'
    BY <1>2, <1>3, <1>5, <1>7, <1>8, <2>1, <2>2, Zenon DEF StagedMutation, k
  <2>4. x \in Atomic!Known'
    <3>1. x \in KnownIn(written)
      BY <1>1, <1>7, <2>2, KnownIs, Zenon
    <3>2. Atomic!Known' = KnownIn(written)
      BY <1>5, Zenon DEF Atomic!Known, KnownIn
    <3> QED BY <3>1, <3>2, Zenon
  <2> QED BY <2>3, <2>4, Zenon
<1>9. request[t].kind # "mutate" =>
        clock'[t] = Merge(frontier', entry'[t].context) /\ Within(written', clock'[t])
  BY <1>3, <1>5, <1>7, Zenon DEF b
<1>10. StepOK(t)'
  BY <1>2, <1>8, <1>9, Zenon DEF StepOK
<1> QED BY <1>2, <1>10, QuietAtomic, Zenon

\* A mutation that is staged advances the clock by the dot that it adds.
LEMMA StagedClock ==
  ASSUME NEW w \in Histories, NEW w2 \in Histories, NEW k, NEW b \in Vector, Self \in Actors,
         Within(w, b), Appended(w, w2, Self, k)
  PROVE  Within(w2, WithDot(b, Self, b[Self] + 1))
<1>1. b[Self] \in Nat /\ b[Self] + 1 \in Nat
  BY DEF Vector
<1>2. /\ WithDot(b, Self, b[Self] + 1)[Self] = MaxOf(b[Self], b[Self] + 1)
      /\ \A a \in Actors \ {Self} : WithDot(b, Self, b[Self] + 1)[a] = b[a]
  BY <1>1, WithDotResult, Zenon
<1>3. /\ Len(w[Self]) \in Nat /\ Len(w2[Self]) = Len(w[Self]) + 1
      /\ \A a \in Actors \ {Self} : w2[a] = w[a]
  BY DEF Histories, Appended
<1>4. WithDot(b, Self, b[Self] + 1)[Self] <= Len(w2[Self])
  <2>1. b[Self] <= Len(w[Self])
    BY Zenon DEF Within
  <2>2. MaxOf(b[Self], b[Self] + 1) = b[Self] + 1
    BY <1>1 DEF MaxOf
  <2> QED BY <1>1, <1>2, <1>3, <2>1, <2>2
<1> QED BY <1>2, <1>3, <1>4, Zenon DEF Within

LEMMA CommitAtomic ==
  ASSUME IndInv, IndInv', AtomicInv, NEW t \in Tasks, Commit(t)
  PROVE  AtomicInv'
<1>1. TypeOK /\ LocksOK /\ TaskOK(t) /\ StepOK(t) /\ Self \in Actors
      /\ written \in Histories /\ written' \in Histories /\ clock[t] \in Vector
  BY Types, Zenon DEF IndInv, AtomicInv, TypeOK, Histories
<1>2. /\ pc[t] = "commit" /\ pc'[t] = "install" /\ diskClock' = clock[t]
      /\ written' = History(t) /\ memory' = memory /\ frontier' = frontier /\ OthersSame(t)
  BY <1>1 DEF Commit, PersistedClock, TypeOK, OthersSame, History, Staged, memoryVars
<1>3. request[t].key \in Keys /\ StepOK(t)'
  BY <1>1, <1>2, Types, NothingStaged, Zenon
<1>4. CASE request[t].kind = "mutate"
  <2>1. PICK b \in Atomic!Known : StagedMutation(t, b)
    BY <1>1, <1>2, <1>4, Zenon DEF StepOK
  <2>2. b \in Vector /\ Within(written, b)
    BY <1>1, <2>1, KnownIs, Zenon DEF Atomic!Known, KnownIn
  <2>3. written' = [written EXCEPT ![Self] = Append(@, request[t].key)]
    BY <1>2, <1>4, Zenon DEF History, Staged
  <2>4. Appended(written, written', Self, request[t].key)
    BY <1>1, <1>3, <2>3, AppendExtends, Zenon
  <2>5. Extends(written, written')
    BY <1>1, <1>3, <2>4, AppendedExtends, Zenon
  <2>6. Within(written', diskClock')
    BY <1>1, <1>2, <2>1, <2>2, <2>4, StagedClock DEF StagedMutation
  <2> QED BY <1>2, <1>3, <2>5, <2>6, HandlerAtomic
<1>5. CASE request[t].kind # "mutate"
  <2>1. written' = written
    BY <1>2, <1>5, Zenon DEF History, Staged
  <2>2. Within(written, clock[t])
    BY <1>1, <1>2, <1>5, Zenon DEF StepOK
  <2>3. Extends(written, written') /\ Within(written', diskClock')
    BY <1>1, <1>2, <2>1, <2>2, SameHistory
  <2> QED BY <1>2, <1>3, <2>3, HandlerAtomic, Zenon
<1> QED BY <1>4, <1>5, Zenon

\* Between commit and installation a handler holds both locks, so no other handler
\* depends on the entry or the clock that it replaces.
LEMMA InstallAtomic ==
  ASSUME IndInv, IndInv', AtomicInv, NEW t \in Tasks, Install(t)
  PROVE  AtomicInv'
<1> DEFINE k == request[t].key
<1>1. TypeOK /\ written \in Histories /\ \A u \in Tasks : TaskOK(u)
  BY Types, Zenon DEF IndInv
<1>2. /\ pc[t] = "install" /\ pc'[t] = "observe" /\ OthersSame(t) /\ UNCHANGED diskVars
      /\ memory' = [memory EXCEPT ![k] = entry[t]]
  BY <1>1, Zenon DEF Install, Replace, TypeOK, OthersSame
<1>3. Extends(written, written') /\ Within(written', diskClock') /\ StepOK(t)'
  <2>1. written' = written /\ diskClock' = diskClock
    BY <1>2, Zenon DEF diskVars
  <2> QED BY <1>2, <2>1, DiskStays, NothingStaged
<1>4. keyLock[k] = t /\ clockLock = t
  BY <1>1, <1>2 DEF TaskOK, Holding
<1>5. ASSUME NEW u \in Tasks, u # t
      PROVE  /\ pc[u] \in {"clock", "commit"} => memory'[request[u].key] = memory[request[u].key]
             /\ pc[u] # "commit"
  <2>1. pc[u] \in {"clock", "commit"} => request[u].key \in Keys /\ request[u].key # k
    BY <1>1, <1>4, <1>5, Types DEF TaskOK, Holding
  <2>2. pc[u] # "commit"
    BY <1>1, <1>4, <1>5, Zenon DEF TaskOK
  <2> QED BY <1>1, <1>2, <2>1, <2>2, Zenon DEF TypeOK
<1> QED BY <1>2, <1>3, <1>5, HandlerAtomic, Zenon

\* _success() observes when nobody holds the lock of the clock.
LEMMA ObserveAtomic ==
  ASSUME IndInv, IndInv', AtomicInv, NEW t \in Tasks, Observe(t)
  PROVE  AtomicInv'
<1>1. TypeOK /\ written \in Histories /\ \A u \in Tasks : TaskOK(u)
  BY Types DEF IndInv
<1>2. /\ pc'[t] = "respond" /\ clockLock = NoTask /\ OthersSame(t) /\ UNCHANGED diskVars
      /\ memory' = memory
  BY <1>1, Zenon DEF Observe, TypeOK, OthersSame
<1>3. Extends(written, written') /\ Within(written', diskClock') /\ StepOK(t)'
  <2>1. written' = written /\ diskClock' = diskClock
    BY <1>2, Zenon DEF diskVars
  <2> QED BY <1>2, <2>1, DiskStays, NothingStaged, Zenon
<1>4. \A u \in Tasks : pc[u] # "commit"
  BY <1>1, <1>2, ReplicaAssumption DEF TaskOK
<1> QED BY <1>2, <1>3, <1>4, HandlerAtomic

LEMMA TaskAtomic ==
  ASSUME IndInv, IndInv', AtomicInv, NEW t \in Tasks, Arrival(t) \/ Step(t)
  PROVE  AtomicInv'
<1>1. TypeOK
  BY Zenon DEF IndInv
<1>2. ASSUME Refuse(t) \/ Abort(t) \/ Respond(t) PROVE AtomicInv'
  <2>1. /\ pc'[t] \in {"respond", "idle"} /\ OthersSame(t) /\ UNCHANGED <<diskVars, memoryVars>>
    BY <1>1, <1>2, Zenon DEF Refuse, Abort, Respond, Fail, Finish, TypeOK, OthersSame
  <2>2. StepOK(t)'
    BY <2>1, NothingStaged, Zenon
  <2> QED BY <2>1, <2>2, QuietAtomic, Zenon
<1> QED BY <1>2, ArrivalAtomic, LockKeyAtomic, LockClockAtomic, CommitAtomic, InstallAtomic,
           ObserveAtomic, Zenon DEF Step

LEMMA NextAtomic ==
  ASSUME IndInv, IndInv', AtomicInv, [Next]_vars
  PROVE  AtomicInv'
<1>1. TypeOK /\ MirrorOK /\ written \in Histories /\ written' \in Histories /\ diskClock \in Vector
  BY Types, Zenon DEF IndInv, TypeOK, Histories
<1>2. CASE \E t \in Tasks : Arrival(t) \/ Step(t)
  BY <1>2, TaskAtomic, Zenon
<1>3. CASE Crash
  <2>1. written' = written /\ diskClock' = diskClock /\ \A t \in Tasks : pc'[t] = "idle"
    BY <1>3 DEF Crash, diskVars
  <2> QED BY <2>1, NothingStaged, Zenon DEF AtomicInv
<1>4. CASE Restart
  <2>1. written' = written /\ diskClock' = diskClock /\ \A t \in Tasks : pc'[t] = "idle"
    BY <1>1, <1>4, RestoredClock, Zenon DEF Restart, taskVars, MirrorOK
  <2> QED BY <2>1, NothingStaged DEF AtomicInv
<1>5. ASSUME NEW o \in Others, NEW k \in Shared, OtherWrites(o, k) PROVE AtomicInv'
  <2>1. /\ written' = [written EXCEPT ![o] = Append(@, k)] /\ o \in Actors /\ k \in Keys
        /\ UNCHANGED <<diskClock, memory, frontier, pc, request, entry, clock>>
    BY <1>5, ReplicaAssumption, Zenon DEF OtherWrites, Others, memoryVars, taskVars
  <2>2. Extends(written, written')
    BY <1>1, <2>1, AppendExtends, AppendedExtends, Zenon
  <2>3. Within(written', diskClock')
    BY <1>1, <2>1, <2>2, WithinGrows, Zenon DEF AtomicInv
  <2> QED BY <2>1, <2>2, <2>3, StagedStays, Zenon DEF AtomicInv
<1>6. CASE UNCHANGED vars
  <2>1. UNCHANGED <<written, diskClock, memory, frontier, pc, request, entry, clock>>
    BY <1>6, Zenon DEF vars
  <2>2. Extends(written, written') /\ Within(written', diskClock')
    BY <2>1, DiskStays, Zenon
  <2> QED BY <2>1, <2>2, StagedStays, Zenon DEF AtomicInv
<1> QED BY <1>2, <1>3, <1>4, <1>5, <1>6 DEF Next

\* An entry absorbs the entries below it.
LEMMA MergeEntriesAbove ==
  ASSUME NEW e \in Entry, NEW f \in Entry, EntryLeq(e, f)
  PROVE  MergeEntries(e, f) = f
<1>1. /\ e.dots \in Dots /\ f.dots \in Dots /\ e.version \in Vector /\ f.version \in Vector
      /\ e.context \in Vector /\ f.context \in Vector
  BY EntryParts, Zenon
<1>2. [a \in Actors |-> e.dots[a] \cup f.dots[a]] = f.dots
  BY <1>1, Zenon DEF EntryLeq, Dots
<1>3. Merge(e.version, f.version) = f.version /\ Merge(e.context, f.context) = f.context
  BY <1>1, MergeAbove, Zenon DEF EntryLeq
<1>4. f = [dots |-> f.dots, version |-> f.version, context |-> f.context]
  BY Zenon DEF Entry
<1> QED BY <1>2, <1>3, <1>4, Zenon DEF MergeEntries

\* The transaction of a mutation is the mutation.
LEMMA CommitMutates ==
  ASSUME IndInv, AtomicInv, NEW t \in Tasks, Commit(t), request[t].kind = "mutate"
  PROVE  Atomic!Mutate(request[t].key)
<1> DEFINE k == request[t].key
<1>1. /\ TypeOK /\ MirrorOK /\ pc[t] = "commit" /\ StepOK(t) /\ k \in Keys /\ written \in Histories
      /\ diskClock \in Vector /\ disk[k] \in Entry
  BY Types, Zenon DEF IndInv, AtomicInv, Commit
<1>2. /\ diskClock' = clock[t] /\ disk' = [disk EXCEPT ![k] = entry[t]]
      /\ written' = [written EXCEPT ![Self] = Append(@, k)]
  BY Zenon DEF Commit, PersistedClock, UpsertEntry
<1>3. PICK b \in Atomic!Known : StagedMutation(t, b)
  BY <1>1, Zenon DEF StepOK
<1>4. b \in Vector /\ disk[k].context \in Vector
  BY <1>1, <1>3, KnownIs, EntryParts, Zenon DEF Atomic!Known, KnownIn
<1>5. memory[k] = disk[k] /\ frontier = diskClock
  BY <1>1, HolderMirror, Zenon
<1>6. Leq(diskClock, b) /\ Leq(disk[k].context, diskClock)
  BY <1>1, <1>3, <1>5, Zenon DEF StagedMutation, MirrorOK
<1>7. Leq(disk[k].context, b)
  BY <1>1, <1>4, <1>6, LeqOrder, Zenon
<1>8. Merge(diskClock, Merge(disk[k].context, b)) = b
  BY <1>1, <1>4, <1>6, <1>7, MergeAbove, Zenon
<1>9. /\ entry[t] = Mutated(disk[k], b, Self, b[Self] + 1)
      /\ clock[t] = WithDot(b, Self, b[Self] + 1)
  BY <1>3, <1>5, Zenon DEF StagedMutation
<1> DEFINE base == Atomic!Merge(diskClock, Atomic!Merge(disk[k].context, b))
<1>10. base = b
  BY <1>8, AtomicOperators, Zenon
<1>11. /\ disk' = [disk EXCEPT ![k] = Atomic!Mutated(@, base, Self, base[Self] + 1)]
       /\ diskClock' = Atomic!WithDot(base, Self, base[Self] + 1)
  BY <1>2, <1>9, <1>10, AtomicOperators, Zenon
<1> QED BY <1>2, <1>3, <1>11, Zenon DEF Atomic!Mutate

\* The transaction of a merge is the merge of what was staged.
LEMMA CommitMerges ==
  ASSUME IndInv, AtomicInv, NEW t \in Tasks, Commit(t), request[t].kind # "mutate"
  PROVE  Atomic!MergeIn(request[t].key) \/ UNCHANGED Atomic!vars
<1> DEFINE k == request[t].key
           e == entry[t]
<1>1. /\ TypeOK /\ TaskOK(t) /\ pc[t] = "commit" /\ StepOK(t) /\ k \in Keys /\ written \in Histories
      /\ e \in Entry /\ disk[k] \in Entry /\ clock[t] \in Vector
  BY Types, Zenon DEF IndInv, AtomicInv, Commit
<1>2. diskClock' = clock[t] /\ disk' = [disk EXCEPT ![k] = e] /\ written' = written
  BY Zenon DEF Commit, PersistedClock, UpsertEntry
<1>3. e.version \in Vector /\ e.context \in Vector
  BY <1>1, EntryParts, Zenon
<1>4. memory[k] = disk[k] /\ frontier = diskClock
  BY <1>1, HolderMirror, Zenon
<1>5. Good(written, k, e) /\ EntryLeq(disk[k], e) /\ Leq(e.context, clock[t])
  BY <1>1, <1>4, Zenon DEF TaskOK, History, Staged, Holding
<1>6. e.version \in Atomic!Known /\ e.context \in Atomic!Known
  <2>1. Within(written, e.version) /\ Within(written, e.context)
    BY <1>1, <1>3, <1>5, WithinBelow, Zenon DEF Good, StepOK
  <2> QED BY <1>1, <1>3, <2>1, KnownIs, Zenon DEF Atomic!Known, KnownIn
<1>7. e = Atomic!KnownEntry(k, e.version, e.context)
  <2>1. e = [dots |-> DotsUpTo(written, k, e.version), version |-> e.version, context |-> e.context]
    BY <1>1, <1>5, Zenon DEF Good, Exact, Entry
  <2>2. e = [dots |-> Atomic!DotsUpTo(written, k, e.version), version |-> e.version,
             context |-> e.context]
    BY <2>1, AtomicOperators, Zenon
  <2> QED BY <2>2, Zenon DEF Atomic!KnownEntry
<1>8. MergeEntries(disk[k], e) = e
  BY <1>1, <1>5, MergeEntriesAbove, Zenon
<1>9. clock[t] = Merge(diskClock, e.context)
  BY <1>1, <1>4, Zenon DEF StepOK
<1>10. /\ disk' = [disk EXCEPT ![k] = Atomic!MergeEntries(@, e)]
       /\ diskClock' = Atomic!Merge(diskClock, Atomic!MergeEntries(disk[k], e).context)
  BY <1>2, <1>8, <1>9, AtomicOperators, Zenon
<1> HIDE DEF e, k
<1>11. PICK v \in Atomic!Known, c \in Atomic!Known : e = Atomic!KnownEntry(k, v, c)
  BY <1>6, <1>7, Zenon
<1>12. <<diskClock, disk>>' # <<diskClock, disk>> => Atomic!MergeIn(k)
  BY <1>2, <1>10, <1>11, Zenon DEF Atomic!MergeIn
<1>13. <<diskClock, disk>>' = <<diskClock, disk>> => UNCHANGED Atomic!vars
  BY <1>2 DEF Atomic!vars
<1> QED BY <1>12, <1>13, Zenon DEF k

\* Before its transaction, and after it, a handler leaves the disk alone.
LEMMA OtherStepsStutter ==
  ASSUME NEW t \in Tasks, Arrival(t) \/ Step(t), ~Commit(t)
  PROVE  UNCHANGED Atomic!vars
<1>1. CASE Arrival(t)
  <2>1. ASSUME NEW kind, NEW k, NEW e, NEW where, Start(t, kind, k, e, where)
        PROVE  UNCHANGED Atomic!vars
    BY <2>1, Zenon DEF Start, diskVars, Atomic!vars
  <2> QED BY <1>1, <2>1, Zenon DEF Arrival, BeginMutation, BeginMerge, BeginMergeMetadata, BeginRead
<1>2. CASE Step(t)
  <2>1. CASE Refuse(t) \/ LockKey(t) \/ LockClock(t)
    BY <2>1, Zenon DEF Refuse, LockKey, LockClock, Atomic!vars, diskVars
  <2>2. CASE Abort(t) \/ Install(t)
    BY <2>2, Zenon DEF Abort, Install, Atomic!vars, diskVars
  <2>3. CASE Observe(t) \/ Respond(t)
    BY <2>3, Zenon DEF Observe, Respond, Atomic!vars, diskVars
  <2> QED BY <1>2, <2>1, <2>2, <2>3, Zenon DEF Step
<1> QED BY <1>1, <1>2, Zenon

\* At the start nothing is staged and nothing has been written.
LEMMA InitAtomic ==
  ASSUME Init
  PROVE  AtomicInv /\ Atomic!Init
<1>1. written = [a \in Actors |-> <<>>] /\ diskClock = Zero /\ disk = [k \in Keys |-> NoEntry]
  BY Zenon DEF Init
<1>2. \A t \in Tasks : pc[t] = "idle"
  BY Zenon DEF Init
<1>3. \A a \in Actors : diskClock[a] = 0 /\ Len(written[a]) \in Nat
  <2>1. diskClock = Zero
    BY <1>1, Zenon
  <2>2. \A a \in Actors : Len(written[a]) \in Nat
    BY InitIndInv, Types, Zenon DEF IndInv
  <2> QED BY <2>1, <2>2, Zenon DEF Zero
<1>4. \A a \in Actors : diskClock[a] <= Len(written[a])
  <2> SUFFICES ASSUME NEW a \in Actors PROVE diskClock[a] <= Len(written[a])
    OBVIOUS
  <2>1. PICK m, n : m = diskClock[a] /\ n = Len(written[a])
    OBVIOUS
  <2> QED BY <1>3, <2>1
<1>5. \A t \in Tasks : StepOK(t)
  BY <1>2, Zenon DEF StepOK
<1>6. Atomic!Init
  BY <1>1, AtomicOperators, Zenon DEF Atomic!Init
<1> QED BY <1>4, <1>5, <1>6, Zenon DEF AtomicInv, Within

\* With its locks, its stages and its transactions, the write path makes every
\* mutation and every merge take effect at once on the durable clock and entry,
\* also when handlers overlap, transactions fail and the process crashes: the
\* transaction is the step, and a restart is none.
THEOREM ReplicaIsAtomic == Spec => ImplementsAtomic
<1>1. Init => AtomicInv /\ Atomic!Init
  BY InitAtomic, Zenon
<1>2. IndInv /\ IndInv' /\ AtomicInv /\ [Next]_vars => AtomicInv'
  BY NextAtomic, Zenon
<1>3. IndInv /\ AtomicInv /\ [Next]_vars => [Atomic!Next]_(Atomic!vars)
  <2> SUFFICES ASSUME IndInv, AtomicInv, [Next]_vars
               PROVE  Atomic!Next \/ UNCHANGED Atomic!vars
    OBVIOUS
  <2>1. ASSUME NEW t \in Tasks, Arrival(t) \/ Step(t)
        PROVE  Atomic!Next \/ UNCHANGED Atomic!vars
    <3>1. Commit(t) => request[t].key \in Keys
      BY Types, Zenon DEF IndInv, Commit
    <3> QED BY <2>1, <3>1, CommitMutates, CommitMerges, OtherStepsStutter, Zenon DEF Atomic!Next
  <2>2. CASE Crash
    BY <2>2, Zenon DEF Crash, diskVars, Atomic!vars
  <2>3. CASE Restart
    BY <2>3, RestoredClock, Zenon DEF Restart, Atomic!vars
  <2>4. ASSUME NEW o \in Others, NEW k \in Shared, OtherWrites(o, k)
        PROVE  Atomic!Next
    BY <2>4, ReplicaAssumption, Zenon DEF OtherWrites, Others, Atomic!OtherWrites, Atomic!Next
  <2>5. CASE UNCHANGED vars
    BY <2>5, Zenon DEF vars, Atomic!vars
  <2> QED BY <2>1, <2>2, <2>3, <2>4, <2>5, Zenon DEF Next
<1> QED BY <1>1, <1>2, <1>3, InductiveInvariant, PTL DEF Spec, ImplementsAtomic, Atomic!Spec
=============================================================================
