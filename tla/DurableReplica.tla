--------------------------- MODULE DurableReplica ---------------------------
(***************************************************************************)
(* One node of the cluster with a durable store: the concurrent request    *)
(* handlers of crdt_service.py, the locks and the memory of                *)
(* storage/crdt_store.py, the causal clock of causal/clock.py, the write   *)
(* path of persistence/durable_store.py down to the SQLite transaction,    *)
(* crashes at any point, and the restart of recovery/restore.py.           *)
(*                                                                         *)
(* A handler suspends while it waits for the lock of its key, for the lock *)
(* of the clock and for the SQLite transaction, which runs in a thread;    *)
(* what happens between two suspension points is one step.                 *)
(*                                                                         *)
(* The other nodes are an environment that writes under its own actors and *)
(* sends this node any state, context or token that can be built from what *)
(* was written there and what has left this node, in any order, late, or   *)
(* more than once.                                                         *)
(***************************************************************************)
EXTENDS CausalEntries, FiniteSets

CONSTANTS
  Self,        \* the causal actor of the node: node id and durable incarnation
  Shared,      \* the keys that another node replicates too
  Tasks,       \* concurrent request handlers of the node
  NoTask,      \* the owner of a free lock
  NoRequest,   \* the request of an idle handler
  MaxWrites,   \* bound: mutations by the node
  MaxOthers    \* bound: mutations by each other actor

Others == Actors \ {Self}

Request == [kind: {"mutate", "merge", "context", "read", "error"}, key: Keys]

ASSUME ReplicaAssumption ==
  /\ Self \in Actors /\ Shared \subseteq Keys
  /\ NoTask \notin Tasks
  /\ NoRequest \notin Request
  /\ MaxWrites \in Nat /\ MaxOthers \in Nat

VARIABLES
  written,      \* history: the keys of the durable mutations of each actor, in order
  diskClock,    \* the row of table causal_clock
  disk,         \* the rows of table crdt_entries
  up,           \* the process runs and serves requests
  memory,       \* CrdtStore._entries
  frontier,     \* CausalClock._frontier
  keyLock,      \* CrdtStore._locks: who holds the lock of each key
  clockLock,    \* CausalClock._lock: who holds it
  pc,           \* where each handler is suspended
  request,      \* the request of each handler
  entry,        \* its input, then the entry it has merged, staged or read
  clock,        \* the frontier it has staged
  exposed,      \* history: the largest own counter that has left the node
  acked         \* history: the own counters of the acknowledged mutations

diskVars == <<written, diskClock, disk>>
memoryVars == <<up, memory, frontier>>
lockVars == <<keyLock, clockLock>>
taskVars == <<pc, request, entry, clock>>
history == <<exposed, acked>>
vars == <<written, diskClock, disk, up, memory, frontier, keyLock, clockLock,
          pc, request, entry, clock, exposed, acked>>

\* What the outside can know: a client's token, a peer's context.
Outside ==
  {v \in [Actors -> 0..MaxOf(MaxWrites, MaxOthers)] :
     v[Self] <= exposed /\ \A o \in Others : v[o] <= Len(written[o])}

\* A peer's entry of key k: its version names mutations of k, and it contains
\* the mutations that its version covers; its context may cover more.
OutsideEntry(k) ==
  {[dots |-> DotsUpTo(written, k, v), version |-> v, context |-> Merge(v, c)] :
     v \in {u \in Outside \ {Zero} : \A a \in Actors : u[a] = 0 \/ written[a][u[a]] = k},
     c \in Outside}

Init ==
  /\ written = [a \in Actors |-> <<>>]
  /\ diskClock = Zero
  /\ disk = [k \in Keys |-> NoEntry]
  /\ up = TRUE
  /\ memory = [k \in Keys |-> NoEntry]
  /\ frontier = Zero
  /\ keyLock = [k \in Keys |-> NoTask]
  /\ clockLock = NoTask
  /\ pc = [t \in Tasks |-> "idle"]
  /\ request = [t \in Tasks |-> NoRequest]
  /\ entry = [t \in Tasks |-> NoEntry]
  /\ clock = [t \in Tasks |-> Zero]
  /\ exposed = 0
  /\ acked = {}
-----------------------------------------------------------------------------
(* Requests arrive *)

Start(t, kind, k, e, where) ==
  /\ up /\ pc[t] = "idle"
  /\ pc' = [pc EXCEPT ![t] = where]
  /\ request' = [request EXCEPT ![t] = [kind |-> kind, key |-> k]]
  /\ entry' = [entry EXCEPT ![t] = e]
  /\ UNCHANGED <<diskVars, memoryVars, lockVars, clock, history>>

\* mutate(), once its token is satisfied and its outbox slots are reserved.
\* Nothing it has read so far is used again: it reads the entry under the lock.
BeginMutation(t, k, token) ==
  /\ Len(written[Self])
       + Cardinality({u \in Tasks \ {t} : request[u] # NoRequest
                                           /\ request[u].kind = "mutate"}) < MaxWrites
  /\ Start(t, "mutate", k, OnlyContext(token), "key")

\* A state arrives: replication, causal repair or anti-entropy.
BeginMerge(t, k, e) == Start(t, "merge", k, e, "key")

\* A causal context arrives alone: repair of metadata, digests.
BeginMergeMetadata(t, k, v) == Start(t, "context", k, OnlyContext(v), "key")

\* read() and the fetch of a peer take the entry without any lock; an absent key
\* is answered with the frontier alone.
BeginRead(t, k) ==
  Start(t, "read", k, memory[k], IF memory[k] = NoEntry THEN "respond" ELSE "observe")
-----------------------------------------------------------------------------
(* The write path *)

Finish(t) ==
  /\ pc' = [pc EXCEPT ![t] = "idle"]
  /\ request' = [request EXCEPT ![t] = NoRequest]
  /\ entry' = [entry EXCEPT ![t] = NoEntry]
  /\ clock' = [clock EXCEPT ![t] = Zero]

\* _error(): the answer of a request that failed carries the frontier alone.
Fail(t) ==
  /\ pc' = [pc EXCEPT ![t] = "respond"]
  /\ request' = [request EXCEPT ![t].kind = "error"]
  /\ entry' = [entry EXCEPT ![t] = NoEntry]
  /\ clock' = [clock EXCEPT ![t] = Zero]

KeyFree(k) == keyLock[k] = NoTask

\* key_lock(): the handler reads the entry it will replace.
LockKey(t) ==
  LET k == request[t].key
  IN /\ pc[t] = "key"
     /\ KeyFree(k)
     /\ ~(request[t].kind = "context" /\ memory[k] = NoEntry)
     /\ keyLock' = [keyLock EXCEPT ![k] = t]
     /\ entry' = [entry EXCEPT ![t] = MergeEntries(memory[k], @)]
     /\ pc' = [pc EXCEPT ![t] = "clock"]
     /\ UNCHANGED <<diskVars, memoryVars, clockLock, request, clock, history>>

\* The lock is taken and given back at once: the key has another CRDT type, or
\* there is no entry whose context could be extended.
Refuse(t) ==
  /\ pc[t] = "key"
  /\ KeyFree(request[t].key)
  /\ request[t].kind = "context" => memory[request[t].key] = NoEntry
  /\ request[t].kind # "context" => memory[request[t].key] # NoEntry
  /\ Fail(t)
  /\ UNCHANGED <<diskVars, memoryVars, lockVars, history>>

\* staged_allocation() and staged_observe(): the clock stays locked until the
\* transaction is done.
LockClock(t) ==
  LET base == Merge(frontier, entry[t].context)
      counter == base[Self] + 1
  IN /\ pc[t] = "clock"
     /\ clockLock = NoTask
     /\ clockLock' = t
     /\ pc' = [pc EXCEPT ![t] = "commit"]
     /\ IF request[t].kind = "mutate"
        THEN /\ clock' = [clock EXCEPT ![t] = WithDot(base, Self, counter)]
             /\ entry' = [entry EXCEPT ![t] =
                            Mutated(@, base, Self, counter)]
        ELSE /\ clock' = [clock EXCEPT ![t] = base]
             /\ UNCHANGED entry
     /\ UNCHANGED <<diskVars, memoryVars, keyLock, request, history>>

\* Mutant: what a merge observes is not written to the clock's row.
PersistedOwnClock(t) == IF request[t].kind = "mutate" THEN clock[t] ELSE diskClock

PersistedClock(t) == clock[t]

\* The row of a key is written anew, with its state, version and context.
UpsertEntry(k, e) == [disk EXCEPT ![k] = e]

\* The SQLite transaction writes the clock and the entry together.
Commit(t) ==
  LET k == request[t].key
  IN /\ pc[t] = "commit"
     /\ diskClock' = PersistedClock(t)
     /\ disk' = UpsertEntry(k, entry[t])
     /\ written' = IF request[t].kind = "mutate"
                   THEN [written EXCEPT ![Self] = Append(@, k)]
                   ELSE written
     /\ pc' = [pc EXCEPT ![t] = "install"]
     /\ UNCHANGED <<memoryVars, lockVars, request, entry, clock, history>>

\* Mutant: the clock stays locked.
UnlockedKeyOnly(k) ==
  /\ keyLock' = [keyLock EXCEPT ![k] = NoTask]
  /\ UNCHANGED clockLock

Unlocked(k) ==
  /\ keyLock' = [keyLock EXCEPT ![k] = NoTask]
  /\ clockLock' = NoTask

\* Mutant: the staged clock is kept although the transaction failed.
AbortKeepsClock(t) ==
  /\ pc[t] = "commit"
  /\ frontier' = clock[t]
  /\ Unlocked(request[t].key)
  /\ Fail(t)
  /\ UNCHANGED <<diskVars, up, memory, history>>

\* The mutation is invalid, its deadline passes before the persistence executor
\* admits it, or the transaction fails: nothing was staged for others.
Abort(t) ==
  /\ pc[t] = "commit"
  /\ Unlocked(request[t].key)
  /\ Fail(t)
  /\ UNCHANGED <<diskVars, memoryVars, history>>

Replace(k, e) == memory' = [memory EXCEPT ![k] = e]

\* Mutant: the entry is installed without what its context covers beyond it.
InstallVersionOnly(t) ==
  LET k == request[t].key
  IN /\ pc[t] = "install"
     /\ memory' = [memory EXCEPT ![k] = [entry[t] EXCEPT !.context = entry[t].version]]
     /\ frontier' = clock[t]
     /\ Unlocked(k)
     /\ pc' = [pc EXCEPT ![t] = "observe"]
     /\ exposed' = IF request[t].kind = "mutate"
                   THEN MaxOf(exposed, entry[t].context[Self])
                   ELSE exposed
     /\ UNCHANGED <<diskVars, up, request, entry, clock, acked>>

\* Mutant: the clock in memory does not observe what is merged.
InstallWithoutObserving(t) ==
  LET k == request[t].key
  IN /\ pc[t] = "install"
     /\ Replace(k, entry[t])
     /\ frontier' = IF request[t].kind = "mutate" THEN clock[t] ELSE frontier
     /\ Unlocked(k)
     /\ pc' = [pc EXCEPT ![t] = "observe"]
     /\ exposed' = IF request[t].kind = "mutate"
                   THEN MaxOf(exposed, entry[t].context[Self])
                   ELSE exposed
     /\ UNCHANGED <<diskVars, up, request, entry, clock, acked>>

\* The thread has returned: the entry becomes visible, the clock advances, both
\* locks are free, and a mutation is handed to the outbox.
Install(t) ==
  LET k == request[t].key
  IN /\ pc[t] = "install"
     /\ Replace(k, entry[t])
     /\ frontier' = clock[t]
     /\ Unlocked(k)
     /\ pc' = [pc EXCEPT ![t] = "observe"]
     /\ exposed' = IF request[t].kind = "mutate"
                   THEN MaxOf(exposed, entry[t].context[Self])
                   ELSE exposed
     /\ UNCHANGED <<diskVars, up, request, entry, clock, acked>>
-----------------------------------------------------------------------------
(* Answers *)

\* _success(): the clock observes the context of the entry ...
Observe(t) ==
  /\ pc[t] = "observe"
  /\ clockLock = NoTask
  /\ frontier' = Merge(frontier, entry[t].context)
  /\ pc' = [pc EXCEPT ![t] = "respond"]
  /\ UNCHANGED <<diskVars, up, memory, lockVars, request, entry, clock, history>>

\* ... and the answer carries the frontier of the clock and that context.
Respond(t) ==
  /\ pc[t] = "respond"
  /\ clockLock = NoTask
  /\ exposed' = MaxOf(exposed, Merge(frontier, entry[t].context)[Self])
  /\ acked' = IF request[t].kind = "mutate"
              THEN acked \cup {entry[t].version[Self]}
              ELSE acked
  /\ Finish(t)
  /\ UNCHANGED <<diskVars, memoryVars, lockVars>>
-----------------------------------------------------------------------------
(* Crashes and restarts, and the other nodes *)

Crash ==
  /\ up
  /\ up' = FALSE
  /\ memory' = [k \in Keys |-> NoEntry]
  /\ frontier' = Zero
  /\ keyLock' = [k \in Keys |-> NoTask]
  /\ clockLock' = NoTask
  /\ pc' = [t \in Tasks |-> "idle"]
  /\ request' = [t \in Tasks |-> NoRequest]
  /\ entry' = [t \in Tasks |-> NoEntry]
  /\ clock' = [t \in Tasks |-> Zero]
  /\ UNCHANGED <<diskVars, history>>

\* The frontier that restore() rebuilds: the clock's row and every context.
Restored ==
  [a \in Actors |->
     CHOOSE n \in {diskClock[a]} \cup {disk[k].context[a] : k \in Keys} :
       n >= diskClock[a] /\ \A k \in Keys : n >= disk[k].context[a]]

\* Mutant: the clock is restored, the entries are not.
RestartEmpty ==
  /\ ~up
  /\ up' = TRUE
  /\ frontier' = Restored
  /\ diskClock' = Restored
  /\ UNCHANGED <<written, disk, memory, lockVars, taskVars, history>>

Restart ==
  /\ ~up
  /\ up' = TRUE
  /\ memory' = disk
  /\ frontier' = Restored
  /\ diskClock' = Restored
  /\ UNCHANGED <<written, disk, lockVars, taskVars, history>>

OtherWrites(o, k) ==
  /\ Len(written[o]) < MaxOthers
  /\ written' = [written EXCEPT ![o] = Append(@, k)]
  /\ UNCHANGED <<diskClock, disk, memoryVars, lockVars, taskVars, history>>
-----------------------------------------------------------------------------
\* A request reaches an idle handler of the running node.
Arrival(t) ==
  /\ up /\ pc[t] = "idle"
  /\ \E k \in Keys :
       \/ \E v \in Outside :
            \/ BeginMutation(t, k, v)
            \/ k \in Shared /\ BeginMergeMetadata(t, k, v)
       \/ k \in Shared /\ \E e \in OutsideEntry(k) : BeginMerge(t, k, e)
       \/ BeginRead(t, k)

Step(t) ==
  \/ LockKey(t) \/ Refuse(t) \/ LockClock(t) \/ Commit(t) \/ Abort(t)
  \/ Install(t) \/ Observe(t) \/ Respond(t)

Next ==
  \/ \E t \in Tasks : Arrival(t) \/ Step(t)
  \/ Crash \/ Restart
  \/ \E o \in Others, k \in Shared : OtherWrites(o, k)

Spec == Init /\ [][Next]_vars

\* asyncio locks are granted in the order in which they were asked for, so a
\* handler that waits for one gets it if it is freed again and again; the SQLite
\* thread returns or fails, and the event loop resumes every ready handler.  A
\* handler waits for one thing at a time, so one condition covers them all.
Fairness == \A t \in Tasks : SF_vars(Step(t))

FairSpec == Spec /\ Fairness
-----------------------------------------------------------------------------
(* Properties *)

\* The shape of the node's memory, disk and locks; a handler has a request
\* exactly while it is not idle.
TypeOK ==
  /\ written \in [Actors -> Seq(Keys)]
  /\ diskClock \in Vector
  /\ disk \in [Keys -> Entry]
  /\ up \in BOOLEAN
  /\ memory \in [Keys -> Entry]
  /\ frontier \in Vector
  /\ keyLock \in [Keys -> Tasks \cup {NoTask}]
  /\ clockLock \in Tasks \cup {NoTask}
  /\ pc \in [Tasks -> {"idle", "key", "clock", "commit", "install", "observe", "respond"}]
  /\ request \in [Tasks -> Request \cup {NoRequest}]
  /\ \A t \in Tasks : pc[t] = "idle" <=> request[t] = NoRequest
  /\ entry \in [Tasks -> Entry]
  /\ clock \in [Tasks -> Vector]
  /\ exposed \in Nat
  /\ acked \in SUBSET Nat

Mutating(t) == request[t] # NoRequest /\ request[t].kind = "mutate"

\* A dot is never given out twice, nor is a counter skipped: the dot that a
\* handler is about to commit is the successor of the last durable one, whatever
\* tokens and contexts the clock has observed and wherever the node crashed.
FreshDot ==
  \A t \in Tasks : pc[t] = "commit" /\ Mutating(t)
                     => entry[t].version[Self] = Len(written[Self]) + 1

\* Durable before visible: no answer, no token and nothing in memory refers to a
\* mutation of this node that a crash could still undo.
PersistedBeforeExposed ==
  /\ exposed <= Len(written[Self])
  /\ frontier[Self] <= diskClock[Self]
  /\ \A k \in Keys : \A a \in Actors :
       /\ memory[k].dots[a] \subseteq disk[k].dots[a]
       /\ memory[k].context[a] <= disk[k].context[a]

\* An acknowledged mutation is in the durable entry of its key, and in memory
\* whenever the node serves: crashes and concurrent merges do not lose it.
AckedSurvives ==
  \A i \in acked :
    /\ i \in 1..Len(written[Self])
    /\ i \in disk[written[Self][i]].dots[Self]
    /\ up => i \in memory[written[Self][i]].dots[Self]

\* The state_version of an entry tells exactly which mutations its state contains,
\* so that equal versions mean equal states: the comparison of digests relies on
\* it.  A staged mutation is not durable yet and so not counted.
ExactVersions ==
  /\ \A k \in Keys : Exact(written, k, disk[k]) /\ Exact(written, k, memory[k])
  /\ \A t \in Tasks : pc[t] \in {"clock", "install", "observe"}
                        => Exact(written, request[t].key, entry[t])

\* The clock in memory agrees with the durable one whenever no transaction is
\* being installed: the observations that are not persisted never add anything.
ClockIsDurable ==
  up /\ (\A t \in Tasks : pc[t] # "install") => frontier = diskClock

\* The durable entries never lose a mutation or forget part of a context, and
\* the entries in memory do so only in a crash.
NothingIsLost ==
  [][\A k \in Keys, a \in Actors :
       /\ disk[k].dots[a] \subseteq disk'[k].dots[a]
       /\ disk[k].context[a] <= disk'[k].context[a]
       /\ up' => /\ memory[k].dots[a] \subseteq memory'[k].dots[a]
                 /\ memory[k].context[a] <= memory'[k].context[a]]_vars

\* Whatever the handlers do between their suspension points and wherever the node
\* crashes, what is durable changes as if mutations and merges were single steps on
\* the entry and the clock, each at the commit of its transaction: a failed or
\* unfinished request leaves no trace, and a restart changes nothing.
Atomic == INSTANCE AtomicReplica WITH clock <- diskClock, store <- disk
ImplementsAtomic == Atomic!Spec

\* Every request is answered, however the handlers queue for the locks of their
\* keys and of the clock: the two kinds of locks cannot deadlock.
RequestsAreAnswered == \A t \in Tasks : pc[t] # "idle" ~> pc[t] = "idle"
=============================================================================
