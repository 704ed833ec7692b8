---------------------------- MODULE NodeLifecycle ----------------------------
(***************************************************************************)
(* node.py, observed_node.py, main.py, recovery/, health/: a durable,      *)
(* clustered node with etcd enabled, from its start to its exit, and over  *)
(* crashes and restarts.  Every action ends at a suspension point of       *)
(* start(), of its failure path, of stop() or of a connection handler.     *)
(*                                                                         *)
(* phase is the recovery phase; "releasing" stands for stop() and for the  *)
(* failure path of start(), "down" for no process.  The database is what   *)
(* survives.  The contents of the store are in DurableReplica.             *)
(***************************************************************************)
EXTENDS CoordinationLease, Sequences

CONSTANTS Connections,   \* connections of clients and peers to the node
          MaxStarts      \* bound: starts of the process

ASSUME LifecycleAssumption == MaxStarts \in Nat /\ IsFiniteSet(Connections)

VARIABLES
  phase,
  held,       \* what the node has assigned and not released
  ready,      \* HealthSnapshot.readiness
  stopping,   \* DistributedNode._stopping
  db,         \* [tables, version, identity, clock]: the SQLite file
  open,       \* the connections whose transport is open
  work,       \* the request the handler of a connection executes
  starts      \* starts so far

nodeVars == <<phase, held, ready, stopping, db, open, work, starts>>
lifecycleVars == <<nodeVars, leaseVars>>

Tables == 4
Work == {"none", "client", "peer", "task"}
StartPhases == {"starting", "opening_repository", "restoring", "binding",
                "coordinating", "joining_cluster", "reconciling"}
Phases == StartPhases \cup {"down", "ready", "releasing"}

\* Mutant: the lease is released after the server.
ReleaseOrderSwapped ==
  <<"crdt", "cluster", "server", "coordination", "repository", "pool", "observability">>

\* stop() and the failure path of start() release in this order what is held.
ReleaseOrder ==
  <<"crdt", "cluster", "coordination", "server", "repository", "pool", "observability">>

Resources == {"crdt", "cluster", "coordination", "server", "repository", "pool", "observability"}

LifecycleInit ==
  /\ LeaseInit
  /\ phase = "down" /\ held = {} /\ ready = FALSE /\ stopping = FALSE
  /\ db = [tables |-> 0, version |-> 0, identity |-> 0, clock |-> FALSE]
  /\ open = {} /\ work = [c \in Connections |-> "none"] /\ starts = 0

-----------------------------------------------------------------------------
(* start() *)

Advance(from, to, resources) ==
  /\ phase = from /\ phase' = to
  /\ held' = held \cup resources
  /\ UNCHANGED <<stopping, open, work, starts>>

\* main.run() and the observability endpoint; a new process has a new HealthState.
Launch ==
  /\ phase = "down" /\ starts < MaxStarts
  /\ starts' = starts + 1
  /\ phase' = "starting"
  /\ held' = {"observability"}
  /\ ready' = FALSE /\ stopping' = FALSE
  /\ UNCHANGED <<db, open, work, leaseVars>>

\* The worker pool and the repository object, up to the thread that opens it.
CreateRepository ==
  /\ Advance("starting", "opening_repository", {"pool", "repository"})
  /\ UNCHANGED <<ready, db, leaseVars>>

\* apply_migrations(): executescript() ends the transaction that BEGIN opened,
\* so every table and the version are durable one by one.
Migrate ==
  /\ phase = "opening_repository" /\ db.version = 0
  /\ db' = IF db.tables < Tables THEN [db EXCEPT !.tables = @ + 1]
                                 ELSE [db EXCEPT !.version = 1]
  /\ UNCHANGED <<phase, held, ready, stopping, open, work, starts, leaseVars>>

OpenRepository ==
  /\ db.version = 1
  /\ Advance("opening_repository", "restoring", {})
  /\ UNCHANGED <<ready, db, leaseVars>>

\* An identity is named by the start that created it.
InitializeIdentity ==
  /\ phase = "restoring" /\ db.identity = 0
  /\ db' = [db EXCEPT !.identity = starts]
  /\ UNCHANGED <<phase, held, ready, stopping, open, work, starts, leaseVars>>

\* load_clock() finds nothing without an identity or without a row.
LoadClock == db.identity # 0 /\ db.clock

SaveClock ==
  /\ phase = "restoring" /\ db.identity # 0 /\ ~LoadClock
  /\ db' = [db EXCEPT !.clock = TRUE]
  /\ UNCHANGED <<phase, held, ready, stopping, open, work, starts, leaseVars>>

Restore ==
  /\ LoadClock
  /\ Advance("restoring", "binding", {})
  /\ UNCHANGED <<ready, db, leaseVars>>

\* The server accepts connections from here on.
Bind ==
  /\ Advance("binding", "coordinating", {"server", "coordination"})
  /\ UNCHANGED <<ready, db, leaseVars>>

\* CoordinationService.bootstrap() up to the lease.
Discover ==
  /\ phase = "coordinating"
  /\ Connect \/ PutNodeMetadata \/ DiscoverMembers
  /\ UNCHANGED nodeVars

\* The first registration; the cluster service is assigned before it starts.
Coordinate ==
  /\ RegisterMember
  /\ Advance("coordinating", "joining_cluster", {"cluster"})
  /\ UNCHANGED <<ready, db>>

\* Joining is over, and the CRDT service answers peers.
JoinCluster ==
  /\ Advance("joining_cluster", "reconciling", {"crdt"})
  /\ UNCHANGED <<ready, db, leaseVars>>

\* Readiness follows the comparison with every peer that answers.
Reconcile ==
  /\ Advance("reconciling", "ready", {})
  /\ ready' = TRUE
  /\ UNCHANGED <<db, leaseVars>>

\* An exception in any step of start().  A first lease that is not obtained is
\* one of them; otherwise the lease manager keeps running until it is released.
StartFails ==
  /\ phase \in StartPhases
  /\ phase' = "releasing" /\ ready' = FALSE
  /\ IF phase = "coordinating" /\ manager # "off"
     THEN RequestFails /\ manager' = "off"
     ELSE UNCHANGED leaseVars
  /\ UNCHANGED <<held, stopping, db, open, work, starts>>

-----------------------------------------------------------------------------
(* stop(), the failure path, crashes *)

\* SIGTERM or SIGINT.  main.run() listens for them once start() has returned.
Stop ==
  /\ phase = "ready"
  /\ phase' = "releasing" /\ stopping' = TRUE
  /\ UNCHANGED <<held, ready, db, open, work, starts, leaseVars>>

NextRelease ==
  ReleaseOrder[CHOOSE i \in DOMAIN ReleaseOrder :
                 /\ ReleaseOrder[i] \in held
                 /\ \A j \in 1 .. (i - 1) : ReleaseOrder[j] \notin held]

\* Mutant: handlers whose connection is gone are left running by stop().
ReleaseWithoutCancel ==
  /\ phase = "releasing" /\ held # {}
  /\ NextRelease = "server" => open = {}
  /\ held' = held \ {NextRelease}
  /\ IF NextRelease = "coordination" /\ manager # "off" THEN StopLease ELSE UNCHANGED leaseVars
  /\ UNCHANGED <<phase, ready, stopping, db, open, work, starts>>

\* Server.wait_closed() waits until every transport is closed; only then are the
\* handlers that remain cancelled, and only by stop().
Release ==
  /\ phase = "releasing" /\ held # {}
  /\ NextRelease = "server" => open = {}
  /\ held' = held \ {NextRelease}
  /\ work' = IF NextRelease = "server" /\ stopping
             THEN [c \in Connections |-> "none"] ELSE work
  /\ IF NextRelease = "coordination" /\ manager # "off" THEN StopLease ELSE UNCHANGED leaseVars
  /\ UNCHANGED <<phase, ready, stopping, db, open, starts>>

\* The process ends; asyncio.run() cancels what is left.
Exit ==
  /\ phase = "releasing" /\ held = {}
  /\ phase' = "down"
  /\ work' = [c \in Connections |-> "none"]
  /\ UNCHANGED <<held, ready, stopping, db, open, starts, leaseVars>>

NodeCrash ==
  /\ phase # "down"
  /\ phase' = "down" /\ held' = {} /\ ready' = FALSE /\ stopping' = FALSE
  /\ open' = {} /\ work' = [c \in Connections |-> "none"]
  /\ StopLease
  /\ UNCHANGED <<db, starts>>

-----------------------------------------------------------------------------
(* Connections *)

\* Mutant: stop() waits for the server without closing it.
ListeningStill == "server" \in held

\* Server.close() precedes the wait.
Listening == "server" \in held /\ ~(phase = "releasing" /\ NextRelease = "server")

\* A connection whose earlier handler has ended.
Accept(c) ==
  /\ Listening /\ c \notin open /\ work[c] = "none"
  /\ open' = open \cup {c}
  /\ UNCHANGED <<phase, held, ready, stopping, db, work, starts, leaseVars>>

\* The handler's loop ends with the request it was in when stop() was called.
AfterAnswer(c) == IF stopping THEN open \ {c} ELSE open

\* Mutant: clients are admitted as soon as the service exists.
AdmittedEarly(kind) ==
  CASE kind = "client" -> "crdt" \in held
    [] kind = "peer"   -> "crdt" \in held
    [] kind = "task"   -> "pool" \in held

\* What admits a request: _handle_crdt() asks for readiness on behalf of clients
\* and then, like peers' requests, for the service.
Admitted(kind) ==
  CASE kind = "client" -> ready /\ "crdt" \in held
    [] kind = "peer"   -> "crdt" \in held
    [] kind = "task"   -> "pool" \in held

HandleMessage(c, kind) ==
  /\ c \in open /\ work[c] = "none"
  /\ IF Admitted(kind)
     THEN work' = [work EXCEPT ![c] = kind] /\ UNCHANGED open
     ELSE open' = AfterAnswer(c) /\ UNCHANGED work
  /\ UNCHANGED <<phase, held, ready, stopping, db, starts, leaseVars>>

Answer(c) ==
  /\ work[c] # "none"
  /\ work' = [work EXCEPT ![c] = "none"]
  /\ open' = AfterAnswer(c)
  /\ UNCHANGED <<phase, held, ready, stopping, db, starts, leaseVars>>

\* The client closes its side.  A handler at work does not notice.
HangUp(c) ==
  /\ c \in open
  /\ open' = open \ {c}
  /\ UNCHANGED <<phase, held, ready, stopping, db, work, starts, leaseVars>>

-----------------------------------------------------------------------------
StartStep ==
  CreateRepository \/ Migrate \/ OpenRepository \/ InitializeIdentity \/ SaveClock \/ Restore \/ Bind
  \/ Discover \/ Coordinate \/ JoinCluster \/ Reconcile

\* LeaseManager._loop(); the first registration belongs to start().
LeaseLoop ==
  /\ \/ WakeUp \/ RefreshLease \/ GrantLease
     \/ phase # "coordinating" /\ (RegisterMember \/ LoopFails)
  /\ UNCHANGED nodeVars

Etcd(l) == (ExpireLease(l) \/ LateRegistration(l)) /\ UNCHANGED nodeVars

Handlers == \E c \in Connections :
  Accept(c) \/ Answer(c) \/ HangUp(c) \/ \E kind \in Work \ {"none"} : HandleMessage(c, kind)

LifecycleNext ==
  Launch \/ StartStep \/ StartFails \/ Stop \/ Release \/ Exit \/ NodeCrash
  \/ Handlers \/ LeaseLoop \/ \E l \in alive \cup overdue : Etcd(l)

\* The event loop runs what can run: the steps of start(), which its timeouts
\* bound, of stop(), of the handlers and of the lease loop.  etcd lets leases
\* expire.
LoopIsFair ==
  /\ WF_lifecycleVars(StartStep) /\ WF_lifecycleVars(Release) /\ WF_lifecycleVars(Exit)
  /\ \A c \in Connections : WF_lifecycleVars(Answer(c))
  /\ WF_lifecycleVars(LeaseLoop)
  /\ \A l \in 1 .. (MaxStarts + MaxFailures) : WF_lifecycleVars(ExpireLease(l) /\ UNCHANGED nodeVars)

LifecycleSpec == LifecycleInit /\ [][LifecycleNext]_lifecycleVars
LifecycleFairSpec == LifecycleSpec /\ LoopIsFair

\* Clients that send one request per connection, as DistributedClient.request() and the
\* peers do, close their side.
OneShotSpec == LifecycleFairSpec /\ \A c \in Connections : WF_lifecycleVars(HangUp(c))

-----------------------------------------------------------------------------
\* The shape of the node's state, of its database and of its lease.
LifecycleTypeOK ==
  /\ phase \in Phases /\ held \subseteq Resources
  /\ ready \in BOOLEAN /\ stopping \in BOOLEAN
  /\ db \in [tables : 0 .. Tables, version : 0 .. 1, identity : 0 .. MaxStarts, clock : BOOLEAN]
  /\ open \subseteq Connections /\ work \in [Connections -> Work] /\ starts \in 0 .. MaxStarts
  /\ LeaseTypeOK

\* A request enters the CRDT service only on top of a complete schema, an identity
\* and a clock that are durable, whichever of its earlier starts were interrupted
\* between two statements; a client's request only in a node that has reconciled
\* (_handle_crdt(), RecoveryCoordinator.reconcile()).
ServesRecovered ==
  \A c \in Connections : work[c] \in {"client", "peer"} =>
    /\ db.tables = Tables /\ db.version = 1 /\ db.identity # 0 /\ db.clock
    /\ work[c] = "client" => phase \in {"ready", "releasing"} /\ (ready \/ stopping)

\* Once stop() has closed the repository, no handler is left that could use it
\* and no connection on which a request could arrive, also for clients that hung
\* up while their request was executed.
ClosedIsQuiet ==
  stopping /\ "repository" \notin held =>
    open = {} /\ \A c \in Connections : work[c] = "none"

\* The lease is kept only by a node that can be reached and whose state is open:
\* discovery finds no half-closed node that still renews (order of stop() and of
\* the failure path).
RenewsWhileBound ==
  manager # "off" => {"server", "repository", "coordination"} \subseteq held

\* A node whose lease lives and is reported healthy is registered under it, unless
\* an earlier registration that was given up was carried out after a later one.
HealthyIsRegistered ==
  healthy /\ lease \in alive /\ ~overtaken => key = lease

\* stop() and a failed start come to an end: the process exits.
StopCompletes == phase = "releasing" ~> phase = "down"

\* Graceful termination ends, whatever the clients do with their connections.
TerminationCompletes == (phase = "releasing" /\ stopping) ~> phase = "down"

\* A running node that has lost its registration registers again, unless a late
\* registration overtook a newer one: then the lease loop renews a lease the key
\* does not hang on.
RegistrationReturns ==
  (phase = "ready" /\ key = 0) ~> (key # 0 \/ phase # "ready" \/ overtaken)
=============================================================================
