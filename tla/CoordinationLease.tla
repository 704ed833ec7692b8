-------------------------- MODULE CoordinationLease --------------------------
(***************************************************************************)
(* coordination/: the lease of a node in etcd and its registration, which  *)
(* hangs on the lease.  etcd is external: it grants leases, keeps a lease  *)
(* as long as it is refreshed, and deletes the keys of a lease that        *)
(* expires.  A request that fails at the client may have been carried out, *)
(* or be carried out later.                                                *)
(***************************************************************************)
EXTENDS Integers, FiniteSets

CONSTANT MaxFailures   \* bound: requests to etcd that fail

ASSUME LeaseAssumption == MaxFailures \in Nat

VARIABLES
  alive,      \* the leases etcd keeps
  granted,    \* the number of leases granted so far
  key,        \* the lease the member key hangs on; 0 without a key
  overdue,    \* registrations that failed and may still be carried out
  manager,    \* what coordination does: "off"; during bootstrap "connected" and
              \* "described"; then the LeaseManager, "granting", "registering",
              \* "sleeping" or "refreshing"
  lease,      \* LeaseManager._lease; 0 for None
  offered,    \* the lease being registered
  healthy,    \* LeaseManager.health
  failures,   \* requests that failed
  overtaken   \* a registration was carried out after a later one (history)

leaseVars ==
  <<alive, granted, key, overdue, manager, lease, offered, healthy, failures, overtaken>>

LeaseInit ==
  /\ alive = {} /\ granted = 0 /\ key = 0 /\ overdue = {}
  /\ manager = "off" /\ lease = 0 /\ offered = 0 /\ healthy = FALSE
  /\ failures = 0 /\ overtaken = FALSE

LeaseTypeOK ==
  /\ granted \in Nat /\ alive \subseteq 1 .. granted /\ overdue \subseteq 1 .. granted
  /\ key \in 0 .. granted /\ lease \in 0 .. granted /\ offered \in 0 .. granted
  /\ manager \in {"off", "connected", "described", "granting", "registering", "sleeping",
                  "refreshing"}
  /\ healthy \in BOOLEAN /\ failures \in 0 .. MaxFailures /\ overtaken \in BOOLEAN

\* What the steps of bootstrap() before the lease leave alone: all but the manager.
BootstrapStep(from, to) ==
  /\ manager = from /\ manager' = to
  /\ UNCHANGED <<alive, granted, key, overdue, lease, offered, healthy, failures, overtaken>>

\* connect(): some endpoint answers.
Connect == BootstrapStep("off", "connected")

\* put_node_metadata(): a key without a lease, which stays when the node is gone.
PutNodeMetadata == BootstrapStep("connected", "described")

\* discover_members(): who is registered; the node's own key is left out.
DiscoverMembers == BootstrapStep("described", "granting")

\* Mutant: the lease counts as held, and healthy, before the registration.
GrantLeaseAdopts ==
  /\ manager = "granting"
  /\ granted' = granted + 1
  /\ alive' = alive \cup {granted'}
  /\ offered' = granted' /\ lease' = granted' /\ healthy' = TRUE
  /\ manager' = "registering"
  /\ UNCHANGED <<key, overdue, failures, overtaken>>

\* _acquire_and_register() up to the registration.
GrantLease ==
  /\ manager = "granting"
  /\ granted' = granted + 1
  /\ alive' = alive \cup {granted'}
  /\ offered' = granted'
  /\ manager' = "registering"
  /\ UNCHANGED <<key, overdue, lease, healthy, failures, overtaken>>

\* etcd puts the key, and the manager adopts the lease.
RegisterMember ==
  /\ manager = "registering"
  /\ key' = offered /\ lease' = offered /\ offered' = 0
  /\ healthy' = TRUE
  /\ manager' = "sleeping"
  /\ UNCHANGED <<alive, granted, overdue, failures, overtaken>>

\* Mutant: the lease is kept and renewed though etcd has forgotten it.
LostButKept ==
  /\ offered' = 0 /\ healthy' = FALSE /\ UNCHANGED lease

\* What a failed request leaves of the manager: the loop starts over.
Lost ==
  /\ lease' = 0 /\ offered' = 0 /\ healthy' = FALSE

\* A request fails.  A registration may have been carried out, or may be later.
RequestFails ==
  /\ manager \in {"connected", "described", "granting", "registering", "refreshing"}
  /\ failures < MaxFailures \/ (manager = "refreshing" /\ lease \notin alive)
  /\ failures' = IF manager = "refreshing" /\ lease \notin alive
                 THEN failures ELSE failures + 1
  /\ \/ UNCHANGED <<key, overdue>>
     \/ manager = "registering" /\ key' = offered /\ UNCHANGED overdue
     \/ manager = "registering" /\ overdue' = overdue \cup {offered} /\ UNCHANGED key
  /\ Lost
  /\ UNCHANGED <<alive, granted, overtaken>>

LoopFails == RequestFails /\ manager' = "sleeping"

\* The renewal interval has passed.
WakeUp ==
  /\ manager = "sleeping"
  /\ manager' = IF lease = 0 THEN "granting" ELSE "refreshing"
  /\ UNCHANGED <<alive, granted, key, overdue, lease, offered, healthy, failures, overtaken>>

RefreshLease ==
  /\ manager = "refreshing" /\ lease \in alive
  /\ healthy' = TRUE
  /\ manager' = "sleeping"
  /\ UNCHANGED <<alive, granted, key, overdue, lease, offered, failures, overtaken>>

\* LeaseManager.stop(): the loop is cancelled.  Nothing is revoked.
StopLease ==
  /\ manager' = "off" /\ Lost
  /\ overdue' = IF manager = "registering" THEN overdue \cup {offered} ELSE overdue
  /\ UNCHANGED <<alive, granted, key, failures, overtaken>>

\* etcd: a lease that is not renewed expires and takes its key with it.  The
\* lease of the manager expires only when renewals come too late, which counts
\* as a failure; a lease being registered is younger than its TTL.
ExpireLease(l) ==
  /\ l \in alive /\ l # offered
  /\ l = lease => failures < MaxFailures
  /\ failures' = IF l = lease THEN failures + 1 ELSE failures
  /\ alive' = alive \ {l}
  /\ key' = IF key = l THEN 0 ELSE key
  /\ UNCHANGED <<granted, overdue, manager, lease, offered, healthy, overtaken>>

\* etcd: a registration that was given up is carried out, if its lease still is
\* there.
LateRegistration(l) ==
  /\ l \in overdue
  /\ overdue' = overdue \ {l}
  /\ key' = IF l \in alive THEN l ELSE key
  /\ overtaken' = (overtaken \/ (l \in alive /\ l # granted))
  /\ UNCHANGED <<alive, granted, manager, lease, offered, healthy, failures>>
=============================================================================
