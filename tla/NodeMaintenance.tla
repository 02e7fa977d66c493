-------------------------- MODULE NodeMaintenance --------------------------
(***************************************************************************)
(* Maintenance of the nodes of an OpenStack cluster.                       *)
(*                                                                         *)
(* The cluster's life cycle manager (LCM, outside this repository) asks    *)
(* for a node by creating a NodeMaintenanceRequest (NMR), may drain or     *)
(* reboot the node once the node's NodeWorkloadLock (NWL) is "inactive",   *)
(* and deletes the request when it is done.  Two controller processes,     *)
(* separate containers of one pod, share the locks through the Kubernetes  *)
(* API:                                                                    *)
(*   "nmr"   controllers/maintenance.py: the NMR handlers; one kopf worker *)
(*           thread per request, serialised per request by kopf;           *)
(*   "node"  controllers/node.py: keeps a lock present for every node that *)
(*           runs OpenStack workloads.                                     *)
(* pc[w][n] is where the worker of process w for node n stands.  Every     *)
(* step makes at most one API call that other workers can observe, so the  *)
(* steps of different workers interleave as the API calls do.              *)
(*                                                                         *)
(* Which nodes exist and their role labels are fixed here (NodeRemoval     *)
(* has the life cycle of a node).  Error messages on the lock, written for *)
(* people, are left out.                                                   *)
(***************************************************************************)
EXTENDS Naturals, FiniteSets

CONSTANTS
  Node,              \* the nodes; numbers, in the order the API lists them
  NodeRoles,         \* NodeRoles[n]: the OpenStack role labels of n
  MaxParallel,       \* MaxParallel[r]: nwl_parallel_max_* (1 for controllers)
  Zone,              \* Zone[n]: the nova availability zone of compute n
  RespectNovaAz,     \* the option maintenance:respect_nova_az
  MigrationMode,     \* the node annotation instance_migration_mode
  VolumeNode,        \* the nodes that run a cinder-volume service
  FreshStart,        \* no lock yet, or a cluster at work with all its locks
  FirstRelease,      \* OSCTL_CLUSTER_RELEASE of the first controller, 0: unset
  MaxRelease,        \* bound: controller upgrades stop at this release
  Scope,             \* bound: the scopes a request may have
  MaxServers,        \* bound: running servers per compute host
  MaxRequests,       \* bound: maintenance requests per node
  MaxFaults,         \* bound: crashes, node outages and API failures in all
  Disturbance        \* the disturbances of the environment that may happen

Disturbances == {"restart", "api", "node", "update", "osdpl", "operator"}
Role == {"compute", "gateway", "controller"}
Worker == {"nmr", "node"}
NoNode == 0

ASSUME NodeAssumption ==
  /\ Node \subseteq Nat \ {NoNode} /\ IsFiniteSet(Node)
  /\ \A n \in Node : NodeRoles[n] \subseteq Role
  /\ MaxParallel \in [Role -> Nat]
  /\ VolumeNode \subseteq Node /\ FreshStart \in BOOLEAN

ASSUME BoundAssumption ==
  /\ FirstRelease \in Nat /\ MaxRelease \in Nat
  /\ MaxServers \in Nat /\ MaxRequests \in Nat /\ MaxFaults \in Nat
  /\ Scope \subseteq {"drain", "os"} /\ Disturbance \subseteq Disturbances

VARIABLES
  lock,          \* lock[n]: the NodeWorkloadLock of n
  nmr,           \* nmr[n]: the NodeMaintenanceRequest for n
  scope,         \* scope[n]: "drain", or "os" when the node may be rebooted
  event,         \* event[w][n]: kopf owes worker w a call for its object
  pc,            \* pc[w][n]: the next step of worker w on node n
  mutex,         \* holder of MAINTENANCE_LOCK, process "nmr" only
  osctlRelease,  \* OSCTL_CLUSTER_RELEASE of the running controllers
  osdpl,         \* the OpenStackDeployment object exists
  up,            \* up[n]: node ready, its pods ready, its agents up
  compute,       \* compute[n]: the nova-compute service of n
  volume,        \* volume[n]: the cinder-volume service of n
  servers,       \* servers[n]: running instances on compute host n
  unseen,        \* history: nodes whose service an operator has disabled after
                 \* a handler read it and before the handler's update
  requests,      \* requests[n]: requests made for n so far
  faults         \* faults so far

openstackVars == <<osdpl, up, compute, volume, servers, unseen>>
lcmVars == <<nmr, scope, requests>>
vars == <<lock, lcmVars, event, pc, mutex, osctlRelease, openstackVars, faults>>

NoLock == [present |-> FALSE, state |-> "active", inner |-> "inactive",
           release |-> 0]
LockType == [present: BOOLEAN, state: {"active", "inactive"},
             inner: {"active", "inactive"}, release: Nat]

\* A service is "absent" from the node, enabled, disabled with the
\* controller's reason ("maintenance") or with somebody else's ("operator").
ServiceState == {"absent", "enabled", "maintenance", "operator"}

PresentStep == {"present", "setActive", "getRelease", "setState", "setRelease"}
ChangeStep == {"acquire", "setInner", "osdpl", "services", "reassert",
               "disableCompute", "writeDisabled", "migrate", "disableVolume",
               "release"}
DeleteStep == {"waitReady", "enableVolume", "waitUp", "enableCompute",
               "writeEnabled", "unsetInner", "reactivate"}
Step == {"idle"} \cup PresentStep \cup ChangeStep \cup DeleteStep

(***************************************************************************)
(* The helpers of maintenance.py.                                          *)
(***************************************************************************)
required_for_node(n) == NodeRoles[n] # {}

is_maintenance(n) == lock[n].inner = "active"

\* The nodes with role r under maintenance: maintenance_locks()[r].
maintenance_locks(r) == {n \in Node : is_maintenance(n) /\ r \in NodeRoles[n]}

\* Mutation: off by one.
RoomOffByOne == \A r \in Role : Cardinality(maintenance_locks(r)) <= MaxParallel[r]

\* Room for one more node in every role, not only in the roles of the node
\* that asks: the loop of the code runs over all of them.
can_handle_nmr == \A r \in Role : Cardinality(maintenance_locks(r)) < MaxParallel[r]

\* Nova knows no zone for the node.
NoZone == ""

\* Nova.can_handle_nmr compares n with the FIRST compute lock of the list.
FirstComputeLock ==
  CHOOSE m \in maintenance_locks("compute") :
    \A k \in maintenance_locks("compute") : m <= k

NovaCanHandleNmr(n) ==
  "compute" \in NodeRoles[n] /\ RespectNovaAz /\ maintenance_locks("compute") # {}
    => Zone[n] \in {NoZone, Zone[FirstComputeLock]}

Goto(w, n, from, to) ==
  /\ pc[w][n] = from
  /\ pc' = [pc EXCEPT ![w][n] = to]

\* A kopf.TemporaryError (or any other exception) ends the attempt; kopf
\* calls the handler again later.
Retry(n, from) ==
  /\ Goto("nmr", n, from, "idle")
  /\ event' = [event EXCEPT !["nmr"][n] = TRUE]

(***************************************************************************)
(* Mutations: plausible bugs in the definitions below that the properties  *)
(* must catch.                                                             *)
(***************************************************************************)
\* MAINTENANCE_LOCK is not taken.
AcquireUnlocked(n) ==
  /\ is_maintenance(n) \/ can_handle_nmr
  /\ Goto("nmr", n, "acquire", "setInner")
  /\ UNCHANGED <<lock, lcmVars, event, mutex, osctlRelease, openstackVars, faults>>

\* MAINTENANCE_LOCK is not given back.
SetInnerKeepsMutex(n) ==
  /\ Goto("nmr", n, "setInner", "osdpl")
  /\ lock' = [lock EXCEPT ![n].inner = "active"]
  /\ UNCHANGED <<lcmVars, event, mutex, osctlRelease, openstackVars, faults>>

\* The service is disabled whatever its state, as in Cinder.
DisableOverwrites(n) ==
  /\ Goto("nmr", n, "disableCompute",
          IF compute[n] = "absent" THEN "disableVolume" ELSE "writeDisabled")
  /\ unseen' = unseen \ {n}
  /\ UNCHANGED <<lock, lcmVars, event, mutex, osctlRelease, osdpl, up, compute,
                 volume, servers, faults>>

\* The migration's result is not checked.
MigratedUnchecked(n) ==
  /\ Goto("nmr", n, "migrate", "disableVolume")
  /\ UNCHANGED <<lock, lcmVars, event, mutex, osctlRelease, openstackVars, faults>>

\* Services are restored only if the node was handed over.
DeleteStartReleased(n) ==
  /\ nmr[n] = "deleting"
  /\ required_for_node(n) /\ lock[n].present
  /\ Goto("nmr", n, "idle",
          IF osdpl /\ lock[n].state = "inactive" THEN "waitReady" ELSE "unsetInner")
  /\ UNCHANGED <<lock, lcmVars, event, mutex, osctlRelease, openstackVars, faults>>

\* The node handler is not registered for kopf's resume.
NoResumeForNodes(w) ==
  [n \in Node |-> w = "nmr" /\ nmr[n] = "requested"]

(***************************************************************************)
(* LockBase.present(), called by both processes.                           *)
(***************************************************************************)
AfterPresent(w) == IF w = "nmr" THEN "acquire" ELSE "idle"

AfterObject(w) == IF osctlRelease = 0 THEN AfterPresent(w) ELSE "getRelease"

\* A lock that exists is merged with its template, which keeps its states;
\* a new one is created (its default state is "active") ...
PresentObject(w, n) ==
  /\ Goto(w, n, "present", IF lock[n].present THEN AfterObject(w) ELSE "setActive")
  /\ lock' = IF lock[n].present THEN lock
             ELSE [lock EXCEPT ![n] = [NoLock EXCEPT !.present = TRUE]]
  /\ UNCHANGED <<lcmVars, event, mutex, osctlRelease, openstackVars, faults>>

\* ... and its state is written by a second call.
PresentSetActive(w, n) ==
  /\ Goto(w, n, "setActive", AfterObject(w))
  /\ lock' = [lock EXCEPT ![n].state = "active"]
  /\ UNCHANGED <<lcmVars, event, mutex, osctlRelease, openstackVars, faults>>

PresentGetRelease(w, n) ==
  /\ Goto(w, n, "getRelease",
          IF lock[n].release = osctlRelease THEN AfterPresent(w) ELSE "setState")
  /\ UNCHANGED <<lock, lcmVars, event, mutex, osctlRelease, openstackVars, faults>>

PresentSetState(w, n) ==
  /\ Goto(w, n, "setState", "setRelease")
  /\ lock' = [lock EXCEPT ![n].state = "active"]
  /\ UNCHANGED <<lcmVars, event, mutex, osctlRelease, openstackVars, faults>>

PresentSetRelease(w, n) ==
  /\ Goto(w, n, "setRelease", AfterPresent(w))
  /\ lock' = [lock EXCEPT ![n].release = osctlRelease]
  /\ UNCHANGED <<lcmVars, event, mutex, osctlRelease, openstackVars, faults>>

Present(w, n) ==
  \/ PresentObject(w, n)
  \/ PresentSetActive(w, n)
  \/ PresentGetRelease(w, n)
  \/ PresentSetState(w, n)
  \/ PresentSetRelease(w, n)

(***************************************************************************)
(* node_change_handler of process "node".                                  *)
(***************************************************************************)
NodeChange(n) ==
  /\ event["node"][n]
  /\ event' = [event EXCEPT !["node"][n] = FALSE]
  /\ Goto("node", n, "idle", IF required_for_node(n) THEN "present" ELSE "idle")
  /\ lock' = IF required_for_node(n) THEN lock ELSE [lock EXCEPT ![n] = NoLock]
  /\ UNCHANGED <<lcmVars, mutex, osctlRelease, openstackVars, faults>>

(***************************************************************************)
(* _node_maintenance_request_change_handler of process "nmr".              *)
(***************************************************************************)
ChangeStart(n) ==
  /\ nmr[n] = "requested"
  /\ event["nmr"][n]
  /\ event' = [event EXCEPT !["nmr"][n] = FALSE]
  /\ Goto("nmr", n, "idle", IF required_for_node(n) THEN "present" ELSE "idle")
  /\ UNCHANGED <<lock, lcmVars, mutex, osctlRelease, openstackVars, faults>>

\* acquire_internal_lock: the check, under MAINTENANCE_LOCK ...
AcquireCheck(n) ==
  /\ mutex = NoNode
  /\ is_maintenance(n) \/ can_handle_nmr
  /\ Goto("nmr", n, "acquire", "setInner")
  /\ mutex' = n
  /\ UNCHANGED <<lock, lcmVars, event, osctlRelease, openstackVars, faults>>

AcquireDefer(n) ==
  /\ mutex = NoNode
  /\ ~is_maintenance(n) /\ ~can_handle_nmr
  /\ Retry(n, "acquire")
  /\ UNCHANGED <<lock, lcmVars, mutex, osctlRelease, openstackVars, faults>>

\* ... and the update, before the lock is given back.
AcquireSetInner(n) ==
  /\ Goto("nmr", n, "setInner", "osdpl")
  /\ lock' = [lock EXCEPT ![n].inner = "active"]
  /\ mutex' = NoNode
  /\ UNCHANGED <<lcmVars, event, osctlRelease, openstackVars, faults>>

CheckOsdpl(n) ==
  /\ Goto("nmr", n, "osdpl",
          IF osdpl /\ lock[n].state = "active" THEN "services" ELSE "release")
  /\ UNCHANGED <<lock, lcmVars, event, mutex, osctlRelease, openstackVars, faults>>

\* can_handle_nmr of every service: nova looks at availability zones; the
\* databases refuse any node while too few of their pods are ready (module
\* DatabaseQuorum), so that any answer is possible here.
ServicesAccept(n) ==
  /\ NovaCanHandleNmr(n)
  /\ Goto("nmr", n, "services", "reassert")
  /\ UNCHANGED <<lock, lcmVars, event, mutex, osctlRelease, openstackVars, faults>>

ServicesDefer(n) ==
  /\ Retry(n, "services")
  /\ UNCHANGED <<lock, lcmVars, mutex, osctlRelease, openstackVars, faults>>

Reassert(n) ==
  /\ Goto("nmr", n, "reassert", "disableCompute")
  /\ lock' = [lock EXCEPT ![n].inner = "active"]
  /\ UNCHANGED <<lcmVars, event, mutex, osctlRelease, openstackVars, faults>>

AfterDisabled(n) == IF scope[n] = "os" THEN "migrate" ELSE "disableVolume"

\* Nova.remove_node_from_scheduling reads the service, and leaves one that is
\* disabled already as it is ...
DisableCompute(n) ==
  /\ Goto("nmr", n, "disableCompute",
          IF compute[n] = "enabled" THEN "writeDisabled" ELSE AfterDisabled(n))
  /\ unseen' = unseen \ {n}
  /\ UNCHANGED <<lock, lcmVars, event, mutex, osctlRelease, osdpl, up, compute,
                 volume, servers, faults>>

\* ... and disables it by a second call, whatever it has become since.
WriteDisabled(n) ==
  /\ Goto("nmr", n, "writeDisabled", AfterDisabled(n))
  /\ compute' = [compute EXCEPT ![n] = "maintenance"]
  /\ UNCHANGED <<lock, lcmVars, event, mutex, osctlRelease, osdpl, up, volume,
                 servers, unseen, faults>>

\* Nova.prepare_node_for_reboot, once its migration loop has ended: the
\* check that no running server is left (module InstanceMigration has the
\* loop).  Mode "skip" asks for no migration and makes no check.
Migrated(n) ==
  /\ MigrationMode[n] = "skip" \/ servers[n] = 0
  /\ Goto("nmr", n, "migrate", "disableVolume")
  /\ UNCHANGED <<lock, lcmVars, event, mutex, osctlRelease, openstackVars, faults>>

MigrateDefer(n) ==
  /\ MigrationMode[n] # "skip" /\ servers[n] > 0
  /\ Retry(n, "migrate")
  /\ UNCHANGED <<lock, lcmVars, mutex, osctlRelease, openstackVars, faults>>

\* Cinder.remove_node_from_scheduling always writes its own reason.
DisableVolume(n) ==
  /\ Goto("nmr", n, "disableVolume", "release")
  /\ volume' = [volume EXCEPT ![n] = IF @ = "absent" THEN @ ELSE "maintenance"]
  /\ UNCHANGED <<lock, lcmVars, event, mutex, osctlRelease, osdpl, up, compute,
                 servers, unseen, faults>>

Release(n) ==
  /\ Goto("nmr", n, "release", "idle")
  /\ lock' = [lock EXCEPT ![n].state = "inactive"]
  /\ UNCHANGED <<lcmVars, event, mutex, osctlRelease, openstackVars, faults>>

ChangeHandler(n) ==
  \/ ChangeStart(n)
  \/ AcquireCheck(n) \/ AcquireDefer(n) \/ AcquireSetInner(n)
  \/ CheckOsdpl(n)
  \/ ServicesAccept(n) \/ ServicesDefer(n)
  \/ Reassert(n)
  \/ DisableCompute(n) \/ WriteDisabled(n)
  \/ Migrated(n) \/ MigrateDefer(n) \/ DisableVolume(n)
  \/ Release(n)

(***************************************************************************)
(* _node_maintenance_request_delete_handler of process "nmr".              *)
(***************************************************************************)
\* Reading a lock that does not exist fails; kopf retries until it does.
DeleteStart(n) ==
  /\ nmr[n] = "deleting"
  /\ required_for_node(n) /\ lock[n].present
  /\ Goto("nmr", n, "idle",
          IF osdpl /\ is_maintenance(n) THEN "waitReady" ELSE "unsetInner")
  /\ UNCHANGED <<lock, lcmVars, event, mutex, osctlRelease, openstackVars, faults>>

DeleteNotRequired(n) ==
  /\ nmr[n] = "deleting"
  /\ pc["nmr"][n] = "idle"
  /\ ~required_for_node(n)
  /\ lock' = [lock EXCEPT ![n] = NoLock]
  /\ nmr' = [nmr EXCEPT ![n] = "none"]
  /\ UNCHANGED <<pc, scope, requests, event, mutex, osctlRelease, openstackVars,
                 faults>>

WaitReady(n) ==
  /\ up[n]
  /\ Goto("nmr", n, "waitReady", "enableVolume")
  /\ UNCHANGED <<lock, lcmVars, event, mutex, osctlRelease, openstackVars, faults>>

\* The services are visited in reverse: block storage, networking, compute.
EnableVolume(n) ==
  /\ Goto("nmr", n, "enableVolume", "waitUp")
  /\ volume' = [volume EXCEPT ![n] = IF @ = "maintenance" THEN "enabled" ELSE @]
  /\ UNCHANGED <<lock, lcmVars, event, mutex, osctlRelease, osdpl, up, compute,
                 servers, unseen, faults>>

\* Neutron and Nova.prepare_node_after_reboot wait 300s for agents and
\* services, then give up.
WaitUp(n) ==
  /\ up[n]
  /\ Goto("nmr", n, "waitUp", "enableCompute")
  /\ UNCHANGED <<lock, lcmVars, event, mutex, osctlRelease, openstackVars, faults>>

WaitUpTimeout(n) ==
  /\ ~up[n]
  /\ Retry(n, "waitUp")
  /\ UNCHANGED <<lock, lcmVars, mutex, osctlRelease, openstackVars, faults>>

\* Nova.add_node_to_scheduling reads the service, and goes on if the reason is
\* the controller's own ...
EnableCompute(n) ==
  /\ Goto("nmr", n, "enableCompute",
          IF compute[n] = "maintenance" THEN "writeEnabled" ELSE "unsetInner")
  /\ unseen' = unseen \ {n}
  /\ UNCHANGED <<lock, lcmVars, event, mutex, osctlRelease, osdpl, up, compute,
                 volume, servers, faults>>

\* ... to enable it.
WriteEnabled(n) ==
  /\ Goto("nmr", n, "writeEnabled", "unsetInner")
  /\ compute' = [compute EXCEPT ![n] = "enabled"]
  /\ UNCHANGED <<lock, lcmVars, event, mutex, osctlRelease, osdpl, up, volume,
                 servers, unseen, faults>>

UnsetInner(n) ==
  /\ Goto("nmr", n, "unsetInner", "reactivate")
  /\ lock' = [lock EXCEPT ![n].inner = "inactive"]
  /\ UNCHANGED <<lcmVars, event, mutex, osctlRelease, openstackVars, faults>>

\* When the handler returns, kopf takes its finalizer off the request.
Reactivate(n) ==
  /\ Goto("nmr", n, "reactivate", "idle")
  /\ lock' = [lock EXCEPT ![n].state = "active"]
  /\ nmr' = [nmr EXCEPT ![n] = "none"]
  /\ event' = [event EXCEPT !["nmr"][n] = FALSE]
  /\ UNCHANGED <<scope, requests, mutex, osctlRelease, openstackVars, faults>>

DeleteHandler(n) ==
  \/ DeleteStart(n) \/ DeleteNotRequired(n)
  \/ WaitReady(n) \/ EnableVolume(n) \/ WaitUp(n) \/ WaitUpTimeout(n)
  \/ EnableCompute(n) \/ WriteEnabled(n) \/ UnsetInner(n) \/ Reactivate(n)

(***************************************************************************)
(* Faults.                                                                 *)
(***************************************************************************)
Fault(kind) ==
  /\ kind \in Disturbance
  /\ faults < MaxFaults
  /\ faults' = faults + 1

\* kopf's resume handlers: a restarted process sees all its objects again.
ResumeEvents(w) ==
  IF w = "nmr" THEN [n \in Node |-> nmr[n] = "requested"] ELSE [n \in Node |-> TRUE]

\* The container of process w dies and is started again.
Restart(w) ==
  /\ Fault("restart")
  /\ pc' = [pc EXCEPT ![w] = [n \in Node |-> "idle"]]
  /\ event' = [event EXCEPT ![w] = ResumeEvents(w)]
  /\ mutex' = IF w = "nmr" THEN NoNode ELSE mutex
  /\ UNCHANGED <<lock, lcmVars, osctlRelease, openstackVars>>

\* The pod is replaced (strategy Recreate) by one of the next release.
Upgrade ==
  /\ osctlRelease < MaxRelease
  /\ osctlRelease' = osctlRelease + 1
  /\ pc' = [w \in Worker |-> [n \in Node |-> "idle"]]
  /\ event' = [w \in Worker |-> ResumeEvents(w)]
  /\ mutex' = NoNode
  /\ UNCHANGED <<lock, lcmVars, openstackVars, faults>>

\* An OpenStack API call raises SDKException.
ApiFailure(n) ==
  /\ Fault("api")
  /\ \E s \in {"services", "disableCompute", "writeDisabled", "migrate",
               "disableVolume", "enableVolume", "waitUp", "enableCompute",
               "writeEnabled"} : Retry(n, s)
  /\ UNCHANGED <<lock, lcmVars, mutex, osctlRelease, openstackVars>>

\* The node goes down: a reboot by the LCM, or a failure.
NodeDown(n) ==
  /\ Fault("node")
  /\ up[n]
  /\ up' = [up EXCEPT ![n] = FALSE]
  /\ UNCHANGED <<lock, lcmVars, event, pc, mutex, osctlRelease, osdpl, compute,
                 volume, servers, unseen>>

NodeUp(n) ==
  /\ ~up[n]
  /\ up' = [up EXCEPT ![n] = TRUE]
  /\ UNCHANGED <<lock, lcmVars, event, pc, mutex, osctlRelease, osdpl, compute,
                 volume, servers, unseen, faults>>

(***************************************************************************)
(* The environment: LCM, Kubernetes, nova's scheduler, operators.          *)
(***************************************************************************)
CreateNmr(n) ==
  /\ nmr[n] = "none"
  /\ requests[n] < MaxRequests
  /\ nmr' = [nmr EXCEPT ![n] = "requested"]
  /\ \E s \in Scope : scope' = [scope EXCEPT ![n] = s]
  /\ requests' = [requests EXCEPT ![n] = @ + 1]
  /\ event' = [event EXCEPT !["nmr"][n] = TRUE]
  /\ UNCHANGED <<lock, pc, mutex, osctlRelease, openstackVars, faults>>

\* The request may be withdrawn at any time.
DeleteNmr(n) ==
  /\ nmr[n] = "requested"
  /\ nmr' = [nmr EXCEPT ![n] = "deleting"]
  /\ UNCHANGED <<lock, scope, requests, event, pc, mutex, osctlRelease,
                 openstackVars, faults>>

\* An update of the request (its scope is not changed) or of the node.
UpdateObject(w, n) ==
  /\ "update" \in Disturbance
  /\ w = "nmr" => nmr[n] = "requested"
  /\ event' = [event EXCEPT ![w][n] = TRUE]
  /\ UNCHANGED <<lock, lcmVars, pc, mutex, osctlRelease, openstackVars, faults>>

DeleteOsdpl ==
  /\ "osdpl" \in Disturbance
  /\ osdpl
  /\ osdpl' = FALSE
  /\ UNCHANGED <<lock, lcmVars, event, pc, mutex, osctlRelease, up, compute,
                 volume, servers, unseen, faults>>

StartServer(n) ==
  /\ compute[n] = "enabled" /\ up[n] /\ servers[n] < MaxServers
  /\ servers' = [servers EXCEPT ![n] = @ + 1]
  /\ UNCHANGED <<lock, lcmVars, event, pc, mutex, osctlRelease, osdpl, up,
                 compute, volume, unseen, faults>>

\* A server is migrated away (by the controller or by hand) or stopped.
ServerGone(n) ==
  /\ servers[n] > 0
  /\ servers' = [servers EXCEPT ![n] = @ - 1]
  /\ UNCHANGED <<lock, lcmVars, event, pc, mutex, osctlRelease, osdpl, up,
                 compute, volume, unseen, faults>>

OperatorDisable(n) ==
  /\ "operator" \in Disturbance
  /\ compute[n] \in {"enabled", "maintenance"}
  /\ compute' = [compute EXCEPT ![n] = "operator"]
  /\ unseen' = IF pc["nmr"][n] \in {"writeDisabled", "writeEnabled"}
               THEN unseen \cup {n} ELSE unseen
  /\ UNCHANGED <<lock, lcmVars, event, pc, mutex, osctlRelease, osdpl, up,
                 volume, servers, faults>>

\* Operators do not put a host back to work while it is in maintenance.
OperatorEnable(n) ==
  /\ "operator" \in Disturbance
  /\ compute[n] = "operator" /\ nmr[n] = "none"
  /\ compute' = [compute EXCEPT ![n] = "enabled"]
  /\ UNCHANGED <<lock, lcmVars, event, pc, mutex, osctlRelease, osdpl, up,
                 volume, servers, unseen, faults>>

Environment ==
  \/ Upgrade \/ DeleteOsdpl
  \/ \E w \in Worker : Restart(w)
  \/ \E n \in Node :
       \/ ApiFailure(n) \/ NodeDown(n) \/ NodeUp(n)
       \/ CreateNmr(n) \/ DeleteNmr(n)
       \/ \E w \in Worker : UpdateObject(w, n)
       \/ StartServer(n) \/ ServerGone(n)
       \/ OperatorDisable(n) \/ OperatorEnable(n)

-----------------------------------------------------------------------------
Init ==
  /\ osctlRelease = FirstRelease
  /\ lock = [n \in Node |->
               IF FreshStart \/ ~required_for_node(n) THEN NoLock
               ELSE [NoLock EXCEPT !.present = TRUE, !.release = FirstRelease]]
  /\ nmr = [n \in Node |-> "none"]
  /\ scope = [n \in Node |-> "drain"]
  /\ event = [w \in Worker |-> [n \in Node |-> w = "node" /\ FreshStart]]
  /\ pc = [w \in Worker |-> [n \in Node |-> "idle"]]
  /\ mutex = NoNode
  /\ osdpl = TRUE
  /\ up = [n \in Node |-> TRUE]
  /\ compute = [n \in Node |->
                  IF "compute" \in NodeRoles[n] THEN "enabled" ELSE "absent"]
  /\ volume = [n \in Node |-> IF n \in VolumeNode THEN "enabled" ELSE "absent"]
  /\ servers = [n \in Node |-> 0] /\ unseen = {}
  /\ requests = [n \in Node |-> 0]
  /\ faults = 0

NmrWorker(n) == Present("nmr", n) \/ ChangeHandler(n) \/ DeleteHandler(n)
NodeWorker(n) == Present("node", n) \/ NodeChange(n)

Next ==
  \/ \E n \in Node : NmrWorker(n) \/ NodeWorker(n)
  \/ Environment

Spec == Init /\ [][Next]_vars

(***************************************************************************)
(* Fairness: every worker goes on with the handler it runs, and kopf calls *)
(* a handler that it owes a call; the LCM ends a request whose lock it     *)
(* got; nodes come back; servers of a host that must be emptied are        *)
(* migrated in the end; the databases do not refuse a node at every        *)
(* attempt.                                                                *)
(***************************************************************************)
Released(n) == nmr[n] = "requested" /\ lock[n].state = "inactive"

Fairness ==
  /\ \A n \in Node :
       /\ WF_vars(NmrWorker(n))
       /\ WF_vars(NodeWorker(n))
       /\ WF_vars(Released(n) /\ DeleteNmr(n))
       /\ WF_vars(NodeUp(n))
       /\ WF_vars(compute[n] # "enabled" /\ ServerGone(n))
       /\ SF_vars(ServicesAccept(n))

FairSpec == Spec /\ Fairness

-----------------------------------------------------------------------------
(* Properties. *)

\* The variables hold values of their types.
TypeOK ==
  /\ lock \in [Node -> LockType]
  /\ nmr \in [Node -> {"none", "requested", "deleting"}]
  /\ scope \in [Node -> {"drain", "os"}]
  /\ event \in [Worker -> [Node -> BOOLEAN]]
  /\ pc \in [Worker -> [Node -> Step]]
  /\ mutex \in Node \cup {NoNode}
  /\ osctlRelease \in Nat
  /\ osdpl \in BOOLEAN
  /\ up \in [Node -> BOOLEAN]
  /\ compute \in [Node -> ServiceState]
  /\ volume \in [Node -> ServiceState]
  /\ servers \in [Node -> Nat]
  /\ unseen \subseteq Node
  /\ requests \in [Node -> Nat]
  /\ faults \in Nat

\* The LCM is never given more nodes of a role at the same time than the
\* configuration allows: nodes whose lock is released while their request
\* stands (acquire_internal_lock and the order of the delete handler's
\* last two updates).
ReleasedWithinLimits ==
  \A r \in Role :
    Cardinality({n \in Node : Released(n) /\ r \in NodeRoles[n]}) <= MaxParallel[r]

\* A node whose lock is released takes no new work, and holds no running
\* server when it may be rebooted: process_nmr runs to its end before
\* set_state_inactive, also across crashes, retries and upgrades.
ReleasedIsDrained ==
  \A n \in Node :
    Released(n) /\ osdpl =>
      /\ compute[n] # "enabled"
      /\ volume[n] \in {"absent", "maintenance"}
      /\ scope[n] = "os" /\ MigrationMode[n] # "skip" => servers[n] = 0

\* A finished request leaves nothing behind: the lock is taken again, the
\* slot is free and the services disabled for maintenance are enabled,
\* whatever crashed or was retried on the way.
NothingLeftBehind ==
  \A n \in Node :
    nmr[n] = "none" =>
      /\ lock[n].state = "active" /\ lock[n].inner = "inactive"
      /\ osdpl => compute[n] # "maintenance" /\ volume[n] # "maintenance"

\* A compute service that an operator disabled stays so until the operator
\* enables it, over any number of requests, retries and crashes: what
\* compute_ensure_service_disabled finds disabled keeps its reason, and
\* add_node_to_scheduling enables only what carries the controller's own.  A
\* decision between one handler's read of the service and its update is lost.
OperatorDecisionKept ==
  [][\A n \in Node :
       compute[n] = "operator" /\ compute'[n] # "operator" =>
         OperatorEnable(n) \/ n \in unseen]_vars

\* "parallel update is allowed only for computes in same AZ"
\* (docs/architecture/openstack-controller/configuration.md).
ParallelOnlyInSameZone ==
  RespectNovaAz =>
    \A n, m \in Node :
      /\ Released(n) /\ "compute" \in NodeRoles[n]
      /\ Released(m) /\ "compute" \in NodeRoles[m]
      => Zone[n] = Zone[m]

\* Every request is served: its lock is released, or it is withdrawn.  Nodes
\* make finitely many requests (MaxRequests): acquire_internal_lock has no
\* queue, and nodes that ask again and again could take every free slot.
RequestServed ==
  \A n \in Node :
    nmr[n] = "requested" /\ required_for_node(n) ~>
      lock[n].state = "inactive" \/ nmr[n] # "requested"

\* A node whose handler is neither running nor owed a call has a lock, and
\* the lock carries the release of the running controllers, whatever both
\* processes did to it before: the docstring of NodeWorkloadLock ("Should be
\* present for each node that we care about") across restarts, upgrades and
\* requests.  LCM waits for locks of the release it has installed.
LockCurrent ==
  \A n \in Node :
    required_for_node(n) /\ pc["node"][n] = "idle" /\ ~event["node"][n] =>
      lock[n].present /\ (osctlRelease # 0 => lock[n].release = osctlRelease)

\* The controller implements MaintenanceSlots: slots are the nodes whose
\* lock has the inner state "active", open are the released ones.
Slots == INSTANCE MaintenanceSlots WITH
           slots <- {n \in Node : is_maintenance(n)},
           open <- {n \in Node : Released(n)}

SlotsSpec == Slots!SlotsSpec

-----------------------------------------------------------------------------
(* The inductive invariants behind the safety properties. *)

\* The steps at which the change handler has its slot.
HoldingStep == {"osdpl", "services", "reassert", "disableCompute",
                "writeDisabled", "migrate", "disableVolume", "release"}

\* A missing lock and an idle worker carry no trace of a request.
AbsentInv ==
  \A n \in Node :
    /\ ~lock[n].present =>
         lock[n] = NoLock /\ \A w \in Worker : pc[w][n] \in {"idle", "present"}
    /\ ~required_for_node(n) =>
         lock[n] = NoLock /\ pc["nmr"][n] = "idle" /\ pc["node"][n] = "idle"
    /\ nmr[n] = "none" => pc["nmr"][n] = "idle" /\ lock[n].state = "active"

\* The worker between the check and the update of acquire_internal_lock is
\* the one that holds MAINTENANCE_LOCK, and what it checked still holds.
MutexInv ==
  \A n \in Node : pc["nmr"][n] = "setInner" =>
    mutex = n /\ (is_maintenance(n) \/ can_handle_nmr)

\* A node in the hands of the change handler, or released, has a slot; only
\* a deleted request gives it back.
HoldInv ==
  \A n \in Node :
    /\ pc["nmr"][n] \in HoldingStep => is_maintenance(n)
    /\ pc["nmr"][n] \in DeleteStep => nmr[n] = "deleting"
    /\ Released(n) => is_maintenance(n)

LimitInv == \A r \in Role : Cardinality(maintenance_locks(r)) <= MaxParallel[r]

SlotInv == AbsentInv /\ MutexInv /\ HoldInv /\ LimitInv

\* What the handlers have done to the services of a node at each step.
NoNewWork(n) == compute[n] # "enabled"
Emptied(n) == scope[n] = "os" /\ MigrationMode[n] # "skip" => servers[n] = 0
NoNewVolumes(n) == volume[n] \in {"absent", "maintenance"}

DrainInv ==
  \A n \in Node : nmr[n] = "requested" /\ osdpl =>
    /\ pc["nmr"][n] \in {"migrate", "disableVolume", "release"} => NoNewWork(n)
    /\ pc["nmr"][n] \in {"disableVolume", "release"} => Emptied(n)
    /\ pc["nmr"][n] = "release" => NoNewVolumes(n)
    /\ lock[n].state = "inactive" => NoNewWork(n) /\ Emptied(n) /\ NoNewVolumes(n)

RestoreInv ==
  \A n \in Node :
    /\ pc["nmr"][n] = "reactivate" \/ nmr[n] = "none" => ~is_maintenance(n)
    /\ osdpl /\ compute[n] = "maintenance" =>
         is_maintenance(n) /\ pc["nmr"][n] \notin {"unsetInner", "reactivate"}
    /\ osdpl /\ volume[n] = "maintenance" =>
         is_maintenance(n) /\ pc["nmr"][n] \notin
           {"waitUp", "enableCompute", "writeEnabled", "unsetInner", "reactivate"}

\* A handler about to write overlooks only a decision made after its read.
ReadInv ==
  \A n \in Node : pc["nmr"][n] \in {"writeDisabled", "writeEnabled"} =>
    compute[n] # "operator" \/ n \in unseen
=============================================================================
