---------------------------- MODULE NodeRemoval ----------------------------
(***************************************************************************)
(* The life of one Kubernetes node: it is added, relabelled, disabled,     *)
(* prepared for deletion and deleted, possibly added again, while four     *)
(* kinds of handlers follow its objects:                                   *)
(*   "node"  controllers/node.py: node_change_handler, node_delete_handler *)
(*   "ndr"   controllers/maintenance.py: NodeDeletionRequest changes       *)
(*   "nwl"   controllers/maintenance.py: NodeWorkloadLock deletion, which  *)
(*           removes what OpenStack knows of the node                      *)
(*   "ndn"   controllers/maintenance.py: NodeDisableNotification deletion  *)
(* Process "node" is one container, the other three share another one.     *)
(* kopf keeps a finalizer on the objects whose deletion it handles, so an  *)
(* object that is being deleted is still there for every reader.           *)
(*                                                                         *)
(* Nodes do not meet each other here except through the databases, whose   *)
(* answer (is_node_locked, module DatabaseQuorum) may be any.              *)
(***************************************************************************)
EXTENDS Naturals, Sequences

CONSTANTS
  SkipChecks,   \* options ndr_skip_instance_check and ndr_skip_volume_check
  Allowed,      \* what users and the environment may do, see Changes
  MaxChanges    \* bound: such changes, crashes included

Changes == {"relabel", "readd", "delete", "disable", "request", "withdraw",
            "reenable", "undeploy", "crash"}

ASSUME RemovalAssumption ==
  SkipChecks \in BOOLEAN /\ Allowed \subseteq Changes /\ MaxChanges \in Nat

Handler == {"node", "ndr", "nwl", "ndn"}
Phase == {"absent", "present", "deleting"}

\* reversed(ORDERED_SERVICES) after the databases: what has records of nodes.
Listed == <<"block-storage", "networking", "compute">>
Services == {Listed[i] : i \in DOMAIN Listed}

VARIABLES
  node,       \* the Kubernetes node object
  label,      \* the node carries an OpenStack role label
  nwl,        \* the NodeWorkloadLock: phase and state
  ndr,        \* a NodeDeletionRequest for the node exists
  ndn,        \* the NodeDisableNotification for the node
  osdpl,      \* the OpenStackDeployment exists
  agents,     \* OpenStack services run on the node
  records,    \* the services that list agents of the node
  data,       \* database volume claims are bound to the node
  disabled,   \* the services are disabled for new work
  workload,   \* instances or volumes are placed on the node
  event,      \* event[h]: kopf owes handler h ("node", "ndr") a call
  pc,         \* pc[h]: the next step of handler h
  cleaning,   \* the service of Listed that handler "nwl" cleans up
  changes     \* changes so far

openstackVars == <<osdpl, agents, records, data, disabled, workload>>
vars == <<node, label, nwl, ndr, ndn, openstackVars, event, pc, cleaning, changes>>

NewLock == [phase |-> "present", state |-> "active"]
NoLock == [phase |-> "absent", state |-> "active"]

Goto(h, from, to) == pc[h] = from /\ pc' = [pc EXCEPT ![h] = to]

\* kopf.TemporaryError: the handler is called again later.
Retry(h, from) ==
  /\ Goto(h, from, "idle")
  /\ event' = IF h \in DOMAIN event THEN [event EXCEPT ![h] = TRUE] ELSE event

\* LockBase.absent(): kopf's finalizer keeps the lock until its deletion
\* handler has returned.
absent ==
  nwl' = IF nwl.phase = "present" THEN [nwl EXCEPT !.phase = "deleting"] ELSE nwl

\* LockBase.present(): a lock that is being deleted exists, and is left so.
present == nwl' = IF nwl.phase = "absent" THEN NewLock ELSE nwl

\* None of the agents that the service lists is reported up.
AreDown == ~agents \/ Listed[cleaning] \notin records

(***************************************************************************)
(* Mutations: plausible bugs that the properties must catch.               *)
(***************************************************************************)
\* An existing lock is updated, a missing one is not created.
PresentUpdatesOnly ==
  /\ Goto("node", "present", "idle")
  /\ UNCHANGED <<cleaning, node, label, nwl, ndr, ndn, openstackVars, event,
                 changes>>

\* The node is checked for workloads without being closed to new ones.
NdrDoesNotDisable ==
  /\ Goto("ndr", "disable", "check")
  /\ UNCHANGED <<cleaning, node, label, nwl, ndr, ndn, openstackVars, event,
                 changes>>

\* The timeout ends the handler instead of the attempt.
WaitTimeoutGivesUp ==
  /\ Listed[cleaning] = "block-storage" /\ ~AreDown
  /\ Goto("nwl", "waitDown", "finish")
  /\ UNCHANGED <<cleaning, node, label, nwl, ndr, ndn, openstackVars, event,
                 changes>>

(***************************************************************************)
(* controllers/node.py                                                     *)
(***************************************************************************)
\* node_change_handler reads the labels, then creates or deletes the lock.
NodeChange ==
  /\ node = "present" /\ event["node"]
  /\ Goto("node", "idle", IF label THEN "present" ELSE "absent")
  /\ event' = [event EXCEPT !["node"] = FALSE]
  /\ UNCHANGED <<cleaning, node, label, nwl, ndr, ndn, openstackVars, changes>>

NodeChangePresent ==
  /\ Goto("node", "present", "idle")
  /\ present
  /\ UNCHANGED <<cleaning, node, label, ndr, ndn, openstackVars, event,
                 changes>>

NodeChangeAbsent ==
  /\ Goto("node", "absent", "idle")
  /\ absent
  /\ UNCHANGED <<cleaning, node, label, ndr, ndn, openstackVars, event,
                 changes>>

\* node_delete_handler: the lock of a disabled node stays.
NodeDelete ==
  /\ node = "deleting"
  /\ Goto("node", "idle", IF ndn = "absent" THEN "dropLock" ELSE "finish")
  /\ UNCHANGED <<cleaning, node, label, nwl, ndr, ndn, openstackVars, event,
                 changes>>

NodeDeleteLock ==
  /\ Goto("node", "dropLock", "finish")
  /\ absent
  /\ UNCHANGED <<cleaning, node, label, ndr, ndn, openstackVars, event,
                 changes>>

\* kopf takes its finalizer off the node, which is gone.
NodeDeleteDone ==
  /\ Goto("node", "finish", "idle")
  /\ node' = "absent"
  /\ UNCHANGED <<cleaning, label, nwl, ndr, ndn, openstackVars, event,
                 changes>>

(***************************************************************************)
(* The NodeDeletionRequest handler: empty the node, then release the lock. *)
(***************************************************************************)
NdrStart ==
  /\ ndr /\ event["ndr"]
  /\ Goto("ndr", "idle", IF osdpl /\ node # "absent" THEN "disable" ELSE "release")
  /\ event' = [event EXCEPT !["ndr"] = FALSE]
  /\ UNCHANGED <<cleaning, node, label, nwl, ndr, ndn, openstackVars, changes>>

\* The databases come first, and each may keep any node: is_node_locked.
NdrLocked ==
  /\ Retry("ndr", "disable")
  /\ UNCHANGED <<cleaning, node, label, nwl, ndr, ndn, openstackVars, changes>>

\* Cinder and Nova.process_ndr, which share nothing and are taken together:
\* remove_node_from_scheduling ...
NdrDisable ==
  /\ Goto("ndr", "disable", "check")
  /\ disabled' = TRUE
  /\ UNCHANGED <<cleaning, node, label, nwl, ndr, ndn, osdpl, agents, records,
                 data, workload, event, changes>>

\* ... and then look for instances and volumes.
NdrCheck ==
  /\ SkipChecks \/ ~workload
  /\ Goto("ndr", "check", "release")
  /\ UNCHANGED <<cleaning, node, label, nwl, ndr, ndn, openstackVars, event,
                 changes>>

NdrDefer ==
  /\ ~SkipChecks /\ workload
  /\ Retry("ndr", "check")
  /\ UNCHANGED <<cleaning, node, label, nwl, ndr, ndn, openstackVars, changes>>

NdrRelease ==
  /\ nwl.phase # "absent"
  /\ Goto("ndr", "release", "idle")
  /\ nwl' = [nwl EXCEPT !.state = "inactive"]
  /\ UNCHANGED <<cleaning, node, label, ndr, ndn, openstackVars, event,
                 changes>>

\* Patching a lock that does not exist fails.
NdrReleaseFails ==
  /\ nwl.phase = "absent"
  /\ Retry("ndr", "release")
  /\ UNCHANGED <<cleaning, node, label, nwl, ndr, ndn, openstackVars, changes>>

(***************************************************************************)
(* The NodeWorkloadLock deletion handler.                                  *)
(***************************************************************************)
\* The handler means to wait until the node is gone, but looks for a node
\* that has the NAME OF THE LOCK, which never exists: no guard on node.
NwlDelete ==
  /\ nwl.phase = "deleting"
  /\ Goto("nwl", "idle", IF osdpl THEN "data" ELSE "finish")
  /\ UNCHANGED <<cleaning, node, label, nwl, ndr, ndn, openstackVars, event,
                 changes>>

\* The databases come first.  cleanup_persistent_data: their volume claims.
NwlData ==
  /\ Goto("nwl", "data", "waitDown")
  /\ data' = FALSE
  /\ UNCHANGED <<cleaning, node, label, nwl, ndr, ndn, osdpl, agents, records,
                 disabled, workload, event, changes>>

\* One of them would lose its quorum, or has lost it already.
NwlDataLocked ==
  /\ Retry("nwl", "data")
  /\ UNCHANGED <<cleaning, node, label, nwl, ndr, ndn, openstackVars, changes>>

\* cleanup_metadata of Cinder, Neutron and Nova: wait ...
NwlWaitDown ==
  /\ AreDown
  /\ Goto("nwl", "waitDown", "metadata")
  /\ UNCHANGED <<cleaning, node, label, nwl, ndr, ndn, openstackVars, event,
                 changes>>

\* ... Cinder gives up after 300 s, the others wait on ...
NwlWaitTimeout ==
  /\ Listed[cleaning] = "block-storage" /\ ~AreDown
  /\ Retry("nwl", "waitDown")
  /\ UNCHANGED <<cleaning, node, label, nwl, ndr, ndn, openstackVars, changes>>

\* ... then delete the records.
NwlMetadata ==
  /\ Goto("nwl", "metadata",
          IF cleaning < Len(Listed) THEN "waitDown" ELSE "finish")
  /\ records' = records \ {Listed[cleaning]}
  /\ cleaning' = IF cleaning < Len(Listed) THEN cleaning + 1 ELSE 1
  /\ UNCHANGED <<node, label, nwl, ndr, ndn, osdpl, agents, data, disabled,
                 workload, event, changes>>

NwlDone ==
  /\ Goto("nwl", "finish", "idle")
  /\ nwl' = NoLock
  /\ UNCHANGED <<cleaning, node, label, ndr, ndn, openstackVars, event,
                 changes>>

(***************************************************************************)
(* The NodeDisableNotification deletion handler.                           *)
(***************************************************************************)
NdnDelete ==
  /\ ndn = "deleting"
  /\ Goto("ndn", "idle", IF node = "absent" THEN "dropLock" ELSE "finish")
  /\ UNCHANGED <<cleaning, node, label, nwl, ndr, ndn, openstackVars, event,
                 changes>>

NdnDropLock ==
  /\ Goto("ndn", "dropLock", "finish")
  /\ absent
  /\ UNCHANGED <<cleaning, node, label, ndr, ndn, openstackVars, event,
                 changes>>

NdnDone ==
  /\ Goto("ndn", "finish", "idle")
  /\ ndn' = "absent"
  /\ UNCHANGED <<cleaning, node, label, nwl, ndr, openstackVars, event,
                 changes>>

NodeHandler ==
  \/ NodeChange \/ NodeChangePresent \/ NodeChangeAbsent
  \/ NodeDelete \/ NodeDeleteLock \/ NodeDeleteDone

NdrHandler ==
  \/ NdrStart \/ NdrLocked \/ NdrDisable \/ NdrCheck \/ NdrDefer
  \/ NdrRelease \/ NdrReleaseFails

NwlHandler ==
  \/ NwlDelete \/ NwlWaitDown \/ NwlWaitTimeout \/ NwlMetadata
  \/ NwlData \/ NwlDataLocked \/ NwlDone

NdnHandler == NdnDelete \/ NdnDropLock \/ NdnDone

(***************************************************************************)
(* The environment.                                                        *)
(***************************************************************************)
Change(kind) ==
  /\ kind \in Allowed
  /\ changes < MaxChanges
  /\ changes' = changes + 1

\* kubelet's heartbeat changes status.conditions, a field that node.py
\* watches, so kopf calls the update handlers.
Heartbeat ==
  /\ node = "present" /\ ~event["node"]
  /\ event' = [event EXCEPT !["node"] = TRUE]
  /\ UNCHANGED <<cleaning, node, label, nwl, ndr, ndn, openstackVars, pc,
                 changes>>

\* A machine of the same name; the request to delete its predecessor is gone.
AddNode ==
  /\ Change("readd")
  /\ node = "absent"
  /\ node' = "present" /\ ndr' = FALSE
  /\ event' = [h \in DOMAIN event |-> h = "node"]
  /\ UNCHANGED <<cleaning, label, nwl, ndn, openstackVars, pc>>

\* The LCM waits for the lock when it has asked for the deletion; a node may
\* also be deleted without asking.
DeleteNode ==
  /\ Change("delete")
  /\ node = "present" /\ (ndr => nwl.state = "inactive")
  /\ node' = "deleting"
  /\ UNCHANGED <<cleaning, label, nwl, ndr, ndn, openstackVars, event, pc>>

Relabel ==
  /\ Change("relabel")
  /\ node = "present"
  /\ label' = ~label
  /\ event' = [event EXCEPT !["node"] = TRUE]
  /\ UNCHANGED <<cleaning, node, nwl, ndr, ndn, openstackVars, pc>>

CreateNdr ==
  /\ Change("request")
  /\ ~ndr /\ node = "present"
  /\ ndr' = TRUE
  /\ event' = [event EXCEPT !["ndr"] = TRUE]
  /\ UNCHANGED <<cleaning, node, label, nwl, ndn, openstackVars, pc>>

\* Nothing handles the deletion of a NodeDeletionRequest.
WithdrawNdr ==
  /\ Change("withdraw")
  /\ ndr
  /\ ndr' = FALSE
  /\ event' = [event EXCEPT !["ndr"] = FALSE]
  /\ UNCHANGED <<cleaning, node, label, nwl, ndn, openstackVars, pc>>

\* The LCM disables a node before it deletes it.
DisableNode ==
  /\ Change("disable")
  /\ node = "present" /\ ndn = "absent"
  /\ ndn' = "present"
  /\ UNCHANGED <<cleaning, node, label, nwl, ndr, openstackVars, event, pc>>

EnableNode ==
  /\ ndn = "present"
  /\ ndn' = "deleting"
  /\ UNCHANGED <<cleaning, node, label, nwl, ndr, openstackVars, event, pc,
                 changes>>

Undeploy ==
  /\ Change("undeploy")
  /\ osdpl
  /\ osdpl' = FALSE
  /\ UNCHANGED <<cleaning, node, label, nwl, ndr, ndn, agents, records, data,
                 disabled, workload, event, pc>>

\* An operator enables the services of a node that is no longer to be deleted.
Reenable ==
  /\ Change("reenable")
  /\ disabled /\ ~ndr
  /\ disabled' = FALSE
  /\ UNCHANGED <<cleaning, node, label, nwl, ndr, ndn, osdpl, agents, records,
                 data, workload, event, pc>>

\* Daemon sets select the node by its label; a service that starts, or runs
\* without a record, adds itself to the tables, enabled if it was unknown.
AgentsReport ==
  /\ agents \/ (node # "absent" /\ label /\ osdpl)
  /\ ~agents \/ records # Services
  /\ agents' = TRUE /\ records' = Services /\ data' = TRUE
  /\ disabled' = (disabled /\ Services \ {"networking"} \subseteq records)
  /\ UNCHANGED <<cleaning, node, label, nwl, ndr, ndn, osdpl, workload, event,
                 pc, changes>>

AgentsStop ==
  /\ agents /\ (node = "absent" \/ ~label \/ ~osdpl)
  /\ agents' = FALSE
  /\ UNCHANGED <<cleaning, node, label, nwl, ndr, ndn, osdpl, records, data,
                 disabled, workload, event, pc, changes>>

PlaceWorkload ==
  /\ agents /\ records \ {"networking"} # {} /\ ~disabled /\ ~workload
  /\ workload' = TRUE
  /\ UNCHANGED <<cleaning, node, label, nwl, ndr, ndn, osdpl, agents, records,
                 data, disabled, event, pc, changes>>

RemoveWorkload ==
  /\ workload
  /\ workload' = FALSE
  /\ UNCHANGED <<cleaning, node, label, nwl, ndr, ndn, osdpl, agents, records,
                 data, disabled, event, pc, changes>>

\* A container dies and is started again; kopf resumes its handlers.
Crash(handlers) ==
  /\ Change("crash")
  /\ pc' = [h \in Handler |-> IF h \in handlers THEN "idle" ELSE pc[h]]
  /\ event' = [h \in DOMAIN event |->
                 IF h \notin handlers THEN event[h]
                 ELSE IF h = "node" THEN node = "present" ELSE ndr]
  /\ cleaning' = IF "nwl" \in handlers THEN 1 ELSE cleaning
  /\ UNCHANGED <<node, label, nwl, ndr, ndn, openstackVars>>

Environment ==
  \/ Heartbeat \/ AddNode \/ DeleteNode \/ Relabel
  \/ CreateNdr \/ WithdrawNdr \/ DisableNode \/ EnableNode \/ Undeploy \/ Reenable
  \/ AgentsReport
  \/ AgentsStop \/ PlaceWorkload \/ RemoveWorkload
  \/ Crash({"node"}) \/ Crash({"ndr", "nwl", "ndn"})

-----------------------------------------------------------------------------
Init ==
  /\ node = "present" /\ label = TRUE /\ nwl = NewLock
  /\ ndr = FALSE /\ ndn = "absent" /\ osdpl = TRUE
  /\ agents = TRUE /\ records = Services /\ data = TRUE
  /\ disabled = FALSE /\ workload = FALSE
  /\ event = [h \in {"node", "ndr"} |-> FALSE]
  /\ pc = [h \in Handler |-> "idle"] /\ cleaning = 1
  /\ changes = 0

Next == NodeHandler \/ NdrHandler \/ NwlHandler \/ NdnHandler \/ Environment

Spec == Init /\ [][Next]_vars

(***************************************************************************)
(* Fairness: kopf runs and repeats the handlers, kubelet sends heartbeats, *)
(* what runs on a node that is gone stops, and the databases do not need   *)
(* the node for ever.                                                      *)
(***************************************************************************)
Fairness ==
  /\ WF_vars(NodeHandler) /\ WF_vars(NdrHandler)
  /\ WF_vars(NwlHandler) /\ WF_vars(NdnHandler)
  /\ WF_vars(Heartbeat) /\ WF_vars(AgentsStop)
  /\ SF_vars(NwlData)

FairSpec == Spec /\ Fairness

-----------------------------------------------------------------------------
(* Properties. *)

\* The variables hold values of their types.
TypeOK ==
  /\ node \in Phase /\ ndn \in Phase
  /\ nwl \in [phase: Phase, state: {"active", "inactive"}]
  /\ \A b \in {label, ndr, osdpl, agents, data, disabled, workload} : b \in BOOLEAN
  /\ records \subseteq Services /\ cleaning \in DOMAIN Listed
  /\ event \in [{"node", "ndr"} -> BOOLEAN]
  /\ pc \in [Handler -> {"idle", "present", "absent", "dropLock", "finish",
                         "disable", "check", "release", "waitDown", "metadata",
                         "data"}]
  /\ changes \in 0..MaxChanges

\* The node has one life: it keeps its label until it is deleted and does not
\* come back.  A lock that is deleted while the node runs, or when a node of
\* the same name is there again, takes the records of running services along,
\* which then register anew.
OneLife == []label /\ [](node = "absent" => [](node = "absent"))

\* A node whose deletion is requested and whose lock is released holds no
\* instance and no volume ("Blocking node removal unless they removed or
\* migrated", process_ndr of Nova and Cinder), as long as no request is
\* withdrawn: nothing takes the lock back then.
DeletableIsEmpty ==
  OneLife /\ [](ndr => []ndr) =>
    [](ndr /\ osdpl /\ node = "present" /\ nwl.state = "inactive" => ~workload)

\* Once a node is gone, OpenStack forgets it: its lock and the records of
\* its services go away.  A node that was disabled is excepted: the two
\* handlers that may delete its lock can each leave it to the other.
GoneIsForgotten ==
  OneLife /\ [](ndn = "absent") =>
    (node = "absent" ~> nwl.phase = "absent" /\ (osdpl => records = {}))

\* The deletion handler of the lock waits for agents that run.
Blocked == nwl.phase = "deleting" /\ osdpl /\ agents

\* "Should be present for each node that we care about" (NodeWorkloadLock):
\* a node that stays and keeps its label has a lock in the end that nobody
\* deletes, however it was relabelled, deleted and added again before.  One
\* case is excepted: the agents run again before the deletion of the old lock
\* has come to them.  Its handler then waits for them for ever, and present()
\* leaves the lock as it is.
LockRestored ==
  <>[](node = "present" /\ label) => <>[](nwl.phase = "present") \/ <>[]Blocked

=============================================================================
