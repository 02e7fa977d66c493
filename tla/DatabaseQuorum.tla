--------------------------- MODULE DatabaseQuorum ---------------------------
(***************************************************************************)
(* The replicated databases (MariaDB, etcd, Redis: one StatefulSet each)   *)
(* on controller nodes that are taken into maintenance or removed.  What   *)
(* protects them is StatefulSet.is_node_locked, asked before a node is     *)
(* handed over (can_handle_nmr) and before the volume claims on a removed  *)
(* node are deleted (cleanup_persistent_data), and the rule that one       *)
(* controller node at a time is in maintenance.                            *)
(*                                                                         *)
(* NodeMaintenance and NodeRemoval have the handlers around these checks.  *)
(***************************************************************************)
EXTENDS Naturals, FiniteSets

CONSTANTS
  Node,          \* the controller nodes
  Pod,           \* the pods of the StatefulSet; replicas = Cardinality(Pod)
  NoNode,        \* no node
  FirstHome,     \* FirstHome[p]: the node that has the volume of p at first
  MaxFailures,   \* bound: readiness failures of pods
  MaxRemovals    \* bound: nodes whose removal goes on at the same time

ASSUME QuorumAssumption ==
  /\ IsFiniteSet(Node) /\ IsFiniteSet(Pod) /\ Pod # {}
  /\ NoNode \notin Node /\ FirstHome \in [Pod -> Node]
  /\ MaxFailures \in Nat /\ MaxRemovals \in Nat

VARIABLES
  home,      \* home[p]: the node its volume claim is bound to
  placed,    \* placed[p]: the pod is scheduled (spec.nodeName is set)
  ready,     \* ready[p]: the pod is ready
  data,      \* data[p]: its volume has a copy of the database
  up,        \* up[n]: the node is ready
  phase,     \* phase[n]: progress of a maintenance request
  removal,   \* removal[n]: progress of the removal of the node
  slot,      \* the controller node that has the maintenance slot
  failures   \* failures so far

podVars == <<home, placed, ready, data>>
vars == <<podVars, up, phase, removal, slot, failures>>

Phases == {"serving", "waiting", "granted", "returning"}
Removals == {"no", "check", "release", "done"}

On(n) == {p \in Pod : home[p] = n}
Ready == {p \in Pod : ready[p]}
InRemoval == {n \in Node : removal[n] \in {"check", "release"}}

-----------------------------------------------------------------------------
(* StatefulSet.is_node_locked *)

\* Mutation: the node's own replica is not discounted.
MinReadyAll == Cardinality(Pod)

MinReady == Cardinality(Pod) - 1

\* Pods scheduled on other nodes, ready or not.
OtherNodesPods(n) == {p \in Pod : placed[p] /\ home[p] # n}

\* Mutation: the count of ready pods is not compared.
LockedByPlacementOnly(n) == Cardinality(OtherNodesPods(n)) < MinReady

\* The last test of the code, all([pod.ready for pod in other_nodes_pods if
\* pod.ready]), looks only at pods that are ready and always succeeds.
is_node_locked(n) ==
  \/ Cardinality(Ready) < MinReady
  \/ Cardinality(OtherNodesPods(n)) < MinReady
  \/ \E p \in OtherNodesPods(n) : ready[p] /\ ~ready[p]

-----------------------------------------------------------------------------
(* Maintenance *)

\* acquire_internal_lock, one controller node at a time.
Acquire(n) ==
  /\ slot = NoNode /\ phase[n] = "serving" /\ removal[n] = "no"
  /\ slot' = n
  /\ phase' = [phase EXCEPT ![n] = "waiting"]
  /\ UNCHANGED <<podVars, up, removal, failures>>

\* can_handle_nmr of the databases lets the handler go on ...
Grant(n) ==
  /\ phase[n] = "waiting" /\ ~is_node_locked(n)
  /\ phase' = [phase EXCEPT ![n] = "granted"]
  /\ UNCHANGED <<podVars, up, removal, slot, failures>>

\* ... or it raises TemporaryError and is called again with nothing changed.
Defer(n) ==
  /\ phase[n] = "waiting" /\ is_node_locked(n)
  /\ UNCHANGED vars

\* The LCM drains and reboots the node.
Drain(n) ==
  /\ phase[n] = "granted" /\ \E p \in On(n) : placed[p]
  /\ placed' = [p \in Pod |-> placed[p] /\ home[p] # n]
  /\ ready' = [p \in Pod |-> ready[p] /\ home[p] # n]
  /\ UNCHANGED <<home, data, up, phase, removal, slot, failures>>

Reboot(n) ==
  /\ phase[n] = "granted" /\ up[n]
  /\ up' = [up EXCEPT ![n] = FALSE]
  /\ ready' = [p \in Pod |-> ready[p] /\ home[p] # n]
  /\ UNCHANGED <<home, placed, data, phase, removal, slot, failures>>

NodeUp(n) ==
  /\ ~up[n] /\ removal[n] = "no"
  /\ up' = [up EXCEPT ![n] = TRUE]
  /\ UNCHANGED <<podVars, phase, removal, slot, failures>>

FinishRequest(n) ==
  /\ phase[n] = "granted"
  /\ phase' = [phase EXCEPT ![n] = "returning"]
  /\ UNCHANGED <<podVars, up, removal, slot, failures>>

\* The delete handler waits for the node and for the pods that are ON the
\* node; a pod that is not scheduled yet is not waited for.
WaitReady(n) ==
  /\ phase[n] = "returning" /\ up[n]
  /\ \A p \in On(n) : placed[p] => ready[p]
  /\ phase' = [phase EXCEPT ![n] = "serving"]
  /\ slot' = NoNode
  /\ UNCHANGED <<podVars, up, removal, failures>>

-----------------------------------------------------------------------------
(* Removal *)

\* The lock of the node is deleted; the node may be gone or still be there.
RemoveNode(n) ==
  /\ removal[n] = "no" /\ phase[n] = "serving"
  /\ Cardinality(InRemoval) < MaxRemovals
  /\ removal' = [removal EXCEPT ![n] = "check"]
  /\ \E gone \in BOOLEAN :
       /\ up' = [up EXCEPT ![n] = ~gone]
       /\ placed' = [p \in Pod |-> placed[p] /\ ~(gone /\ home[p] = n)]
       /\ ready' = [p \in Pod |-> ready[p] /\ ~(gone /\ home[p] = n)]
  /\ UNCHANGED <<home, data, phase, slot, failures>>

\* cleanup_persistent_data: the check ...
CleanupCheck(n) ==
  /\ removal[n] = "check" /\ ~is_node_locked(n)
  /\ removal' = [removal EXCEPT ![n] = "release"]
  /\ UNCHANGED <<podVars, up, phase, slot, failures>>

\* ... and release_persistent_volume_claims: the copies on n are lost.
CleanupRelease(n) ==
  /\ removal[n] = "release"
  /\ removal' = [removal EXCEPT ![n] = "done"]
  /\ home' = [p \in Pod |-> IF home[p] = n THEN NoNode ELSE home[p]]
  /\ placed' = [p \in Pod |-> placed[p] /\ home[p] # n]
  /\ ready' = [p \in Pod |-> ready[p] /\ home[p] # n]
  /\ data' = [p \in Pod |-> data[p] /\ home[p] # n]
  /\ up' = [up EXCEPT ![n] = FALSE]
  /\ UNCHANGED <<phase, slot, failures>>

-----------------------------------------------------------------------------
(* Kubernetes and the database *)

\* A pod goes where its volume is, or anywhere if it has none.
Schedule(p) ==
  \E n \in Node :
    /\ ~placed[p] /\ home[p] \in {n, NoNode}
    /\ up[n] /\ phase[n] # "granted" /\ (home[p] = n \/ removal[n] = "no")
    /\ placed' = [placed EXCEPT ![p] = TRUE]
    /\ home' = [home EXCEPT ![p] = n]
    /\ UNCHANGED <<ready, data, up, phase, removal, slot, failures>>

\* A pod with an empty volume copies the data of a pod that is ready.
BecomeReady(p) ==
  /\ placed[p] /\ ~ready[p] /\ up[home[p]]
  /\ data[p] \/ Ready # {}
  /\ ready' = [ready EXCEPT ![p] = TRUE]
  /\ data' = [data EXCEPT ![p] = TRUE]
  /\ UNCHANGED <<home, placed, up, phase, removal, slot, failures>>

PodFails(p) ==
  /\ ready[p] /\ failures < MaxFailures
  /\ failures' = failures + 1
  /\ ready' = [ready EXCEPT ![p] = FALSE]
  /\ UNCHANGED <<home, placed, data, up, phase, removal, slot>>

-----------------------------------------------------------------------------
Init ==
  /\ home = FirstHome
  /\ placed = [p \in Pod |-> TRUE]
  /\ ready = [p \in Pod |-> TRUE]
  /\ data = [p \in Pod |-> TRUE]
  /\ up = [n \in Node |-> TRUE]
  /\ phase = [n \in Node |-> "serving"]
  /\ removal = [n \in Node |-> "no"]
  /\ slot = NoNode
  /\ failures = 0

Next ==
  \/ \E n \in Node :
       \/ Acquire(n) \/ Grant(n) \/ Defer(n) \/ Drain(n)
       \/ Reboot(n) \/ NodeUp(n) \/ FinishRequest(n) \/ WaitReady(n)
       \/ RemoveNode(n) \/ CleanupCheck(n) \/ CleanupRelease(n)
  \/ \E p \in Pod : Schedule(p) \/ BecomeReady(p) \/ PodFails(p)

Spec == Init /\ [][Next]_vars

\* kopf repeats a deferred request, the LCM ends its work, nodes come back,
\* pods are scheduled and become ready.
Fairness ==
  /\ \A n \in Node : WF_vars(Grant(n)) /\ WF_vars(FinishRequest(n)) /\
                     WF_vars(WaitReady(n)) /\ WF_vars(NodeUp(n))
  /\ \A p \in Pod : WF_vars(Schedule(p)) /\ WF_vars(BecomeReady(p))

FairSpec == Spec /\ Fairness

-----------------------------------------------------------------------------
(* Properties. *)

\* The variables hold values of their types.
TypeOK ==
  /\ home \in [Pod -> Node \cup {NoNode}]
  /\ {placed, ready, data} \subseteq [Pod -> BOOLEAN]
  /\ up \in [Node -> BOOLEAN]
  /\ phase \in [Node -> Phases] /\ removal \in [Node -> Removals]
  /\ slot \in Node \cup {NoNode} /\ failures \in 0..MaxFailures

NoRemoval == \A n \in Node : removal[n] = "no"

\* Maintenance never takes the last ready replica: is_node_locked and the
\* single slot keep the database in service as long as no pod fails by itself
\* and no node is removed meanwhile.
ServiceSurvives == failures = 0 /\ NoRemoval => Ready # {}

\* Deleting the volume claims of removed nodes never deletes the last copy
\* of the database, also when pods fail (one removal at a time: between
\* check and release the handler of another node may delete a copy).
DataSurvives == \E p \in Pod : data[p]

\* A database does not block a maintenance request for ever, unless it loses
\* the nodes it runs on.
RequestGranted ==
  []NoRemoval =>
    \A n \in Node : phase[n] = "waiting" ~> phase[n] = "granted"
=============================================================================
