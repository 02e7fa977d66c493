---------------------------- MODULE OvnMigration ----------------------------
(***************************************************************************)
(* osctl-ovs-ovn-migrate (cli/ovs_ovn_migration.py): a tool that moves a   *)
(* running cloud from Open vSwitch to OVN in six stages.  The state of the *)
(* stages is in a config map, so that a run that failed, was aborted or    *)
(* crashed is continued by the next one.  It works on the specification of *)
(* the OpenStackDeployment, which the controller applies, and on the pods  *)
(* of daemon sets, while the workloads of every node keep their network.   *)
(***************************************************************************)
EXTENDS OvnPreflight, Sequences

CONSTANTS
  Gateways, Computes,            \* the nodes, by role
  GtwThreshold, CmpThreshold,    \* how many of each may fail to migrate
  Ports,                         \* ports for the preflight checks
  MaxFaults,                     \* bound: failures, crashes, needless aborts
  MaxCarelessFaults              \* the same when errors are ignored

Nodes == Gateways \cup Computes
Tries == 3

ASSUME OvnAssumption ==
  /\ IsFiniteSet(Nodes)
  /\ GtwThreshold \in Nat /\ CmpThreshold \in Nat /\ MaxFaults \in Nat
  /\ MaxCarelessFaults \in Nat
  /\ \A port \in Ports : \A rule \in port.rules : rule.min \in Int /\ rule.max \in Int

VARIABLES
  status,     \* the config map
  seen,       \* the config map as this run has read it
  stage,      \* the stage it is at
  pc,         \* the step of the stage
  interactive,
  error,      \* the stage has failed
  node, todo, \* finalize_migration: the node it is at, those to come
  tries, failed,  \* migrate_dataplane
  spec,       \* the OpenStackDeployment
  work,       \* the specification the controller is at work on, if it is
  applied,    \* what it has applied
  finalizer,  \* on the daemon sets of vswitchd and of the L3 agents
  gen,        \* the template of the daemon set of OVN controllers
  ovn,        \* ovn[n]: the pod of the OVN controller
  ovs,        \* ovs[n]: the pod of vswitchd runs
  dataplane,  \* who has set up the flows of the node
  job,        \* the job that fills the OVN database
  leftovers,  \* bridges and namespaces of the former backend are left
  report,     \* the result of the preflight checks
  careless,   \* the user goes on after a failed stage
  hasty,      \* history: the tool went on before the controller had begun
  faults

run == <<seen, stage, interactive, careless>>
locals == <<node, todo, tries, failed, hasty>>
pods == <<gen, ovn, ovs, dataplane>>
controller == <<work, applied>>
system == <<spec, controller, finalizer, pods, job, leftovers>>
vars == <<status, seen, stage, pc, interactive, error, node, todo, tries, failed,
          spec, work, applied, finalizer, gen, ovn, ovs, dataplane, job, leftovers,
          report, careless, hasty, faults>>

WORKFLOW == <<"prepare", "deploy_ovn_db", "deploy_ovn_controllers",
              "migrate_dataplane", "finalize_migration", "cleanup">>
Stage == 1..Len(WORKFLOW)

Goto(step) == pc' = step /\ UNCHANGED <<status, error, faults, report, run>>

Fault ==
  /\ faults < (IF careless THEN MaxCarelessFaults ELSE MaxFaults)
  /\ faults' = faults + 1

\* The stage ends with an exception, or for want of a reason not to.
Raise ==
  /\ status' = [status EXCEPT ![stage] = "failed"] /\ error' = TRUE
  /\ pc' = "finally"
  /\ UNCHANGED <<report, run>>

Complete ==
  /\ status' = [status EXCEPT ![stage] = "completed"] /\ error' = FALSE
  /\ pc' = "finally"
  /\ UNCHANGED <<report, run, faults>>

Pods(states) == {n \in Nodes : ovn[n] \in states}
Ready == Pods({"migration", "normal"}) = Nodes
-----------------------------------------------------------------------------
(* do_migration *)

Finished == \A s \in Stage : status[s] = "completed"

Run ==
  /\ pc = "idle" /\ ~Finished
  /\ interactive' \in BOOLEAN
  /\ seen' = status /\ stage' = 1 /\ pc' = "try" /\ report' = {}
  /\ UNCHANGED <<status, error, locals, system, careless, faults>>

\* continue in a try: the question of the finally clause is asked all the same.
Skip ==
  /\ pc = "try" /\ seen[stage] = "completed"
  /\ error' = FALSE /\ pc' = "finally"
  /\ UNCHANGED <<status, run, locals, system, report, faults>>

Begin ==
  /\ pc = "try" /\ seen[stage] # "completed"
  /\ status' = [status EXCEPT ![stage] = "started"]
  /\ pc' = WORKFLOW[stage] /\ error' = FALSE
  /\ UNCHANGED <<run, locals, system, report, faults>>

NextStage ==
  /\ stage' = stage + 1 /\ pc' = "try"
  /\ UNCHANGED <<status, seen, interactive, careless, error, locals, system, report,
                 faults>>

Return ==
  /\ pc' = "idle"
  /\ UNCHANGED <<status, run, error, locals, system, report>>

Abort ==
  /\ IF error THEN UNCHANGED faults ELSE Fault
  /\ Return

Last == stage = Len(WORKFLOW)

\* Y goes on and forgets the error, N ends the run; without questions, and
\* after the last stage, an error is raised.
Finally ==
  /\ pc = "finally"
  /\ \/ interactive /\ ~Last /\ (error => careless) /\ NextStage
     \/ interactive /\ ~Last /\ Abort
     \/ ~interactive /\ ~Last /\ ~error /\ NextStage
     \/ (Last \/ (~interactive /\ error)) /\ Return /\ UNCHANGED faults
-----------------------------------------------------------------------------
(* The stages *)

\* Bridge mappings are saved in the pods of the OVS agent: without pods the
\* pool of threads cannot be made.
Prepare ==
  /\ pc = "prepare"
  /\ IF applied.backend = "ovs" THEN Complete ELSE Raise /\ UNCHANGED faults
  /\ UNCHANGED <<locals, system>>

\* Mutation: the daemon sets are not held.
DeployDbNoFinalizer ==
  /\ pc = "deploy_ovn_db" /\ Goto("patch_db")
  /\ UNCHANGED <<locals, system>>

\* The old daemon sets are held before the deployment stops wanting them.
DeployDb ==
  /\ pc = "deploy_ovn_db" /\ Goto("patch_db")
  /\ finalizer' = (finalizer \/ applied.backend = "ovs")
  /\ UNCHANGED <<locals, spec, controller, pods, job, leftovers>>

DeployDbPatch ==
  /\ pc = "patch_db" /\ Goto("wait_db")
  /\ spec' = [spec EXCEPT !.migration = TRUE, !.backend = "ovn", !.server = FALSE,
                          !.controllers = FALSE]
  /\ UNCHANGED <<locals, controller, finalizer, pods, job, leftovers>>

\* is_applied looks at the status: APPLIED until a handler begins and when it
\* has ended.  A deployment that the handler has not seen yet counts as applied,
\* and so does a draft, which it skips.
IsApplied == work = {}

Settled == IsApplied /\ (spec.draft \/ applied = spec)

\* The tool sleeps for 30 seconds and then waits until the deployment is
\* applied.  It is too early when the controller has not begun by then.
WaitApplied == IsApplied /\ hasty' = (hasty \/ ~Settled)

DeployDbWait ==
  /\ pc = "wait_db" /\ WaitApplied /\ applied.backend = "ovn"
  /\ Complete
  /\ UNCHANGED <<node, todo, tries, failed, system>>

\* Too early, the stateful sets of the databases are not there to wait for.
DeployDbMissing ==
  /\ pc = "wait_db" /\ IsApplied /\ applied.backend # "ovn"
  /\ Raise
  /\ UNCHANGED <<faults, locals, system>>

\* The daemon sets are looked up before the deployment becomes a draft.
DeployControllers ==
  /\ pc = "deploy_ovn_controllers"
  /\ spec' = [spec EXCEPT !.draft = TRUE]
  /\ Goto(IF gen = "none" THEN "install" ELSE "sync")
  /\ UNCHANGED <<locals, controller, finalizer, pods, job, leftovers>>

InstallControllers ==
  /\ pc = "install" /\ Goto("wait_controllers")
  /\ gen' = "migration" /\ ovn' = [n \in Nodes |-> "starting"]
  /\ UNCHANGED <<locals, spec, controller, finalizer, ovs, dataplane, job, leftovers>>

WaitControllers ==
  /\ pc = "wait_controllers" /\ Ready /\ Goto("sync")
  /\ UNCHANGED <<locals, system>>

Sync ==
  /\ pc = "sync" /\ Goto("wait_sync")
  /\ job' = IF job = "done" THEN "done" ELSE "running"
  /\ UNCHANGED <<locals, spec, controller, finalizer, pods, leftovers>>

\* Mutation: the job is started, not awaited.
WaitSyncNot ==
  /\ pc = "wait_sync" /\ Complete
  /\ UNCHANGED <<locals, system>>

WaitSync ==
  /\ pc = "wait_sync" /\ job = "done" /\ Complete
  /\ UNCHANGED <<locals, system>>

\* A command in every pod first: it fails in one that does not run.
Precheck ==
  /\ pc = "migrate_dataplane"
  /\ IF Ready THEN Goto("switch") ELSE Raise /\ UNCHANGED faults
  /\ tries' = 0 /\ failed' = {}
  /\ UNCHANGED <<node, todo, hasty, system>>

\* Mutation: the gateways are compared with the threshold of the computes.
ExceedsOneThreshold(F) == Cardinality(F) > GtwThreshold + CmpThreshold

check_nodes_results(F) ==
  \/ Cardinality(F \cap Gateways) > GtwThreshold
  \/ Cardinality(F \cap Computes) > CmpThreshold

\* The script in all pods, then in those where it failed.  A command that
\* timed out may have done its work.
Switch ==
  /\ pc = "switch"
  /\ LET targets == IF failed = {} THEN Nodes ELSE failed
     IN  \E F \in SUBSET targets, late \in SUBSET Nodes :
           /\ late \subseteq F
           /\ IF F # {} /\ failed = {} THEN Fault ELSE UNCHANGED faults
           /\ failed' = F
           /\ dataplane' = [n \in Nodes |->
                IF n \in (targets \ F) \cup late THEN "ovn" ELSE dataplane[n]]
  /\ tries' = tries + 1
  /\ pc' = "judge"
  /\ UNCHANGED <<status, run, error, report, node, todo, hasty, spec, controller, finalizer,
                 gen, ovn, ovs, job, leftovers>>

Judge ==
  /\ pc = "judge"
  /\ \/ check_nodes_results(failed) /\ tries < Tries /\ Goto("switch")
     \/ check_nodes_results(failed) /\ tries = Tries /\ Raise /\ UNCHANGED faults
     \/ ~check_nodes_results(failed) /\ Complete
  /\ UNCHANGED <<locals, system>>

Finalize ==
  /\ pc = "finalize_migration" /\ Goto("wait_final")
  /\ spec' = [spec EXCEPT !.draft = FALSE, !.controllers = TRUE]
  /\ UNCHANGED <<locals, controller, finalizer, pods, job, leftovers>>

\* The nodes that still have a pod of vswitchd and one of OVN.
FinalizeWait ==
  /\ pc = "wait_final" /\ WaitApplied /\ Goto("next_node")
  /\ todo' = {n \in Nodes : ovs[n] /\ ovn[n] # "absent"}
  /\ UNCHANGED <<node, tries, failed, system>>

DeleteOvsPod ==
  /\ pc = "next_node" /\ \E n \in todo :
       node' = n /\ todo' = todo \ {n} /\ ovs' = [ovs EXCEPT ![n] = FALSE]
  /\ Goto("restart")
  /\ UNCHANGED <<tries, failed, hasty, spec, controller, finalizer, gen, ovn, dataplane, job,
                 leftovers>>

\* ensure_pod_generation_on_node
RestartOvnPod ==
  /\ pc = "restart" /\ Goto("wait_pod")
  /\ ovn' = [ovn EXCEPT ![node] = IF @ = gen THEN @ ELSE "starting"]
  /\ UNCHANGED <<locals, spec, controller, finalizer, gen, ovs, dataplane, job, leftovers>>

WaitOvnPod ==
  /\ pc = "wait_pod" /\ ovn[node] # "starting" /\ Goto("next_node")
  /\ UNCHANGED <<locals, system>>

\* Without its finalizer the daemon set goes, and its pods with it.
RemoveFinalizers ==
  /\ pc = "next_node" /\ todo = {} /\ Goto("patch_server")
  /\ finalizer' = FALSE
  /\ ovs' = [n \in Nodes |-> ovs[n] /\ applied.backend = "ovs"]
  /\ UNCHANGED <<locals, spec, controller, gen, ovn, dataplane, job, leftovers>>

\* Mutation: the Neutron server is not asked for again.
FinalizePatchNoServer ==
  /\ pc = "patch_server" /\ Goto("wait_server")
  /\ spec' = [spec EXCEPT !.migration = FALSE]
  /\ UNCHANGED <<locals, controller, finalizer, pods, job, leftovers>>

FinalizePatch ==
  /\ pc = "patch_server" /\ Goto("wait_server")
  /\ spec' = [spec EXCEPT !.migration = FALSE, !.server = TRUE]
  /\ UNCHANGED <<locals, controller, finalizer, pods, job, leftovers>>

\* wait_services_healthy
FinalizeHealthy ==
  /\ pc = "wait_server" /\ WaitApplied /\ Ready /\ Complete
  /\ UNCHANGED <<node, todo, tries, failed, system>>

\* Errors of the OpenStack API are logged; the bridges and the namespaces
\* are removed in the pods of the metadata agent.
Cleanup ==
  /\ pc = "cleanup"
  /\ IF applied.server THEN Complete /\ leftovers' = FALSE
                       ELSE Raise /\ UNCHANGED <<faults, leftovers>>
  /\ UNCHANGED <<locals, spec, controller, finalizer, pods, job>>

\* A command that fails, a wait that times out, an error of the API.
StepFails ==
  /\ pc \notin {"idle", "try", "finally", "judge", "switch"}
  /\ Fault
  /\ Raise
  /\ UNCHANGED <<locals, system>>

StageStep ==
  \/ Prepare \/ DeployDb \/ DeployDbPatch \/ DeployDbWait \/ DeployDbMissing
  \/ DeployControllers \/ InstallControllers \/ WaitControllers \/ Sync \/ WaitSync
  \/ Precheck \/ Switch \/ Judge
  \/ Finalize \/ FinalizeWait \/ DeleteOvsPod \/ RestartOvnPod \/ WaitOvnPod
  \/ RemoveFinalizers \/ FinalizePatch \/ FinalizeHealthy
  \/ Cleanup
-----------------------------------------------------------------------------
(* The controller, Kubernetes, and the user *)

\* The handler of the deployment begins with what it reads.
BeginApply ==
  /\ work = {} /\ ~spec.draft /\ applied # spec
  /\ work' = {spec}
  /\ UNCHANGED <<status, run, pc, error, locals, spec, applied, finalizer, pods, job,
                 leftovers, report, faults>>

\* The networking service is installed from the specification: OVN
\* controllers get the template without migration mode, or go.  Their pods
\* are updated on deletion only; Neutron.apply restarts them unless the
\* migration is under way.  A daemon set with a finalizer keeps its pods.
Apply ==
  /\ \E w \in work :
       /\ applied' = w
       /\ gen' = IF w.controllers THEN "normal" ELSE "none"
       /\ ovn' = [n \in Nodes |->
            CASE ~w.controllers -> "absent"
              [] w.controllers /\ ovn[n] = "absent" -> "starting"
              [] w.controllers /\ ~w.migration /\ ovn[n] # "normal" -> "starting"
              [] OTHER -> ovn[n]]
       /\ ovs' = [n \in Nodes |-> ovs[n] /\ (w.backend = "ovs" \/ finalizer)]
  /\ work' = {}
  /\ UNCHANGED <<status, run, pc, error, locals, spec, finalizer, dataplane, job,
                 leftovers, report, faults>>

PodStarts(n) ==
  /\ ovn[n] = "starting" /\ ovn' = [ovn EXCEPT ![n] = gen]
  /\ UNCHANGED <<status, run, pc, error, locals, spec, controller, finalizer, gen, ovs,
                 dataplane, job, leftovers, report, faults>>

JobEnds ==
  /\ job = "running" /\ job' = "done"
  /\ UNCHANGED <<status, run, pc, error, locals, spec, controller, finalizer, pods,
                 leftovers, report, faults>>

Crash ==
  /\ pc # "idle" /\ Fault
  /\ pc' = "idle"
  /\ UNCHANGED <<status, run, error, locals, system, report>>

\* osctl-ovs-ovn-migrate preflight_checks, before the first run
Preflight ==
  /\ pc = "idle" /\ report = {} /\ \A s \in Stage : status[s] = "init"
  /\ \E port \in Ports :
       report' = {[port |-> port, success |-> do_preflight_checks(port)]}
  /\ UNCHANGED <<status, run, pc, error, locals, system, faults>>

Init ==
  /\ status = [s \in Stage |-> "init"] /\ seen = status
  /\ stage = 1 /\ pc = "idle" /\ interactive = FALSE /\ error = FALSE
  /\ node \in {CHOOSE n \in Nodes : TRUE} /\ todo = {} /\ tries = 0 /\ failed = {}
  /\ spec = [backend |-> "ovs", migration |-> FALSE, server |-> TRUE,
             controllers |-> FALSE, draft |-> FALSE]
  /\ work = {} /\ applied = spec /\ finalizer = FALSE
  /\ gen = "none" /\ ovn = [n \in Nodes |-> "absent"]
  /\ ovs = [n \in Nodes |-> TRUE] /\ dataplane = [n \in Nodes |-> "ovs"]
  /\ job = "none" /\ leftovers = TRUE /\ report = {} /\ faults = 0
  /\ careless \in BOOLEAN /\ hasty = FALSE

Next ==
  \/ Run \/ Skip \/ Begin \/ Finally \/ StageStep \/ StepFails
  \/ BeginApply \/ Apply \/ JobEnds \/ Crash \/ Preflight
  \/ \E n \in Nodes : PodStarts(n)

Spec == Init /\ [][Next]_vars

\* The tool runs on and is run again until all stages are completed; the
\* controller, the pods and the job make progress.
Tool == Run \/ Skip \/ Begin \/ StageStep \/ Finally

FairSpec ==
  /\ Spec /\ WF_vars(Tool)
  /\ WF_vars(BeginApply) /\ WF_vars(Apply) /\ WF_vars(JobEnds)
  /\ \A n \in Nodes : WF_vars(PodStarts(n))
-----------------------------------------------------------------------------
(* Properties *)

\* The network of the workloads works: by the former backend, by OVN on top
\* of the vswitchd of the former backend, or by OVN alone.
Forwarding(n) ==
  \/ ovs[n] /\ (dataplane[n] = "ovn" => ovn[n] \in {"migration", "normal", "starting"})
  \/ ovn[n] = "normal"

\* Workloads lose their network on one node at a time, and each failure or
\* crash leaves at most one more node without it: vswitchd is held by a
\* finalizer and goes node by node (deploy_ovn_db, finalize_migration).
\* A user who goes on after an error may have a stage repeated too late; a tool
\* that goes on before the controller has begun takes vswitchd away from nodes
\* whose OVN controllers have no new template yet.
OneNodeAtATime ==
  ~careless /\ ~hasty => Cardinality({n \in Nodes : ~Forwarding(n)}) <= 1 + faults

\* The flows of a node are switched only when the OVN database has been
\* filled, over all orders of failed, aborted and repeated stages.
SwitchedAfterSync ==
  ~careless => \A n \in Nodes : dataplane[n] = "ovn" => job = "done"

\* A stage completed with failed nodes leaves no more of them on the former
\* dataplane than the user allowed for each role (--gtw-threshold,
\* --cmp-threshold).
ThresholdsKept ==
  status[4] = "completed" =>
    /\ Cardinality({n \in Gateways : dataplane[n] = "ovs"}) <= GtwThreshold
    /\ Cardinality({n \in Computes : dataplane[n] = "ovs"}) <= CmpThreshold

\* The result of the preflight checks is right about the ports they look at
\* (_check_port_sg_allowed_dhcp4): no packet of the exchange that gives such a
\* port its address is dropped by the rules of its security groups.
PreflightSound ==
  \A r \in report : r.success /\ IsTested(r.port) => GetsAddress(r.port)

\* Whatever failed in between, the tool that is run again ends with OVN on
\* every node, nothing of the former backend held back, and Neutron back.
Migrated ==
  /\ Finished
  /\ applied = spec /\ ~spec.draft
  /\ spec.server /\ ~spec.migration /\ spec.backend = "ovn"
  /\ ~finalizer /\ ~leftovers
  /\ \A n \in Nodes : ~ovs[n] /\ ovn[n] = "normal"
Migrates == ~careless => <>[]Migrated

=============================================================================
