------------------------- MODULE OvnMigrationProofs -------------------------
(* Theorems about OvnMigration, for every set of gateways and computes,    *)
(* every threshold and every number of failures, crashes and aborts.       *)
EXTENDS OvnMigration, TLAPS, FiniteSetTheorems

-----------------------------------------------------------------------------
(* Types *)

StageStatus == {"init", "started", "failed", "completed"}
Specs == [backend : {"ovs", "ovn"}, migration : BOOLEAN, server : BOOLEAN,
          controllers : BOOLEAN, draft : BOOLEAN]

\* The steps of each stage.
Steps1 == {"prepare"}
Steps2 == {"deploy_ovn_db", "patch_db", "wait_db"}
Steps3 == {"deploy_ovn_controllers", "install", "wait_controllers", "sync", "wait_sync"}
Steps4 == {"migrate_dataplane", "switch", "judge"}
Steps5 == {"finalize_migration", "wait_final", "next_node", "restart", "wait_pod",
           "patch_server", "wait_server"}
Steps6 == {"cleanup"}
InStage == Steps1 \cup Steps2 \cup Steps3 \cup Steps4 \cup Steps5 \cup Steps6

ToolTypeOK ==
  /\ status \in [Stage -> StageStatus] /\ seen \in [Stage -> StageStatus]
  /\ stage \in Stage /\ pc \in InStage \cup {"idle", "try", "finally"}
  /\ error \in BOOLEAN /\ careless \in BOOLEAN /\ hasty \in BOOLEAN
  /\ todo \subseteq Nodes /\ failed \subseteq Nodes
  /\ tries \in Nat /\ faults \in Nat

SystemTypeOK ==
  /\ spec \in Specs /\ applied \in Specs /\ work \subseteq Specs
  /\ finalizer \in BOOLEAN /\ gen \in {"none", "migration", "normal"}
  /\ ovn \in [Nodes -> {"absent", "starting", "none", "migration", "normal"}]
  /\ ovs \in [Nodes -> BOOLEAN] /\ dataplane \in [Nodes -> {"ovs", "ovn"}]
  /\ job \in {"none", "running", "done"}

TypeOK == ToolTypeOK /\ SystemTypeOK

\* The stages by their numbers.
LEMMA Workflow ==
  /\ Stage = 1..6 /\ Len(WORKFLOW) = 6
  /\ WORKFLOW[1] = "prepare" /\ WORKFLOW[2] = "deploy_ovn_db"
  /\ WORKFLOW[3] = "deploy_ovn_controllers" /\ WORKFLOW[4] = "migrate_dataplane"
  /\ WORKFLOW[5] = "finalize_migration" /\ WORKFLOW[6] = "cleanup"
BY DEF Stage, WORKFLOW

\* The variables keep their types under every step of the tool, of the
\* controller and of Kubernetes.
LEMMA TypeInit == Init => TypeOK
<1> SUFFICES ASSUME Init PROVE TypeOK
  OBVIOUS
<1>0. stage \in Stage
  BY Workflow DEF Init
<1>1. ToolTypeOK
  BY <1>0 DEF Init, ToolTypeOK, StageStatus
<1>2. spec \in Specs /\ applied \in Specs
  BY DEF Init, Specs
<1>3. SystemTypeOK
  BY <1>2 DEF Init, SystemTypeOK
<1> QED BY <1>1, <1>3 DEF TypeOK

\* Every step keeps the types: of the tool, and of the cloud it works on.
LEMMA TypeStep == TypeOK /\ [Next]_vars => TypeOK'
<1> SUFFICES ASSUME TypeOK, [Next]_vars PROVE TypeOK'
  OBVIOUS
<1> USE DEF TypeOK, ToolTypeOK, SystemTypeOK, locals, system, controller, pods, run
<1> USE DEF InStage, Steps1, Steps2, Steps3, Steps4, Steps5, Steps6
<1> USE OvnAssumption
<1>1. CASE Run \/ Skip
  <2>1. CASE Run
    BY <2>1, Workflow DEF Run
  <2>2. CASE Skip
    BY <2>2 DEF Skip
  <2> QED BY <1>1, <2>1, <2>2
<1>2. CASE Begin
  <2>1. stage \in {1, 2, 3, 4, 5, 6}
    BY Workflow
  <2>2. WORKFLOW[stage] \in InStage
    BY <2>1, Workflow
  <2> QED BY <1>2, <2>2 DEF Begin, StageStatus
<1>3. CASE Finally
  BY <1>3, Workflow DEF Finally, NextStage, Abort, Return, Fault, Last
<1>4. CASE StepFails
  BY <1>4 DEF StepFails, Fault, Raise, StageStatus
<1>5. CASE BeginApply \/ Apply
  <2>1. CASE BeginApply
    BY <2>1 DEF BeginApply
  <2>2. CASE Apply
    <3>1. ToolTypeOK'
      BY <2>2 DEF Apply
    <3>2. SystemTypeOK'
      BY <2>2 DEF Apply
    <3> QED BY <3>1, <3>2
  <2> QED BY <1>5, <2>1, <2>2
<1>6. CASE JobEnds \/ Crash
  BY <1>6 DEF JobEnds, Crash, Fault
<1>7. ASSUME NEW n \in Nodes, PodStarts(n) PROVE TypeOK'
  BY <1>7 DEF PodStarts
<1>8. ASSUME Preflight PROVE TypeOK'
  BY <1>8 DEF Preflight
<1>9. CASE StageStep
  <2> USE DEF Goto
  <2>1. CASE Prepare \/ WaitSync \/ Cleanup
    BY <2>1 DEF Prepare, WaitSync, Cleanup, Complete, Raise, StageStatus
  <2>16. CASE DeployDbWait \/ DeployDbMissing \/ FinalizeHealthy
    BY <2>16 DEF DeployDbWait, DeployDbMissing, FinalizeHealthy, WaitApplied, Complete,
                 Raise, StageStatus
  <2>2. CASE DeployDb
    BY <2>2 DEF DeployDb
  <2>3. CASE DeployDbPatch
    <3>1. spec' \in Specs
      BY <2>3 DEF DeployDbPatch, Specs
    <3> QED BY <2>3, <3>1 DEF DeployDbPatch
  <2>4. CASE DeployControllers
    <3>1. spec' \in Specs
      BY <2>4 DEF DeployControllers, Specs
    <3> QED BY <2>4, <3>1 DEF DeployControllers
  <2>5. CASE InstallControllers
    BY <2>5 DEF InstallControllers
  <2>6. CASE WaitControllers \/ Sync
    BY <2>6 DEF WaitControllers, Sync
  <2>7. CASE Precheck
    BY <2>7 DEF Precheck, Raise, StageStatus
  <2>8. CASE Switch
    BY <2>8 DEF Switch, Fault
  <2>9. CASE Judge
    BY <2>9 DEF Judge, Complete, Raise, StageStatus
  <2>10. CASE Finalize
    <3>1. spec' \in Specs
      BY <2>10 DEF Finalize, Specs
    <3> QED BY <2>10, <3>1 DEF Finalize
  <2>11. CASE FinalizeWait
    BY <2>11 DEF FinalizeWait, WaitApplied
  <2>12. CASE DeleteOvsPod
    BY <2>12 DEF DeleteOvsPod
  <2>13. CASE RestartOvnPod
    BY <2>13 DEF RestartOvnPod
  <2>14. CASE WaitOvnPod \/ RemoveFinalizers
    BY <2>14 DEF WaitOvnPod, RemoveFinalizers
  <2>15. CASE FinalizePatch
    <3>1. spec' \in Specs
      BY <2>15 DEF FinalizePatch, Specs
    <3> QED BY <2>15, <3>1 DEF FinalizePatch
  <2> QED BY <1>9, <2>1, <2>2, <2>3, <2>4, <2>5, <2>6, <2>7, <2>8, <2>9, <2>10, <2>11,
             <2>12, <2>13, <2>14, <2>15, <2>16 DEF StageStep
<1>10. CASE UNCHANGED vars
  BY <1>10 DEF vars
<1> QED BY <1>1, <1>2, <1>3, <1>4, <1>5, <1>6, <1>7, <1>8, <1>9, <1>10 DEF Next

\* The config map, the deployment, the daemon sets and the pods stay what the
\* tool takes them for, over all runs, crashes and steps of the controller.
THEOREM OvnTypeCorrect == Spec => []TypeOK
BY TypeInit, TypeStep, PTL DEF Spec

-----------------------------------------------------------------------------
(* The stages *)

control == <<status, seen, stage, error, careless>>

\* The last step of each stage.
Ender == {"prepare", "wait_db", "wait_sync", "judge", "wait_server", "cleanup"}

\* Every step is one of eight kinds for the stages and their config map: it
\* leaves them alone, or starts, skips, begins, leaves, ends, fails or
\* completes a stage.
LEMMA ControlStep ==
  ASSUME TypeOK, [Next]_vars
  PROVE  \/ UNCHANGED <<control, pc>>
         \/ /\ UNCHANGED control
            /\ \E S \in {Steps1, Steps2, Steps3, Steps4, Steps5, Steps6} :
                 {pc, pc'} \subseteq S
         \/ Run \/ Skip \/ Begin
         \/ pc = "finally" /\ stage # 6 /\ (error => careless) /\ NextStage
         \/ pc # "idle" /\ pc' = "idle" /\ UNCHANGED control
         \/ pc \in InStage /\ Raise
         \/ pc \in Ender /\ Complete
<1> USE DEF control, run, InStage, Steps1, Steps2, Steps3, Steps4, Steps5, Steps6
<1>1. CASE StageStep
  <2> USE DEF Goto, Ender
  <2>1. CASE Prepare \/ DeployDb \/ DeployDbPatch \/ DeployDbWait \/ DeployDbMissing
    BY <2>1 DEF Prepare, DeployDb, DeployDbPatch, DeployDbWait, DeployDbMissing
  <2>2. CASE DeployControllers \/ InstallControllers \/ WaitControllers \/ Sync \/ WaitSync
    BY <2>2 DEF DeployControllers, InstallControllers, WaitControllers, Sync, WaitSync
  <2>3. CASE Precheck \/ Switch \/ Judge
    BY <2>3 DEF Precheck, Switch, Judge
  <2>4. CASE Finalize \/ FinalizeWait \/ DeleteOvsPod \/ RestartOvnPod \/ WaitOvnPod
    BY <2>4 DEF Finalize, FinalizeWait, DeleteOvsPod, RestartOvnPod, WaitOvnPod
  <2>5. CASE RemoveFinalizers \/ FinalizePatch \/ FinalizeHealthy \/ Cleanup
    BY <2>5 DEF RemoveFinalizers, FinalizePatch, FinalizeHealthy, Cleanup
  <2> QED BY <1>1, <2>1, <2>2, <2>3, <2>4, <2>5 DEF StageStep
<1>2. CASE Finally
  BY <1>2, Workflow DEF Finally, Abort, Return, Last
<1>3. CASE StepFails
  BY <1>3 DEF StepFails, TypeOK, ToolTypeOK
<1>4. CASE Crash
  BY <1>4 DEF Crash
<1>5. CASE BeginApply \/ Apply \/ JobEnds
  BY <1>5 DEF BeginApply, Apply, JobEnds
<1>6. ASSUME NEW n \in Nodes, PodStarts(n) PROVE UNCHANGED <<control, pc>>
  BY <1>6 DEF PodStarts
<1>7. ASSUME Preflight PROVE UNCHANGED <<control, pc>>
  BY <1>7 DEF Preflight
<1>8. CASE UNCHANGED vars
  BY <1>8 DEF vars
<1> QED BY <1>1, <1>2, <1>3, <1>4, <1>5, <1>6, <1>7, <1>8 DEF Next

\* What the config map says while a run is under way.  The stages to come are
\* as the run has read them; a stage that is under way is "started"; unless
\* the user goes on after errors, the stages before it are completed.
ControlInv ==
  /\ /\ pc \in Steps1 => stage = 1
     /\ pc \in Steps2 => stage = 2
     /\ pc \in Steps3 => stage = 3
     /\ pc \in Steps4 => stage = 4
     /\ pc \in Steps5 => stage = 5
     /\ pc \in Steps6 => stage = 6
  /\ pc \in InStage => status[stage] = "started"
  /\ pc = "finally" /\ ~error => status[stage] = "completed"
  /\ pc # "idle" => \A s \in Stage :
       s > stage \/ (s = stage /\ pc = "try") => seen[s] = status[s]
  /\ pc # "idle" /\ ~careless => \A s \in Stage : s < stage => status[s] = "completed"
  /\ ~careless => \A s, t \in Stage :
       t < s /\ status[s] = "completed" => status[t] = "completed"

\* Before the first run no stage is under way.
LEMMA ControlInvInit == Init => ControlInv
BY Workflow DEF Init, ControlInv, InStage, Steps1, Steps2, Steps3, Steps4, Steps5, Steps6

\* Every kind of step keeps the stages in order.
LEMMA ControlInvStep == TypeOK /\ ControlInv /\ [Next]_vars => ControlInv'
<1> SUFFICES ASSUME TypeOK, ControlInv, [Next]_vars PROVE ControlInv'
  OBVIOUS
<1> USE Workflow
<1> USE DEF ControlInv, control, run, TypeOK, ToolTypeOK
<1> USE DEF InStage, Steps1, Steps2, Steps3, Steps4, Steps5, Steps6
<1>1. CASE UNCHANGED <<control, pc>>
  BY <1>1
<1>2. CASE UNCHANGED control /\ \E S \in {Steps1, Steps2, Steps3, Steps4, Steps5, Steps6} :
             {pc, pc'} \subseteq S
  BY <1>2
<1>3. CASE Run
  BY <1>3 DEF Run
<1>4. CASE Skip
  BY <1>4 DEF Skip
<1>5. CASE Begin
  BY <1>5 DEF Begin
<1>6. CASE pc = "finally" /\ stage # 6 /\ (error => careless) /\ NextStage
  BY <1>6 DEF NextStage
<1>7. CASE pc # "idle" /\ pc' = "idle" /\ UNCHANGED control
  BY <1>7
<1>8. CASE pc \in InStage /\ Raise
  BY <1>8 DEF Raise
<1>9. CASE pc \in Ender /\ Complete
  BY <1>9 DEF Complete, Ender
<1> QED BY ControlStep, <1>1, <1>2, <1>3, <1>4, <1>5, <1>6, <1>7, <1>8, <1>9

\* A stage that is completed stays so, and one becomes completed only at its
\* last step.
LEMMA StagesComplete ==
  ASSUME TypeOK, ControlInv, [Next]_vars, NEW s \in Stage
  PROVE  /\ status[s] = "completed" => status'[s] = "completed"
         /\ status'[s] = "completed" =>
              status[s] = "completed" \/ (s = stage /\ pc \in Ender /\ Complete)
<1> USE Workflow DEF ControlInv, control, run, TypeOK, ToolTypeOK
<1>1. CASE UNCHANGED control \/ Run \/ Skip \/ NextStage
  BY <1>1 DEF Run, Skip, NextStage
<1>2. CASE Begin
  BY <1>2 DEF Begin
<1>3. CASE pc \in InStage /\ Raise
  BY <1>3 DEF Raise
<1>4. CASE pc \in Ender /\ Complete
  <2>1. pc \in InStage
    BY <1>4 DEF Ender, InStage, Steps1, Steps2, Steps3, Steps4, Steps5, Steps6
  <2> QED BY <1>4, <2>1 DEF Complete
<1> QED BY ControlStep, <1>1, <1>2, <1>3, <1>4

\* The inductive invariant of the stages.
LEMMA ControlCorrect == Spec => [](TypeOK /\ ControlInv)
BY TypeInit, TypeStep, ControlInvInit, ControlInvStep, PTL DEF Spec

\* The stages that others build on are completed by one step each: the
\* databases are deployed, the job has ended, few enough nodes have failed.
LEMMA CompletingSteps ==
  ASSUME TypeOK, ControlInv, [Next]_vars
  PROVE  /\ status'[2] = "completed" => status[2] = "completed" \/ DeployDbWait
         /\ status'[3] = "completed" => status[3] = "completed" \/ WaitSync
         /\ status'[4] = "completed" => status[4] = "completed" \/ Judge
<1>1. ASSUME NEW s \in {2, 3, 4}, status'[s] = "completed", status[s] # "completed"
      PROVE  s = stage /\ pc \in Ender /\ Complete
  BY <1>1, StagesComplete, Workflow
<1>2. pc \in Ender => (stage = 2 => pc = "wait_db") /\ (stage = 3 => pc = "wait_sync")
                        /\ (stage = 4 => pc = "judge")
  BY DEF ControlInv, Ender, Steps1, Steps2, Steps3, Steps4, Steps5, Steps6
<1>3. Complete => ~Raise
  BY DEF Complete, Raise, TypeOK, ToolTypeOK
<1>4. ASSUME pc \in {"wait_db", "wait_sync", "judge"}, Complete
      PROVE  DeployDbWait \/ WaitSync \/ Judge
  <2>1. pc' = "finally"
    BY <1>4 DEF Complete
  <2> QED BY <1>3, <1>4, <2>1 DEF Next, vars, StageStep, Run, Skip, Begin, Finally, BeginApply,
       Apply, DeployDbMissing, JobEnds, Crash, PodStarts, Preflight, Prepare, DeployDb, DeployDbPatch, StepFails,
       DeployControllers, InstallControllers, WaitControllers, Sync,
       Precheck, Switch, Finalize, FinalizeWait, DeleteOvsPod, RestartOvnPod,
       WaitOvnPod, RemoveFinalizers, FinalizePatch, FinalizeHealthy, Cleanup
<1>5. /\ DeployDbWait => pc = "wait_db"
      /\ WaitSync => pc = "wait_sync"
      /\ Judge => pc = "judge"
  BY DEF DeployDbWait, WaitSync, Judge
<1> QED BY <1>1, <1>2, <1>4, <1>5

-----------------------------------------------------------------------------
(* The flows *)

\* Only migrate_dataplane changes flows, and whether the user is careless is
\* settled from the start.
LEMMA OnlySwitch ==
  ASSUME [Next]_vars
  PROVE  (dataplane' = dataplane \/ Switch) /\ careless' = careless
BY DEF Next, vars, StageStep, Run, Skip, Begin, Finally, NextStage, Abort, Return, Apply,
       BeginApply, DeployDbMissing, JobEnds, StepFails, Crash, PodStarts, Preflight, Prepare, DeployDb, DeployDbPatch,
       DeployDbWait, DeployControllers, InstallControllers, WaitControllers, Sync, WaitSync,
       Precheck, Switch, Judge, Finalize, FinalizeWait, DeleteOvsPod, RestartOvnPod,
       WaitOvnPod, RemoveFinalizers, FinalizePatch, FinalizeHealthy, Cleanup,
       Raise, Complete, Goto, system, pods, run

\* The job that fills the OVN database is not run again once it has ended.
LEMMA JobStaysDone == ASSUME [Next]_vars, job = "done" PROVE job' = "done"
BY DEF Next, vars, StageStep, Run, Skip, Begin, Finally, NextStage, Abort, Return, Apply,
       BeginApply, DeployDbMissing, JobEnds, StepFails, Crash, PodStarts, Preflight, Prepare, DeployDb, DeployDbPatch,
       DeployDbWait, DeployControllers, InstallControllers, WaitControllers, Sync, WaitSync,
       Precheck, Switch, Judge, Finalize, FinalizeWait, DeleteOvsPod, RestartOvnPod,
       WaitOvnPod, RemoveFinalizers, FinalizePatch, FinalizeHealthy, Cleanup, system, pods,
       Raise, Complete, Goto

\* The stage that switches the flows begins after the one that fills the
\* database is completed, and the job is never undone.
SyncInv ==
  /\ status[3] = "completed" => job = "done"
  /\ SwitchedAfterSync

\* The flows of a node are OVN's only when the OVN database is filled, for
\* every order of failed, aborted, crashed and repeated stages, unless the user
\* goes on after an error.
THEOREM SyncedBeforeSwitch == Spec => []SwitchedAfterSync
<1> USE Workflow
<1>1. Init => SyncInv
  BY DEF Init, SyncInv, SwitchedAfterSync
<1>2. TypeOK /\ ControlInv /\ SyncInv /\ [Next]_vars => SyncInv'
  <2> SUFFICES ASSUME TypeOK, ControlInv, SyncInv, [Next]_vars PROVE SyncInv'
    OBVIOUS
  <2>1. (status[3] = "completed" => job = "done")'
    BY CompletingSteps, JobStaysDone DEF SyncInv, WaitSync
  <2>2. SwitchedAfterSync'
    <3>1. Switch /\ ~careless => status[3] = "completed"
      BY DEF Switch, ControlInv, Steps4
    <3> QED BY <3>1, OnlySwitch, JobStaysDone DEF SyncInv, SwitchedAfterSync
  <2> QED BY <2>1, <2>2 DEF SyncInv
<1>3. SyncInv => SwitchedAfterSync
  BY DEF SyncInv
<1> QED BY <1>1, <1>2, <1>3, ControlCorrect, PTL DEF Spec

\* The nodes that still forward by the former backend.
FormerFlows == {n \in Nodes : dataplane[n] = "ovs"}

\* The nodes on the former dataplane are among those where the script failed
\* last: after the first attempt, which is for all nodes, each further one is
\* for the failed ones.
FlowsInv ==
  /\ pc = "judge" \/ (pc = "switch" /\ failed # {}) => FormerFlows \subseteq failed
  /\ ThresholdsKept

\* Flows are never switched back: few nodes stay few.
LEMMA ThresholdsMonotone ==
  ASSUME FormerFlows' \subseteq FormerFlows,
         \A N \in {Gateways, Computes} : N \subseteq Nodes
  PROVE  \A k \in Nat, N \in {Gateways, Computes} :
           Cardinality({n \in N : dataplane[n] = "ovs"}) <= k =>
             Cardinality({n \in N : dataplane'[n] = "ovs"}) <= k
<1> SUFFICES ASSUME NEW k \in Nat, NEW N \in {Gateways, Computes},
                    Cardinality({n \in N : dataplane[n] = "ovs"}) <= k
             PROVE  Cardinality({n \in N : dataplane'[n] = "ovs"}) <= k
  OBVIOUS
<1> DEFINE A == {n \in N : dataplane[n] = "ovs"}
           B == {n \in N : dataplane'[n] = "ovs"}
<1>1. B \subseteq A
  BY DEF FormerFlows
<1>2. A \subseteq Nodes
  BY DEF Nodes
<1> HIDE DEF A, B
<1>3. IsFiniteSet(A)
  BY <1>2, OvnAssumption, FS_Subset
<1>4. /\ IsFiniteSet(B) /\ Cardinality(B) <= Cardinality(A)
      /\ Cardinality(A) \in Nat /\ Cardinality(B) \in Nat
  BY <1>1, <1>3, FS_Subset, FS_CardinalityType
<1>5. Cardinality(A) <= k
  BY DEF A
<1>6. Cardinality(B) <= k
  BY <1>4, <1>5
<1> QED BY <1>6 DEF B

\* What check_nodes_results lets through respects both thresholds.
LEMMA FewFailures ==
  ASSUME failed \subseteq Nodes, FormerFlows \subseteq failed, ~check_nodes_results(failed)
  PROVE  /\ Cardinality({n \in Gateways : dataplane[n] = "ovs"}) <= GtwThreshold
         /\ Cardinality({n \in Computes : dataplane[n] = "ovs"}) <= CmpThreshold
<1>1. ASSUME NEW N, N \subseteq Nodes, NEW k \in Nat, ~(Cardinality(failed \cap N) > k)
      PROVE  Cardinality({n \in N : dataplane[n] = "ovs"}) <= k
  <2> DEFINE A == {n \in N : dataplane[n] = "ovs"}
             F == failed \cap N
  <2>1. A \subseteq F /\ F \subseteq Nodes
    BY <1>1 DEF FormerFlows
  <2>2. ~(Cardinality(F) > k)
    BY <1>1
  <2> HIDE DEF A, F
  <2>3. IsFiniteSet(F)
    BY <2>1, OvnAssumption, FS_Subset
  <2>4. /\ IsFiniteSet(A) /\ Cardinality(A) <= Cardinality(F)
        /\ Cardinality(A) \in Nat /\ Cardinality(F) \in Nat
    BY <2>1, <2>3, FS_Subset, FS_CardinalityType
  <2>5. Cardinality(A) <= k
    BY <1>1, <2>2, <2>4
  <2> QED BY <2>5 DEF A
<1> QED BY <1>1, OvnAssumption DEF check_nodes_results, Nodes

\* The steps that leave the failed nodes, and with them where the next attempt
\* goes, alone.
LEMMA FailedSteps ==
  ASSUME TypeOK, [Next]_vars
  PROVE  \/ Precheck \/ Switch
         \/ failed' = failed /\ (pc' \in {"switch", "judge"} => pc' = pc \/ Judge)
<1>1. CASE StageStep
  BY <1>1 DEF StageStep, Prepare, DeployDb, DeployDbPatch, DeployDbWait, DeployDbMissing,
       DeployControllers, WaitApplied,
       InstallControllers, WaitControllers, Sync, WaitSync, Judge, Finalize, FinalizeWait,
       DeleteOvsPod, RestartOvnPod, WaitOvnPod, RemoveFinalizers, FinalizePatch,
       FinalizeHealthy, Cleanup, Raise, Complete, Goto, locals
<1>2. CASE Begin
  <2>1. stage \in {1, 2, 3, 4, 5, 6}
    BY Workflow DEF TypeOK, ToolTypeOK
  <2>2. WORKFLOW[stage] \notin {"switch", "judge"}
    BY <2>1, Workflow
  <2> QED BY <1>2, <2>2 DEF Begin, locals
<1>3. CASE Run \/ Skip \/ Finally \/ StepFails \/ Crash \/ BeginApply \/ Apply \/ JobEnds
  BY <1>3 DEF Run, Skip, Finally, NextStage, Abort, Return, StepFails, Raise, Crash,
       BeginApply, Apply, JobEnds, locals
<1>4. ASSUME NEW n \in Nodes, PodStarts(n) PROVE failed' = failed /\ pc' = pc
  BY <1>4 DEF PodStarts, locals
<1>5. ASSUME Preflight PROVE failed' = failed /\ pc' = pc
  BY <1>5 DEF Preflight, locals
<1> QED BY <1>1, <1>2, <1>3, <1>4, <1>5 DEF Next, vars

\* The stage that switches the flows completes only with few enough nodes left
\* on the former dataplane, for each role, and no later step or repeated stage
\* adds one.
THEOREM FewNodesLeft == Spec => []ThresholdsKept
<1> USE Workflow
<1>1. Init => FlowsInv
  BY DEF Init, FlowsInv, ThresholdsKept
<1>2. TypeOK /\ ControlInv /\ FlowsInv /\ [Next]_vars => FlowsInv'
  <2> SUFFICES ASSUME TypeOK, ControlInv, FlowsInv, [Next]_vars PROVE FlowsInv'
    OBVIOUS
  <2>1. FormerFlows' \subseteq FormerFlows /\ (Switch => FormerFlows' \subseteq failed')
    <3>1. CASE dataplane' = dataplane /\ ~Switch
      BY <3>1 DEF FormerFlows
    <3>2. CASE Switch
      <4> DEFINE targets == IF failed = {} THEN Nodes ELSE failed
      <4>1. PICK F \in SUBSET targets, late \in SUBSET Nodes :
               /\ failed' = F
               /\ dataplane' = [n \in Nodes |->
                    IF n \in (targets \ F) \cup late THEN "ovn" ELSE dataplane[n]]
        BY <3>2 DEF Switch
      <4>2. FormerFlows \subseteq targets
        BY <3>2 DEF FlowsInv, Switch, FormerFlows
      <4> QED BY <4>1, <4>2 DEF FormerFlows
    <3> QED BY <3>1, <3>2, OnlySwitch
  <2>2. (pc = "judge" \/ (pc = "switch" /\ failed # {}) => FormerFlows \subseteq failed)'
    <3>1. CASE Switch
      BY <3>1, <2>1
    <3>2. CASE Precheck
      BY <3>2 DEF Precheck, Goto, Raise
    <3>3. CASE failed' = failed /\ (pc' \in {"switch", "judge"} => pc' = pc \/ Judge)
      <4>1. Judge => pc = "judge"
        BY DEF Judge
      <4> QED BY <3>3, <4>1, <2>1 DEF FlowsInv
    <3> QED BY <3>1, <3>2, <3>3, FailedSteps
  <2>3. ThresholdsKept'
    <3> SUFFICES ASSUME status'[4] = "completed"
                 PROVE /\ Cardinality({n \in Gateways : dataplane'[n] = "ovs"}) <= GtwThreshold
                       /\ Cardinality({n \in Computes : dataplane'[n] = "ovs"}) <= CmpThreshold
      BY DEF ThresholdsKept
    <3>1. /\ Cardinality({n \in Gateways : dataplane[n] = "ovs"}) <= GtwThreshold
          /\ Cardinality({n \in Computes : dataplane[n] = "ovs"}) <= CmpThreshold
      <4>1. CASE status[4] = "completed"
        BY <4>1 DEF FlowsInv, ThresholdsKept
      <4>2. CASE Judge /\ status[4] # "completed"
        <5>1. pc = "judge" /\ stage = 4 /\ status[4] = "started"
          BY <4>2 DEF Judge, ControlInv, Steps4, InStage
        <5>2. ~check_nodes_results(failed)
          BY <4>2, <5>1 DEF Judge, Goto, Raise, TypeOK, ToolTypeOK
        <5> QED BY <5>1, <5>2, FewFailures DEF FlowsInv, TypeOK, ToolTypeOK
      <4> QED BY <4>1, <4>2, CompletingSteps
    <3>2. \A N \in {Gateways, Computes} : N \subseteq Nodes
      BY DEF Nodes
    <3> QED BY <2>1, <3>1, <3>2, ThresholdsMonotone, OvnAssumption
  <2> QED BY <2>2, <2>3 DEF FlowsInv
<1>3. FlowsInv => ThresholdsKept
  BY DEF FlowsInv
<1> QED BY <1>1, <1>2, <1>3, ControlCorrect, PTL DEF Spec
-----------------------------------------------------------------------------
(* The nodes *)

Finalizing == {"next_node", "restart", "wait_pod", "patch_server", "wait_server"}

\* What the deployment asks for, by the stages that are behind: OVN from
\* deploy_ovn_db on, its controllers from finalize_migration on and a draft in
\* between, so that the controller does not remove those the tool installed.
\* What it is at work on is no older than the last of these changes, since the
\* tool has waited for it.
SpecInv ==
  /\ applied.backend = "ovn" => spec.backend = "ovn"
  /\ pc = "patch_db" => finalizer \/ spec.backend = "ovn"
  /\ status[2] = "completed" => spec.backend = "ovn"
  /\ applied.controllers => spec.controllers
  /\ spec.controllers => status[4] = "completed"
  /\ status[3] = "completed" => spec.draft \/ spec.controllers
  /\ pc \in Steps3 \ {"deploy_ovn_controllers"} => spec.draft
  /\ pc \in Steps5 \ {"finalize_migration"} => spec.controllers /\ ~spec.draft
  /\ pc \in Finalizing => applied.controllers /\ applied.backend = "ovn"
  /\ \A w \in work : /\ w.backend = "ovn" => spec.backend = "ovn"
                     /\ w.controllers => spec.controllers
  /\ spec.controllers => \A w \in work : w.controllers /\ w.backend = "ovn"
  /\ status[2] = "completed" /\ ~spec.controllers =>
       work = {} /\ (spec.draft \/ applied = spec)

\* The pods follow: the OVN controllers are there once they were installed, and
\* vswitchd runs everywhere until the deployment asks for them.
PodsInv ==
  /\ applied.controllers => gen = "normal"
  /\ gen = "none" => \A n \in Nodes : ovn[n] = "absent"
  /\ gen # "none" => \A n \in Nodes : ovn[n] \in {"starting", "migration", "normal"}
  /\ status[3] = "completed" => gen # "none"
  /\ pc \in {"wait_controllers", "sync", "wait_sync"} => gen # "none"
  /\ ~spec.controllers => \A n \in Nodes : ovs[n]
  /\ spec.backend = "ovn" /\ ~finalizer => \A n \in Nodes : ~ovs[n]
  /\ \A n \in Nodes : dataplane[n] = "ovn" => status[3] = "completed"

\* The node the finalization is at, and those before it.
LoopInv ==
  /\ pc \in {"next_node", "restart", "wait_pod"} => \A n \in Nodes : ovs[n] => n \in todo
  /\ pc \in {"restart", "wait_pod"} => node \in Nodes /\ ~ovs[node]
  /\ pc = "wait_pod" => ovn[node] \in {"starting", "normal"}

SystemInv == SpecInv /\ PodsInv /\ LoopInv

\* The nodes without vswitchd whose OVN controller does not run alone yet, but
\* for the one the tool waits for.
Down == {n \in Nodes : ~ovs[n] /\ ovn[n] # "normal"}
Awaited == {n \in Nodes : n = node /\ pc \in {"restart", "wait_pod"}}
Abandoned == Down \ Awaited

NodesInv == ~careless /\ ~hasty => SystemInv /\ Cardinality(Abandoned) <= faults

cloud == <<spec, controller, finalizer, pods>>

\* The steps at which no invariant of the cloud depends on where the tool is.
Quiet == {"idle", "try", "finally", "prepare", "deploy_ovn_db", "wait_db",
          "deploy_ovn_controllers", "migrate_dataplane", "switch", "judge",
          "finalize_migration", "cleanup"}

\* Steps that neither change the cloud nor leave the tool at a step that
\* something is assumed of; when they leave a node that is being restarted it
\* is by a failure or a crash.
LEMMA QuietSteps ==
  ASSUME TypeOK, [Next]_vars
  PROVE  \/ /\ UNCHANGED cloud /\ pc' \in Quiet
            /\ pc \in {"restart", "wait_pod"} => faults' = faults + 1
         \/ UNCHANGED <<cloud, pc, node, todo>>
         \/ DeployDb \/ DeployDbPatch
         \/ DeployControllers \/ InstallControllers \/ WaitControllers \/ Sync \/ Switch
         \/ Finalize \/ FinalizeWait \/ DeleteOvsPod \/ RestartOvnPod \/ WaitOvnPod
         \/ RemoveFinalizers \/ FinalizePatch
         \/ BeginApply \/ Apply \/ \E n \in Nodes : PodStarts(n)
<1> USE DEF cloud, controller, pods, system, Quiet
<1>1. CASE Prepare \/ DeployDbWait \/ DeployDbMissing \/ WaitSync \/ FinalizeHealthy \/ Cleanup
  BY <1>1 DEF Prepare, DeployDbWait, DeployDbMissing, WaitSync, FinalizeHealthy, Cleanup,
       Complete, Raise
<1>2. CASE Precheck \/ Judge
  BY <1>2 DEF Precheck, Judge, Complete, Raise, Goto
<1>3. CASE Run \/ Skip \/ Finally
  BY <1>3 DEF Run, Skip, Finally, NextStage, Abort, Return
<1>4. CASE Begin
  <2>1. stage \in {1, 2, 3, 4, 5, 6}
    BY Workflow DEF TypeOK, ToolTypeOK
  <2>2. WORKFLOW[stage] \in Quiet
    BY <2>1, Workflow
  <2> QED BY <1>4, <2>2 DEF Begin
<1>5. CASE StepFails \/ Crash
  BY <1>5 DEF StepFails, Crash, Fault, Raise
<1>6. CASE JobEnds \/ UNCHANGED vars
  BY <1>6 DEF JobEnds, locals, vars
<1>7. ASSUME Preflight PROVE UNCHANGED <<cloud, pc, node, todo>>
  BY <1>7 DEF Preflight, locals
<1> QED BY <1>1, <1>2, <1>3, <1>4, <1>5, <1>6, <1>7 DEF Next, StageStep

\* Unless the user goes on after errors, the stages before the one under way
\* are completed, and those from it on are not.
LEMMA StagesInOrder ==
  ASSUME TypeOK, ControlInv, ~careless
  PROVE  /\ pc \in Steps2 => \A s \in {2, 3, 4} : status[s] # "completed"
         /\ pc \in Steps3 => status[2] = "completed" /\ \A s \in {3, 4} : status[s] # "completed"
         /\ pc \in Steps4 => status[3] = "completed"
         /\ pc \in Steps5 => \A s \in {2, 3, 4} : status[s] = "completed"
<1> USE Workflow DEF ControlInv, InStage
<1>1. CASE pc \in Steps2
  BY <1>1 DEF Steps2, Steps3, Steps4, Steps5
<1>2. CASE pc \in Steps3
  BY <1>2 DEF Steps2, Steps3, Steps4, Steps5
<1>3. CASE pc \in Steps4
  BY <1>3 DEF Steps2, Steps3, Steps4, Steps5
<1>4. CASE pc \in Steps5
  BY <1>4 DEF Steps2, Steps3, Steps4, Steps5
<1> QED BY <1>1, <1>2, <1>3, <1>4

\* The stages the cloud depends on, after a step.
LEMMA StagesAfter ==
  ASSUME TypeOK, ControlInv, [Next]_vars
  PROVE  /\ \A s \in {2, 3, 4} : status[s] = "completed" => status'[s] = "completed"
         /\ status'[2] = "completed" => status[2] = "completed" \/ DeployDbWait
         /\ status'[3] = "completed" => status[3] = "completed" \/ WaitSync
BY StagesComplete, CompletingSteps, Workflow

\* The stages are completed in order, and the deployment asks for OVN
\* controllers only after the fourth.
LEMMA EarlierStages ==
  ASSUME TypeOK, ControlInv, ~careless
  PROVE  \A s \in {3, 4} : status[s] = "completed" => status[2] = "completed"
BY Workflow DEF ControlInv

\* Haste is not forgotten; without it the tool goes on when the controller has
\* done what the deployment asks for.
LEMMA Patience ==
  ASSUME TypeOK, [Next]_vars, ~hasty'
  PROVE  /\ ~hasty
         /\ DeployDbWait \/ FinalizeWait => Settled
<1>1. CASE DeployDbWait \/ FinalizeWait \/ FinalizeHealthy
  BY <1>1 DEF DeployDbWait, FinalizeWait, FinalizeHealthy, WaitApplied, TypeOK, ToolTypeOK
<1>2. CASE ~(DeployDbWait \/ FinalizeWait \/ FinalizeHealthy)
  <2>1. hasty' = hasty
    BY <1>2 DEF Next, vars, StageStep, Run, Skip, Begin, Finally, NextStage, Abort, Return,
       Apply, BeginApply, DeployDbMissing, JobEnds, StepFails, Crash, PodStarts, Preflight,
       Prepare, DeployDb, DeployDbPatch, DeployControllers, InstallControllers,
       WaitControllers, Sync, WaitSync, Precheck, Switch, Judge, Finalize, DeleteOvsPod,
       RestartOvnPod, WaitOvnPod, RemoveFinalizers, FinalizePatch, Cleanup, locals
  <2> QED BY <1>2, <2>1
<1> QED BY <1>1, <1>2

\* A step keeps what the deployment asks for in line with the stages.
LEMMA SpecInvStep ==
  ASSUME TypeOK, ControlInv, ~careless, ~hasty', SpecInv, [Next]_vars
  PROVE  SpecInv'
<1> USE StagesInOrder, StagesAfter, EarlierStages
<1> USE DEF SpecInv, Finalizing, Steps2, Steps3, Steps4, Steps5
<1>1. spec \in Specs /\ applied \in Specs /\ work \subseteq Specs
  BY DEF TypeOK, SystemTypeOK
<1>2. /\ DeployDbWait => applied.backend = "ovn" /\ work = {} /\ (spec.draft \/ applied = spec)
      /\ WaitSync => pc = "wait_sync"
  BY Patience DEF DeployDbWait, WaitSync, Settled, IsApplied
<1>3. CASE UNCHANGED cloud /\ pc' \in Quiet
  BY <1>2, <1>3 DEF cloud, controller, Quiet
<1>4. CASE UNCHANGED <<cloud, pc>>
  BY <1>2, <1>4 DEF cloud, controller
<1>5. CASE DeployDb
  BY <1>1, <1>5 DEF DeployDb, Goto, Specs, controller
<1>6. CASE DeployDbPatch
  BY <1>1, <1>6 DEF DeployDbPatch, Goto, Specs, controller
<1>7. CASE DeployControllers
  BY <1>1, <1>7 DEF DeployControllers, Goto, Specs, controller
<1>8. CASE InstallControllers \/ WaitControllers \/ Sync
  BY <1>8 DEF InstallControllers, WaitControllers, Sync, Goto, system, controller
<1>9. CASE Switch
  BY <1>9 DEF Switch, controller
<1>10. CASE Finalize
  BY <1>1, <1>10 DEF Finalize, Goto, Specs, controller
<1>11. CASE FinalizeWait
  <2>1. work = {} /\ applied = spec
    BY <1>11, Patience DEF FinalizeWait, Settled, IsApplied
  <2> QED BY <1>1, <1>11, <2>1 DEF FinalizeWait, Goto, Specs, system, controller
<1>12. CASE DeleteOvsPod \/ RestartOvnPod \/ WaitOvnPod \/ RemoveFinalizers
  BY <1>12 DEF DeleteOvsPod, RestartOvnPod, WaitOvnPod, RemoveFinalizers, Goto, system,
        controller
<1>13. CASE FinalizePatch
  BY <1>1, <1>13 DEF FinalizePatch, Goto, Specs, controller
<1>14. CASE BeginApply
  BY <1>1, <1>14 DEF BeginApply
<1>15. CASE Apply
  BY <1>1, <1>15 DEF Apply
<1>16. ASSUME NEW n \in Nodes, PodStarts(n) PROVE SpecInv'
  BY <1>16 DEF PodStarts, controller
<1> QED BY <1>3, <1>4, <1>5, <1>6, <1>7, <1>8, <1>9, <1>10, <1>11, <1>12, <1>13, <1>14,
           <1>15, <1>16, QuietSteps

\* A step keeps the pods in line with the deployment: the controller cannot
\* take vswitchd away, nor the OVN controllers, while flows depend on them.
LEMMA PodsInvStep ==
  ASSUME TypeOK, ControlInv, ~careless, SpecInv, PodsInv, [Next]_vars
  PROVE  PodsInv'
<1> USE StagesInOrder, StagesAfter, EarlierStages
<1> USE DEF SpecInv, PodsInv, Finalizing, Steps2, Steps3, Steps4, Steps5
<1>1. /\ spec \in Specs /\ applied \in Specs /\ ovs \in [Nodes -> BOOLEAN]
      /\ ovn \in [Nodes -> {"absent", "starting", "none", "migration", "normal"}]
      /\ gen \in {"none", "migration", "normal"} /\ finalizer \in BOOLEAN
  BY DEF TypeOK, SystemTypeOK
<1>2. WaitSync => pc = "wait_sync"
  BY DEF WaitSync
<1>3. CASE UNCHANGED cloud /\ pc' \in Quiet
  BY <1>2, <1>3 DEF cloud, controller, pods, Quiet
<1>4. CASE UNCHANGED <<cloud, pc>>
  BY <1>2, <1>4 DEF cloud, controller, pods
<1>5. CASE DeployDb
  BY <1>1, <1>5 DEF DeployDb, Goto, Specs, controller, pods
<1>6. CASE DeployDbPatch
  BY <1>1, <1>6 DEF DeployDbPatch, Goto, Specs, controller, pods
<1>7. CASE DeployControllers
  BY <1>1, <1>7 DEF DeployControllers, Goto, Specs, controller, pods
<1>8. CASE InstallControllers
  BY <1>1, <1>8 DEF InstallControllers, Goto, controller
<1>9. CASE WaitControllers \/ Sync
  BY <1>9 DEF WaitControllers, Sync, Goto, system, controller, pods
<1>10. CASE Switch
  <2>1. UNCHANGED <<spec, applied, finalizer, gen, ovn, ovs, status>> /\ pc' = "judge"
    BY <1>10 DEF Switch, controller
  <2>2. status[3] = "completed"
    BY <1>10 DEF Switch
  <2> QED BY <2>1, <2>2
<1>11. CASE Finalize
  BY <1>1, <1>11 DEF Finalize, Goto, Specs, controller, pods
<1>12. CASE FinalizeWait \/ WaitOvnPod
  BY <1>12 DEF FinalizeWait, WaitOvnPod, Goto, system, controller, pods
<1>13. CASE DeleteOvsPod
  BY <1>1, <1>13 DEF DeleteOvsPod, Goto, controller
<1>14. CASE RestartOvnPod
  BY <1>1, <1>14 DEF RestartOvnPod, Goto, controller
<1>15. CASE RemoveFinalizers
  BY <1>1, <1>15 DEF RemoveFinalizers, Goto, controller
<1>16. CASE FinalizePatch
  BY <1>1, <1>16 DEF FinalizePatch, Goto, Specs, controller, pods
<1>17. CASE BeginApply
  BY <1>17 DEF BeginApply, pods
<1>18. CASE Apply
  <2>1. PICK w \in work :
          /\ applied' = w
          /\ gen' = IF w.controllers THEN "normal" ELSE "none"
          /\ ovn' = [n \in Nodes |->
               CASE ~w.controllers -> "absent"
                 [] w.controllers /\ ovn[n] = "absent" -> "starting"
                 [] w.controllers /\ ~w.migration /\ ovn[n] # "normal" -> "starting"
                 [] OTHER -> ovn[n]]
          /\ ovs' = [n \in Nodes |-> ovs[n] /\ (w.backend = "ovs" \/ finalizer)]
    BY <1>18 DEF Apply
  <2>2. w.backend \in {"ovs", "ovn"} /\ w.controllers \in BOOLEAN
    BY DEF TypeOK, SystemTypeOK, Specs
  <2>3. UNCHANGED <<spec, finalizer, dataplane, status, pc>>
    BY <1>18 DEF Apply
  <2>4. status[2] = "completed" => w.controllers
    OBVIOUS
  <2>5. /\ (applied.controllers => gen = "normal")'
        /\ (status[3] = "completed" => gen # "none")'
        /\ (pc \in {"wait_controllers", "sync", "wait_sync"} => gen # "none")'
    BY <2>1, <2>3, <2>4
  <2>6. /\ (gen = "none" => \A n \in Nodes : ovn[n] = "absent")'
        /\ (gen # "none" => \A n \in Nodes : ovn[n] \in {"starting", "migration", "normal"})'
    <3>1. CASE w.controllers
      BY <1>1, <3>1, <2>1
    <3>2. CASE ~w.controllers
      BY <3>2, <2>1
    <3> QED BY <3>1, <3>2
  <2>7. /\ (~spec.controllers => \A n \in Nodes : ovs[n])'
        /\ (spec.backend = "ovn" /\ ~finalizer => \A n \in Nodes : ~ovs[n])'
    BY <2>1, <2>2, <2>3
  <2> QED BY <2>3, <2>5, <2>6, <2>7
<1>19. ASSUME NEW n \in Nodes, PodStarts(n) PROVE PodsInv'
  BY <1>1, <1>19 DEF PodStarts, controller
<1> QED BY <1>3, <1>4, <1>5, <1>6, <1>7, <1>8, <1>9, <1>10, <1>11, <1>12, <1>13, <1>14,
           <1>15, <1>16, <1>17, <1>18, <1>19, QuietSteps

\* A step of finalize_migration, or of the controller and the pods during it,
\* keeps the loop over the nodes right.
LEMMA LoopInvStep ==
  ASSUME TypeOK, ControlInv, ~careless, ~hasty', SpecInv, PodsInv, LoopInv, [Next]_vars
  PROVE  LoopInv'
<1> USE DEF SpecInv, PodsInv, LoopInv, Finalizing, Steps5
<1>1. /\ ovs \in [Nodes -> BOOLEAN] /\ gen \in {"none", "migration", "normal"}
      /\ ovn \in [Nodes -> {"absent", "starting", "none", "migration", "normal"}]
  BY DEF TypeOK, SystemTypeOK
<1>2. CASE UNCHANGED cloud /\ pc' \in Quiet
  BY <1>2 DEF Quiet
<1>3. CASE UNCHANGED <<cloud, pc, node, todo>>
  BY <1>3 DEF cloud, controller, pods
<1>4. CASE DeployDb \/ DeployDbPatch \/ DeployControllers \/ InstallControllers
           \/ WaitControllers \/ Sync \/ Switch \/ Finalize \/ RemoveFinalizers \/ FinalizePatch
  BY <1>4 DEF DeployDb, DeployDbPatch, DeployControllers, InstallControllers,
        WaitControllers, Sync, Switch, Finalize, RemoveFinalizers, FinalizePatch, Goto
<1>5. CASE FinalizeWait
  <2>1. spec.controllers /\ ~spec.draft /\ Settled
    BY <1>5, Patience DEF FinalizeWait
  <2>2. applied.controllers
    BY <2>1 DEF Settled
  <2>3. \A n \in Nodes : ovn[n] # "absent"
    BY <2>2
  <2> QED BY <1>5, <2>3 DEF FinalizeWait, Goto, system, pods
<1>6. CASE DeleteOvsPod
  BY <1>1, <1>6 DEF DeleteOvsPod, Goto, TypeOK, ToolTypeOK
<1>7. CASE RestartOvnPod
  BY <1>1, <1>7 DEF RestartOvnPod, Goto, locals
<1>8. CASE WaitOvnPod
  BY <1>8 DEF WaitOvnPod, Goto, locals, system, pods
<1>9. CASE BeginApply
  BY <1>9 DEF BeginApply, locals, pods
<1>10. CASE Apply
  <2>1. UNCHANGED <<pc, node, todo>>
    BY <1>10 DEF Apply, locals
  <2>2. \A n \in Nodes : ovs'[n] => ovs[n]
    BY <1>10 DEF Apply
  <2>3. ASSUME pc = "wait_pod" PROVE ovn'[node] \in {"starting", "normal"}
    BY <1>10, <2>3 DEF Apply
  <2> QED BY <2>1, <2>2, <2>3
<1>11. ASSUME NEW n \in Nodes, PodStarts(n) PROVE LoopInv'
  BY <1>1, <1>11 DEF PodStarts, locals
<1> QED BY <1>2, <1>3, <1>4, <1>5, <1>6, <1>7, <1>8, <1>9, <1>10, <1>11, QuietSteps

\* One more element makes a set larger by at most one.
LEMMA OneMore ==
  ASSUME NEW S, IsFiniteSet(S), NEW x
  PROVE  /\ IsFiniteSet(S \cup {x})
         /\ Cardinality(S \cup {x}) <= Cardinality(S) + 1
<1>1. Cardinality(S) \in Nat
  BY FS_CardinalityType
<1>2. /\ IsFiniteSet(S \cup {x})
      /\ Cardinality(S \cup {x}) = IF x \in S THEN Cardinality(S) ELSE Cardinality(S) + 1
  BY FS_AddElement
<1> QED BY <1>1, <1>2

\* Failures, crashes and needless aborts are counted.
LEMMA FaultsCounted == ASSUME TypeOK, [Next]_vars PROVE faults' \in {faults, faults + 1}
BY DEF Next, vars, StageStep, Run, Skip, Begin, Finally, NextStage, Abort, Return, Apply,
       BeginApply, DeployDbMissing, JobEnds, StepFails, Crash, PodStarts, Preflight, Prepare, DeployDb, DeployDbPatch,
       DeployDbWait, DeployControllers, InstallControllers, WaitControllers, Sync, WaitSync,
       Precheck, Switch, Judge, Finalize, FinalizeWait, DeleteOvsPod, RestartOvnPod,
       WaitOvnPod, RemoveFinalizers, FinalizePatch, FinalizeHealthy, Cleanup,
       Raise, Complete, Goto, Fault

\* A node is without vswitchd and without OVN alone only because the tool has
\* deleted its pod and waits for the other, or because it failed or crashed
\* while it did.
LEMMA DownStep ==
  ASSUME TypeOK, ControlInv, ~careless, SystemInv, [Next]_vars
  PROVE  \/ Abandoned' \subseteq Abandoned
         \/ faults' = faults + 1 /\ Abandoned' \subseteq Abandoned \cup {node}
<1> USE DEF Down, Awaited, Abandoned
<1> USE DEF SystemInv, SpecInv, PodsInv, LoopInv, Finalizing, Steps2, Steps3, Steps5
<1>1. /\ ovs \in [Nodes -> BOOLEAN] /\ gen \in {"none", "migration", "normal"}
      /\ ovn \in [Nodes -> {"absent", "starting", "none", "migration", "normal"}]
  BY DEF TypeOK, SystemTypeOK
<1>2. CASE /\ UNCHANGED cloud /\ pc' \in Quiet
           /\ pc \in {"restart", "wait_pod"} => faults' = faults + 1
  <2>1. Down' = Down /\ Awaited' = {}
    BY <1>2 DEF cloud, controller, pods, Quiet
  <2> QED BY <1>2, <2>1
<1>3. CASE UNCHANGED <<cloud, pc, node, todo>>
  BY <1>3 DEF cloud, controller, pods
<1>4. CASE DeployDb \/ DeployDbPatch \/ DeployControllers \/ WaitControllers \/ Sync
           \/ Switch \/ Finalize \/ FinalizeWait \/ FinalizePatch
  <2>1. Down' = Down /\ Awaited = {}
    BY <1>4 DEF DeployDb, DeployDbPatch, DeployControllers, WaitControllers, Sync, Switch,
          Finalize, FinalizeWait, FinalizePatch, system, pods
  <2> QED BY <2>1
<1>5. CASE InstallControllers
  <2>1. \A n \in Nodes : ovs[n]
    BY <1>5, StagesInOrder DEF InstallControllers
  <2> QED BY <1>5, <2>1 DEF InstallControllers
<1>6. CASE DeleteOvsPod
  BY <1>1, <1>6 DEF DeleteOvsPod, Goto
<1>7. CASE RestartOvnPod
  BY <1>1, <1>7 DEF RestartOvnPod, Goto, locals
<1>8. CASE WaitOvnPod
  BY <1>8 DEF WaitOvnPod, Goto, system, pods
<1>9. CASE RemoveFinalizers
  BY <1>9 DEF RemoveFinalizers, Goto
<1>10. CASE BeginApply
  BY <1>10 DEF BeginApply, locals, pods
<1>11. CASE Apply
  <2>1. PICK w \in work :
          /\ ovn' = [n \in Nodes |->
               CASE ~w.controllers -> "absent"
                 [] w.controllers /\ ovn[n] = "absent" -> "starting"
                 [] w.controllers /\ ~w.migration /\ ovn[n] # "normal" -> "starting"
                 [] OTHER -> ovn[n]]
          /\ ovs' = [n \in Nodes |-> ovs[n] /\ (w.backend = "ovs" \/ finalizer)]
    BY <1>11 DEF Apply
  <2>2. w.backend \in {"ovs", "ovn"} /\ finalizer \in BOOLEAN /\ UNCHANGED <<pc, node>>
    BY <1>11 DEF TypeOK, SystemTypeOK, Specs, Apply, locals
  <2>3. \A n \in Nodes : ovs'[n] = ovs[n]
    BY <1>1, <2>1, <2>2
  <2>4. \A n \in Nodes : ~ovs[n] /\ ovn[n] = "normal" => ovn'[n] = "normal"
    BY <2>1
  <2> QED BY <2>2, <2>3, <2>4
<1>12. ASSUME NEW n \in Nodes, PodStarts(n) PROVE Abandoned' \subseteq Abandoned
  BY <1>1, <1>12 DEF PodStarts, locals
<1> QED BY <1>2, <1>3, <1>4, <1>5, <1>6, <1>7, <1>8, <1>9, <1>10, <1>11, <1>12, QuietSteps

\* At first vswitchd runs on every node.
LEMMA NodesInvInit == Init => NodesInv
<1> SUFFICES ASSUME Init PROVE SystemInv /\ Cardinality(Abandoned) <= faults
  BY DEF NodesInv
<1>1. SystemInv
  BY Workflow DEF Init, SystemInv, SpecInv, PodsInv, LoopInv, Finalizing, Steps3, Steps5
<1>2. Abandoned = {}
  BY DEF Init, Abandoned, Down
<1> QED BY <1>1, <1>2, FS_EmptySet DEF Init

\* A step abandons at most one node, and only with a fault.
LEMMA NodesInvStep == TypeOK /\ ControlInv /\ NodesInv /\ [Next]_vars => NodesInv'
<1> SUFFICES ASSUME TypeOK, ControlInv, NodesInv, [Next]_vars, ~careless, ~hasty'
             PROVE  SystemInv' /\ Cardinality(Abandoned') <= faults'
  BY OnlySwitch DEF NodesInv
<1>1. SystemInv /\ Cardinality(Abandoned) <= faults
  BY Patience DEF NodesInv
<1>2. SystemInv'
  BY <1>1, SpecInvStep, PodsInvStep, LoopInvStep DEF SystemInv
<1>3. Abandoned \subseteq Nodes
  BY DEF Abandoned, Down
<1>4. IsFiniteSet(Abandoned) /\ IsFiniteSet({node})
  BY <1>3, OvnAssumption, FS_Subset, FS_Singleton
<1>5. Cardinality(Abandoned) \in Nat /\ Cardinality({node}) = 1 /\ faults \in Nat
  BY <1>4, FS_CardinalityType, FS_Singleton DEF TypeOK, ToolTypeOK
<1>6. CASE Abandoned' \subseteq Abandoned
  <2>1. Cardinality(Abandoned') <= Cardinality(Abandoned) /\ Cardinality(Abandoned') \in Nat
    BY <1>4, <1>6, FS_Subset, FS_CardinalityType
  <2> QED BY <1>1, <1>2, <1>5, <2>1, FaultsCounted
<1>7. CASE faults' = faults + 1 /\ Abandoned' \subseteq Abandoned \cup {node}
  <2>1. /\ IsFiniteSet(Abandoned \cup {node})
        /\ Cardinality(Abandoned \cup {node}) <= Cardinality(Abandoned) + 1
    BY <1>4, OneMore
  <2>2. /\ Cardinality(Abandoned') <= Cardinality(Abandoned \cup {node})
        /\ Cardinality(Abandoned') \in Nat /\ Cardinality(Abandoned \cup {node}) \in Nat
    BY <1>7, <2>1, FS_Subset, FS_CardinalityType
  <2> QED BY <1>1, <1>2, <1>5, <1>7, <2>1, <2>2
<1> QED BY <1>1, <1>6, <1>7, DownStep

\* With k failures, crashes and aborts so far at most k + 1 nodes are without
\* network, whatever the number of nodes and whenever the controller, the
\* pods and the tool take their steps, as long as the tool's sleep was long
\* enough for the controller to begin and the user stops at errors.
THEOREM OneNodeDown == Spec => []OneNodeAtATime
<1>1. TypeOK /\ NodesInv => OneNodeAtATime
  <2> SUFFICES ASSUME TypeOK, SystemInv, Cardinality(Abandoned) <= faults
               PROVE  Cardinality({n \in Nodes : ~Forwarding(n)}) <= 1 + faults
    BY DEF OneNodeAtATime, NodesInv
  <2> DEFINE Dead == {n \in Nodes : ~Forwarding(n)}
  <2>1. \A n \in Nodes : dataplane[n] = "ovn" => ovn[n] \in {"migration", "normal", "starting"}
    BY DEF SystemInv, PodsInv
  <2>2. Dead \subseteq Abandoned \cup {node}
    BY <2>1 DEF Forwarding, Abandoned, Down, Awaited
  <2>3. Abandoned \subseteq Nodes
    BY DEF Abandoned, Down
  <2>4. IsFiniteSet(Abandoned) /\ IsFiniteSet({node}) /\ Cardinality({node}) = 1
    BY <2>3, OvnAssumption, FS_Subset, FS_Singleton
  <2>5. /\ IsFiniteSet(Abandoned \cup {node})
        /\ Cardinality(Abandoned \cup {node}) <= Cardinality(Abandoned) + 1
    BY <2>4, OneMore
  <2> HIDE DEF Dead
  <2>6. /\ Cardinality(Dead) <= Cardinality(Abandoned \cup {node})
        /\ Cardinality(Dead) \in Nat /\ Cardinality(Abandoned \cup {node}) \in Nat
        /\ Cardinality(Abandoned) \in Nat
    BY <2>2, <2>4, <2>5, FS_Subset, FS_CardinalityType
  <2>7. Cardinality(Dead) <= 1 + faults
    BY <2>5, <2>6 DEF TypeOK, ToolTypeOK
  <2> QED BY <2>7 DEF Dead
<1> QED BY <1>1, NodesInvInit, NodesInvStep, ControlCorrect, PTL DEF Spec
-----------------------------------------------------------------------------
(* The preflight checks *)

\* 0 is the first address of all.
LEMMA WildcardIsAll == Address \subseteq AddressesOf(Wildcard)
<1>1. Size(0) \in Int
  BY BitsAssumption DEF Size
<1>2. ASSUME NEW a \in Address PROVE 0 <= a /\ a < 0 + Size(0)
  BY <1>1, <1>2 DEF Address
<1> QED BY <1>2 DEF AddressesOf, Wildcard

\* A rule that is for UDP port 67, or for all ports, lets a packet to it pass
\* when one of the networks the rule is for has the address.
LEMMA AllowedPasses ==
  ASSUME NEW rule, rule.min \in Int, rule.max \in Int, RuleAllowsDhcp(rule),
         NEW net \in NetworksOf(rule), NEW a \in AddressesOf(net)
  PROVE  Passes(rule, a, DhcpPort)
<1>1. rule.anywhere \/ \E c \in rule.cidrs : a \in AddressesOf(c)
  BY DEF NetworksOf
<1>2. \/ rule.protocol = "any"
      \/ /\ rule.protocol = "udp"
         /\ DhcpPort \in (IF rule.min = None THEN 0 ELSE rule.min)..
                         (IF rule.max = None THEN 65535 ELSE rule.max)
  BY DEF RuleAllowsDhcp, DhcpPort, None
<1> QED BY <1>1, <1>2 DEF Passes, RuleAllowsDhcp

\* are_addresses_allowed_by_firewall compares networks; each of their
\* addresses is let through.
LEMMA FirewallAllows ==
  ASSUME NEW rules, \A rule \in rules : rule.min \in Int /\ rule.max \in Int,
         NEW tested, NEW net \in tested, NEW a \in AddressesOf(net),
         are_addresses_allowed_by_firewall(tested, security_group_dhcp_allowed_ipv4(rules))
  PROVE  \E rule \in rules : Passes(rule, a, DhcpPort)
<1> DEFINE permitted == security_group_dhcp_allowed_ipv4(rules)
<1>1. a \in Address
  BY DEF AddressesOf
<1>2. PICK other \in permitted : a \in AddressesOf(other)
  <2>1. CASE Wildcard \in permitted
    BY <1>1, <2>1, WildcardIsAll
  <2>2. CASE Wildcard \notin permitted
    <3>1. PICK other \in permitted : net \in subnets(other, net[2])
      BY <2>2 DEF are_addresses_allowed_by_firewall
    <3>2. AddressesOf(net) \subseteq AddressesOf(other)
      BY <3>1 DEF subnets
    <3> QED BY <3>1, <3>2
  <2> QED BY <2>1, <2>2
<1>3. PICK rule \in rules : RuleAllowsDhcp(rule) /\ other \in NetworksOf(rule)
  BY <1>2 DEF security_group_dhcp_allowed_ipv4
<1> QED BY <1>2, <1>3, AllowedPasses

\* What check_port_sg_allowed_dhcp4 looks at and accepts can get its address.
LEMMA AcceptedGetsAddress ==
  ASSUME NEW port \in Ports, IsTested(port), check_port_sg_allowed_dhcp4(port)
  PROVE  GetsAddress(port)
<1> SUFFICES ASSUME NEW s \in port.subnets, s.dhcp, s.version = 4, port.security,
                    NEW a \in AddressesOf(s.cidr) \cup AddressesOf(Broadcast)
             PROVE  \E rule \in port.rules : Passes(rule, a, DhcpPort)
  BY DEF GetsAddress
<1> DEFINE tested == port_cidrs_with_dhcp4(port)
           permitted == security_group_dhcp_allowed_ipv4(port.rules)
<1>1. s.cidr \in tested
  BY DEF port_cidrs_with_dhcp4
<1>2. /\ are_addresses_allowed_by_firewall({Broadcast}, permitted)
      /\ are_addresses_allowed_by_firewall(tested, permitted)
  BY <1>1 DEF check_port_sg_allowed_dhcp4
<1>3. \A rule \in port.rules : rule.min \in Int /\ rule.max \in Int
  BY OvnAssumption
<1> HIDE DEF tested, permitted
<1>4. CASE a \in AddressesOf(s.cidr)
  BY <1>1, <1>2, <1>3, <1>4, FirewallAllows DEF permitted
<1>5. CASE a \in AddressesOf(Broadcast)
  BY <1>2, <1>3, <1>5, FirewallAllows DEF permitted
<1> QED BY <1>4, <1>5

\* A report of success is right for every port the check looks at (of an
\* internal network, without a server or with one of the zone nova), whatever
\* its rules, its subnets and the length of addresses.
THEOREM ReportIsSound == Spec => []PreflightSound
<1>1. Init => PreflightSound
  BY DEF Init, PreflightSound
<1>2. PreflightSound /\ [Next]_vars => PreflightSound'
  <2> SUFFICES ASSUME PreflightSound, [Next]_vars PROVE PreflightSound'
    OBVIOUS
  <2>1. \/ report' \in {report, {}}
        \/ Preflight
    BY DEF Next, vars, StageStep, Run, Skip, Begin, Finally, NextStage, Abort, Return, Apply,
       BeginApply, DeployDbMissing, JobEnds, StepFails, Crash, PodStarts, Prepare, DeployDb, DeployDbPatch,
       DeployDbWait, DeployControllers, InstallControllers, WaitControllers, Sync, WaitSync,
       Precheck, Switch, Judge, Finalize, FinalizeWait, DeleteOvsPod, RestartOvnPod,
       WaitOvnPod, RemoveFinalizers, FinalizePatch, FinalizeHealthy, Cleanup,
       Raise, Complete, Goto
  <2>2. ASSUME Preflight PROVE PreflightSound'
    <3>1. PICK port \in Ports :
            report' = {[port |-> port, success |-> do_preflight_checks(port)]}
      BY <2>2 DEF Preflight
    <3>2. do_preflight_checks(port) /\ IsTested(port) => GetsAddress(port)
      BY AcceptedGetsAddress DEF do_preflight_checks
    <3> QED BY <3>1, <3>2 DEF PreflightSound
  <2> QED BY <2>1, <2>2 DEF PreflightSound
<1> QED BY <1>1, <1>2, PTL DEF Spec
=============================================================================
