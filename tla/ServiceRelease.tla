--------------------------- MODULE ServiceRelease ---------------------------
(***************************************************************************)
(* How a service of the deployment becomes helm releases and these become  *)
(* objects of Kubernetes (services/base.py, helm.py, HelmBundleMixin of    *)
(* kube.py).  The deployment handler upgrades the OpenStack services one   *)
(* after another when the OpenStack version changes, and then applies, or  *)
(* deletes, all services at once.  All tasks share one lock for helm.      *)
(*                                                                         *)
(* A release has three objects: a job that prepares the database for a     *)
(* version, the server, and a job that removes from the database what only *)
(* older servers need.  A job cannot be changed once it exists.  The       *)
(* values of a release give the version of each object, and the version of *)
(* the last complete rendering, from which the hashes of child objects are *)
(* taken.  0 is an object that is not there.                               *)
(***************************************************************************)
EXTENDS Integers, Sequences

CONSTANTS
  Services, Releases,
  MaxVersion,       \* bound: versions of the deployment
  Bundle,           \* Bundle[s][v]: the releases of the service in order,
                    \* <<>> where the service is not wanted
  Available,        \* Available[s]: all releases the service may have
  UpgradeOrder,     \* the services with an upgrade, in order
  MainRelease,      \* MainRelease[s]: the release that has the service's chart
  AgentsFirst,      \* AgentsFirst[s]: what apply enables before the rest
  ColdStart,        \* services stopped before their server is changed
  MaxFaults         \* bound: failures, timeouts and crashes

Versions == 1..MaxVersion
Jobs == {"job", "contract"}
Objects == Jobs \cup {"server"}
Free == "free"
Leaked == "leaked"

\* What a service enables on its own: a kind of object, and whether the old
\* object, which is a job then, is removed before.
Enabled == [obj : Objects, purge : {FALSE}] \cup [obj : Jobs, purge : {TRUE}]

\* Services have different releases.
ASSUME ReleaseAssumption ==
  /\ MaxVersion \in Nat \ {0} /\ MaxFaults \in Nat
  /\ {Free, Leaked} \cap Services = {}
  /\ UpgradeOrder \in Seq(Services)
  /\ \A s \in Services :
       /\ Available[s] \subseteq Releases /\ MainRelease[s] \in Available[s]
       /\ \A t \in Services \ {s} : Available[s] \cap Available[t] = {}
       /\ \A v \in Versions : Bundle[s][v] \in Seq(Available[s])
       /\ AgentsFirst[s] \in Seq(Enabled)

VARIABLES
  upgradeMap,   \* what _upgrade of the services enables
  want, kind,   \* version of the deployment; an "upgrade" changes OpenStack's
  handled,      \* the version kopf has recorded as handled
  phase, cur,   \* of the handler: "idle", "upgrade" of service cur, "apply"
  pc, step,     \* pc[s], step[s]: the task of the service
  cmd,          \* cmd[s]: its helm command
  status,       \* status[s]: the service in the status of the deployment
  lock,         \* HELM_LOCK
  orphans,      \* threads that wait for the lock for nobody
  rel,          \* rel[r]: the record of the release kept by helm
  objs,         \* objs[r][o]: the object
  synced,       \* synced[r]: versions whose job has completed
  late,         \* processes of helm nobody waits for
  outlived,     \* a late process has written after a newer one
  faults

handler == <<upgradeMap, want, kind, handled, phase, cur>>
task == <<pc, step, cmd>>
helm == <<lock, orphans, late, outlived>>
cluster == <<rel, objs, synced>>
vars == <<upgradeMap, want, kind, handled, phase, cur, pc, step, cmd, status, lock, orphans,
          rel, objs, synced, late, outlived, faults>>

All(v) == [x \in Objects \cup {"hash"} |-> v]
Off == All(0)
Active(s) == {Bundle[s][want][k] : k \in DOMAIN Bundle[s][want]}
Wanted(s) == Bundle[s][want] # <<>>
Fault == faults < MaxFaults /\ faults' = faults + 1
Goto(s, p) == pc' = [pc EXCEPT ![s] = p]

\* The revision that helm shows is the last one, also when it is not finished.
Busy(r) == rel[r].state \in {"pending", "late", "stuck"}
Latest(r) == IF Busy(r) THEN rel[r].next ELSE rel[r].values
\* An operation has ended, well or not: a revision that failed is shown as well.
Revision(record, values) ==
  [record EXCEPT !.state = "deployed", !.values = IF values = Off THEN @ ELSE values]
NoRelease == [state |-> "none", values |-> Off, next |-> Off]
\* helm list shows no release with an operation in progress.
Listed == {r \in Releases : rel[r].state = "deployed"}

Absent == [ver |-> 0, state |-> "none"]
\* The objects of the release after the manifests for values are applied.
Patched(r, values) ==
  [o \in Objects |->
     IF values[o] = 0 THEN Absent
     ELSE IF values[o] = objs[r][o].ver /\ objs[r][o].state # "down" THEN objs[r][o]
     ELSE [ver |-> values[o], state |-> "starting"]]
InTheWay(r, values) == {o \in Jobs : objs[r][o].ver \notin {0, values[o]}}
ImmutableChange(r, values) == InTheWay(r, values) # {}
\* purge
Removed(r, gone) == [o \in Objects |-> IF o \in gone THEN Absent ELSE objs[r][o]]
-----------------------------------------------------------------------------
(* The handler of the deployment *)

Change ==
  /\ phase = "idle" /\ handled = want /\ want < MaxVersion
  /\ want' = want + 1 /\ kind' \in {"upgrade", "update"}
  /\ UNCHANGED <<upgradeMap, handled, phase, cur, task, status, helm, cluster, faults>>

First(s, p) ==
  IF p = "upgrade" THEN "healthy" ELSE IF Wanted(s) THEN "enable" ELSE "delete"

\* Tasks of a phase: services that were never there are not deleted.
StartPhase(p, k) ==
  /\ phase' = p /\ cur' = k
  /\ step' = [s \in Services |-> 1]
  /\ pc' = [s \in Services |->
       IF p = "upgrade" THEN IF s = UpgradeOrder[k] THEN First(s, p) ELSE "off"
       ELSE IF Wanted(s) \/ status[s].state # "none" THEN First(s, p) ELSE "off"]
  /\ status' = [s \in Services |->
       IF p = "upgrade" /\ s = UpgradeOrder[k] THEN [status[s] EXCEPT !.state = "APPLYING"]
       ELSE status[s]]
  /\ UNCHANGED <<upgradeMap, want, kind, handled, cmd, helm, cluster, faults>>

StartHandler ==
  /\ phase = "idle" /\ handled # want
  /\ IF kind = "upgrade" /\ UpgradeOrder # <<>> THEN StartPhase("upgrade", 1)
                                               ELSE StartPhase("apply", 1)

Ended == \A s \in Services : pc[s] \in {"off", "ended", "failed"}

\* run_task: failed tasks are started again when all have come to an end.
RetryRound ==
  /\ phase # "idle" /\ Ended /\ \E s \in Services : pc[s] = "failed"
  /\ pc' = [s \in Services |-> IF pc[s] = "failed" THEN First(s, phase) ELSE pc[s]]
  /\ step' = [s \in Services |-> 1]
  /\ UNCHANGED <<handler, cmd, status, helm, cluster, faults>>

NextPhase ==
  /\ phase = "upgrade" /\ Ended /\ \A s \in Services : pc[s] # "failed"
  /\ IF cur < Len(UpgradeOrder) THEN StartPhase("upgrade", cur + 1)
                                ELSE StartPhase("apply", 1)

HandlerDone ==
  /\ phase = "apply" /\ Ended /\ \A s \in Services : pc[s] # "failed"
  /\ phase' = "idle" /\ handled' = want
  /\ pc' = [s \in Services |-> "off"]
  /\ UNCHANGED <<upgradeMap, want, kind, cur, step, cmd, status, helm, cluster, faults>>

\* An exception ends the task: a temporary error for run_task.
Failed(s) == Goto(s, "failed")
-----------------------------------------------------------------------------
(* Commands of helm: every one is run with the lock held, and is run again  *)
(* after a change of an immutable field, a rollback or a timeout.           *)

Return(s) ==
  CASE cmd[s].op = "set" -> "check"
    [] cmd[s].op = "install" -> "install"
    [] cmd[s].op = "delete" /\ Wanted(s) -> "prune"
    [] OTHER -> "delete"

RunCmd(s, c) == cmd' = [cmd EXCEPT ![s] = c] /\ Goto(s, "lock")

Acquire(s) ==
  /\ pc[s] = "lock" /\ lock = Free
  /\ lock' = s /\ Goto(s, "start")
  /\ UNCHANGED <<handler, step, cmd, status, orphans, late, outlived, cluster, faults>>

\* A thread whose task was cancelled gets the lock: nobody gives it back.
OrphanAcquires ==
  /\ orphans > 0 /\ lock = Free
  /\ lock' = Leaked /\ orphans' = orphans - 1
  /\ UNCHANGED <<handler, task, status, late, outlived, cluster, faults>>

Process(s) ==
  /\ pc[s] = "start"
  /\ cmd[s].op = "delete" \/ ~Busy(cmd[s].rel)
  /\ rel' = [rel EXCEPT ![cmd[s].rel].state = "pending", ![cmd[s].rel].next = cmd[s].values]
  /\ Goto(s, "run")
  /\ UNCHANGED <<handler, step, cmd, status, helm, objs, synced, faults>>

\* Mutation: a rollback counts as the end of the command.
RollbackReturns(s) ==
  /\ pc[s] = "start" /\ cmd[s].op # "delete" /\ Busy(cmd[s].rel)
  /\ rel[cmd[s].rel].values # Off
  /\ rel' = [rel EXCEPT ![cmd[s].rel].state = "deployed"]
  /\ lock' = Free /\ Goto(s, Return(s))
  /\ UNCHANGED <<handler, step, cmd, status, orphans, late, outlived, objs, synced, faults>>

\* "another operation is in progress": back to the revision before, whose
\* objects are applied again unless the job is in the way, and once more.
\* The result is not looked at: without an earlier revision nothing happens.
Rollback(s) ==
  LET r == cmd[s].rel
  IN  /\ pc[s] = "start" /\ cmd[s].op # "delete" /\ Busy(r)
      /\ rel[r].values # Off
      /\ rel' = [rel EXCEPT ![r].state = "deployed"]
      /\ objs' = IF ImmutableChange(r, rel[r].values) THEN objs
                 ELSE [objs EXCEPT ![r] = Patched(r, rel[r].values)]
      /\ UNCHANGED <<handler, task, status, helm, synced, faults>>

Succeeds(s) ==
  LET r == cmd[s].rel
  IN  /\ pc[s] = "run"
      /\ cmd[s].op = "delete" \/ ~ImmutableChange(r, cmd[s].values)
      /\ rel' = [rel EXCEPT ![r] =
           [state |-> IF cmd[s].op = "delete" THEN "none" ELSE "deployed",
            values |-> cmd[s].values, next |-> Off]]
      /\ objs' = [objs EXCEPT ![r] = Patched(r, cmd[s].values)]
      /\ lock' = Free /\ Goto(s, Return(s))
      /\ UNCHANGED <<handler, step, cmd, status, orphans, late, outlived, synced, faults>>

\* Mutation: the command is repeated and the object is left in its way.
GuessAndDeleteNot(s) ==
  /\ pc[s] = "run" /\ cmd[s].op # "delete"
  /\ ImmutableChange(cmd[s].rel, cmd[s].values)
  /\ rel' = [rel EXCEPT ![cmd[s].rel].state = "deployed"]
  /\ Goto(s, "start")
  /\ UNCHANGED <<handler, step, cmd, status, helm, objs, synced, faults>>

\* "field is immutable": the object is deleted and the command repeated.
GuessAndDelete(s) ==
  /\ pc[s] = "run" /\ cmd[s].op # "delete"
  /\ ImmutableChange(cmd[s].rel, cmd[s].values)
  /\ rel' = [rel EXCEPT ![cmd[s].rel] = Revision(@, cmd[s].values)]
  /\ objs' = [objs EXCEPT ![cmd[s].rel] = Removed(cmd[s].rel, InTheWay(cmd[s].rel, cmd[s].values))]
  /\ Goto(s, "start")
  /\ UNCHANGED <<handler, step, cmd, status, helm, synced, faults>>

\* Any other error, with or without the objects changed.
CmdFails(s) ==
  LET r == cmd[s].rel
  IN  /\ pc[s] = "run" /\ Fault
      /\ rel' = [rel EXCEPT ![r] = Revision(@, cmd[s].values)]
      /\ objs' \in {objs} \cup (IF ImmutableChange(r, cmd[s].values) THEN {}
                                ELSE {[objs EXCEPT ![r] = Patched(r, cmd[s].values)]})
      /\ lock' = Free /\ Failed(s)
      /\ UNCHANGED <<handler, step, cmd, status, orphans, late, outlived, synced>>

Outlive(s) ==
  /\ late' = late \cup {[rel |-> cmd[s].rel, values |-> cmd[s].values]}
  /\ rel' = [rel EXCEPT ![cmd[s].rel].state = "late"]

\* wait_for ends the wait, not the process.
CmdTimesOut(s) ==
  /\ pc[s] = "run" /\ Fault
  /\ Outlive(s) /\ Goto(s, "start")
  /\ UNCHANGED <<handler, step, cmd, status, lock, orphans, outlived, objs, synced>>

LateFinishes(p) ==
  LET mine == rel[p.rel].state = "late" /\ rel[p.rel].next = p.values
      fails == ImmutableChange(p.rel, p.values)
  IN  /\ p \in late /\ late' = late \ {p}
      /\ rel' = IF ~mine THEN rel
                ELSE [rel EXCEPT ![p.rel] = IF p.values = Off THEN NoRelease
                                            ELSE Revision(@, p.values)]
      /\ objs' = IF fails THEN objs
                 ELSE [objs EXCEPT ![p.rel] = Patched(p.rel, p.values)]
      /\ outlived' = (outlived \/ ~mine)
      /\ UNCHANGED <<handler, task, status, lock, orphans, synced, faults>>
-----------------------------------------------------------------------------
(* What the services enable in an upgrade before they are applied: kinds   *)
(* of objects, and whether a job of the old version is removed before.     *)

Purged(o) == [obj |-> o, purge |-> TRUE]
Kept(o) == [obj |-> o, purge |-> FALSE]
glance_upgrade == <<Kept("job"), Kept("server"), Kept("contract")>>
keystone_upgrade == <<Kept("job"), Kept("server"), Kept("contract")>>
cinder_upgrade == <<Purged("job"), Kept("server"), Purged("contract")>>
heat_upgrade == <<Purged("job"), Kept("server")>>
neutron_upgrade == <<Purged("job"), Kept("server")>>
nova_upgrade == <<Purged("job")>>
UpgradeMaps == {glance_upgrade, keystone_upgrade, cinder_upgrade, heat_upgrade,
                neutron_upgrade, nova_upgrade}
-----------------------------------------------------------------------------
(* HelmBundleMixin: enable, with its timeout *)

\* The health is read from the status, where it is as old as the last pass of
\* its updater: before and after a change the wait may end or time out.
WaitHealthy(s) ==
  /\ pc[s] = "healthy" /\ Goto(s, "enable")
  /\ UNCHANGED <<handler, step, cmd, status, helm, cluster, faults>>

\* What _upgrade enables in an upgrade, which then applies the service, and
\* what the service's apply enables before all the rest.
Forced == IF phase = "upgrade" THEN upgradeMap ELSE <<>>
EnableList(s) == Forced \o AgentsFirst[s]
Child(s) ==
  [rel |-> MainRelease[s], obj |-> EnableList(s)[step[s]].obj,
   purge |-> EnableList(s)[step[s]].purge]
Enabling(s) ==
  \/ pc[s] \in {"get", "check"}
  \/ pc[s] \in {"lock", "start", "run"} /\ cmd[s].op = "set"

\* need_apply_images
NeedApply(r, o) == objs[r][o].ver # want

\* apply enables what exists and needs another image, _upgrade everything;
\* jobs are removed before, where the service does so.
EnableNext(s) ==
  /\ pc[s] = "enable" /\ step[s] <= Len(EnableList(s))
  /\ LET c == Child(s)
         skip == step[s] > Len(Forced) /\ objs[c.rel][c.obj].ver \in {0, want}
     IN  /\ IF skip THEN step' = [step EXCEPT ![s] = @ + 1] /\ UNCHANGED pc
                    ELSE UNCHANGED step /\ Goto(s, "get")
         /\ IF ~skip /\ c.purge THEN objs' = [objs EXCEPT ![c.rel] = Removed(c.rel, {c.obj})]
                               ELSE UNCHANGED objs
  /\ UNCHANGED <<handler, cmd, status, helm, rel, synced, faults>>

EnableDone(s) ==
  /\ pc[s] = "enable" /\ step[s] > Len(EnableList(s))
  /\ Goto(s, "apply")
  /\ UNCHANGED <<handler, step, cmd, status, helm, cluster, faults>>

\* set_release_values: the values are read in one command and written in
\* another.
GetValues(s) ==
  /\ pc[s] = "get" /\ lock = Free
  /\ LET c == Child(s)
     IN  IF rel[c.rel].state = "none" THEN Failed(s) /\ UNCHANGED cmd
         ELSE RunCmd(s, [op |-> "set", rel |-> c.rel,
                         values |-> [Latest(c.rel) EXCEPT ![c.obj] = want]])
  /\ UNCHANGED <<handler, step, status, helm, cluster, faults>>

\* Mutation: enable does not wait for the object.
CheckNot(s) ==
  /\ pc[s] = "check"
  /\ step' = [step EXCEPT ![s] = @ + 1] /\ Goto(s, "enable")
  /\ UNCHANGED <<handler, cmd, status, helm, cluster, faults>>

\* The values are set again until the object is ready with its new image.
Check(s) ==
  /\ pc[s] = "check"
  /\ LET c == Child(s)
     IN  IF objs[c.rel][c.obj].state = "up" /\ ~NeedApply(c.rel, c.obj)
         THEN step' = [step EXCEPT ![s] = @ + 1] /\ Goto(s, "enable")
         ELSE UNCHANGED step /\ Goto(s, "get")
  /\ UNCHANGED <<handler, cmd, status, helm, cluster, faults>>

\* The timeout of enable cancels what it is waiting for: a command, whose
\* lock is released, or the lock, which its thread will still take.
EnableTimesOut(s) ==
  /\ Enabling(s) /\ Fault /\ Failed(s)
  /\ orphans' = IF pc[s] \in {"get", "lock"} /\ lock # Free THEN orphans + 1 ELSE orphans
  /\ lock' = IF lock = s THEN Free ELSE lock
  /\ IF pc[s] = "run" THEN Outlive(s) ELSE UNCHANGED <<late, rel>>
  /\ UNCHANGED <<handler, step, cmd, status, outlived, objs, synced>>
-----------------------------------------------------------------------------
(* Service.apply, upgrade and delete *)

\* Redis is scaled to nothing before its image changes.
Stopped(s) ==
  {r \in Active(s) : s \in ColdStart /\ objs[r]["server"].ver \notin {0, want}}

Apply(s) ==
  /\ pc[s] = "apply"
  /\ status' = [status EXCEPT ![s].state = "APPLYING"]
  /\ objs' = [r \in Releases |->
       IF r \in Stopped(s) THEN [objs[r] EXCEPT !["server"].state = "down"] ELSE objs[r]]
  /\ Goto(s, "cleanup")
  /\ UNCHANGED <<handler, step, cmd, helm, rel, synced, faults>>

HashChanged(r) == rel[r].values["hash"] # want
ImageChanged(r, o) == rel[r].values[o] # want

\* Jobs with another hash or image are removed; releases after one that is
\* not installed are not looked at.
CleanupImmutable(s) ==
  LET known == {k \in DOMAIN Bundle[s][want] :
                  \A j \in 1..k : Bundle[s][want][j] \in Listed}
      gone(r) == {o \in Jobs : /\ \E k \in known : Bundle[s][want][k] = r
                               /\ HashChanged(r) \/ ImageChanged(r, o)}
  IN  /\ pc[s] = "cleanup" /\ lock = Free
      /\ objs' = [r \in Releases |-> Removed(r, gone(r))]
      /\ step' = [step EXCEPT ![s] = 1] /\ Goto(s, "install")
      /\ UNCHANGED <<handler, cmd, status, helm, rel, synced, faults>>

Install(s) ==
  /\ pc[s] = "install"
  /\ IF step[s] <= Len(Bundle[s][want])
     THEN /\ RunCmd(s, [op |-> "install", rel |-> Bundle[s][want][step[s]],
                        values |-> All(want)])
          /\ step' = [step EXCEPT ![s] = @ + 1]
     ELSE Goto(s, "prune") /\ UNCHANGED <<step, cmd>>
  /\ UNCHANGED <<handler, status, helm, cluster, faults>>

HelmDelete(s, r) == RunCmd(s, [op |-> "delete", rel |-> r, values |-> Off])
delete_not_active_releases(s) ==
  {r \in Available[s] \ Active(s) : rel[r].state # "none"}
delete_bundle(s) == Listed \cap Available[s]

Prune(s) ==
  /\ pc[s] = "prune"
  /\ \/ (\E r \in delete_not_active_releases(s) : HelmDelete(s, r)) /\ UNCHANGED status
     \/ /\ delete_not_active_releases(s) = {}
        /\ status' = [status EXCEPT ![s] = [state |-> "APPLIED", ver |-> want]]
        /\ Goto(s, IF phase = "upgrade" THEN "after" ELSE "ended")
        /\ UNCHANGED cmd
  /\ UNCHANGED <<handler, step, helm, cluster, faults>>

\* An upgrade ends with a service that is reported as healthy.
UpgradeDone(s) ==
  /\ pc[s] = "after" /\ Goto(s, "ended")
  /\ UNCHANGED <<handler, step, cmd, status, helm, cluster, faults>>

HealthTimesOut(s) ==
  /\ pc[s] \in {"healthy", "after"} /\ Fault /\ Failed(s)
  /\ UNCHANGED <<handler, step, cmd, status, helm, cluster>>

\* Of the releases that helm lists, the service's own.
Delete(s) ==
  /\ pc[s] = "delete" /\ lock = Free
  /\ \/ /\ \E r \in delete_bundle(s) : HelmDelete(s, r)
        /\ status' = [status EXCEPT ![s].state = "DELETING"]
     \/ /\ delete_bundle(s) = {}
        /\ status' = [status EXCEPT ![s] = [state |-> "none", ver |-> 0]]
        /\ Goto(s, "ended") /\ UNCHANGED cmd
  /\ UNCHANGED <<handler, step, helm, cluster, faults>>
-----------------------------------------------------------------------------
(* Kubernetes, and the end of the controller *)

\* The pods of a release: its job completes, its server becomes ready.
Starts(r) ==
  LET started == {o \in Objects : objs[r][o].state = "starting"}
  IN  /\ started # {}
      /\ objs' = [objs EXCEPT ![r] =
           [o \in Objects |-> IF o \in started THEN [@[o] EXCEPT !.state = "up"] ELSE @[o]]]
      /\ synced' = [synced EXCEPT ![r] = IF "job" \in started
                                        THEN @ \cup {objs[r]["job"].ver} ELSE @]
  /\ UNCHANGED <<handler, task, status, helm, rel, faults>>

\* Processes of helm end with the controller; kopf calls the handler again.
Crash ==
  /\ phase # "idle" /\ Fault
  /\ phase' = "idle" /\ pc' = [s \in Services |-> "off"]
  /\ lock' = Free /\ orphans' = 0 /\ late' = {}
  /\ rel' = [r \in Releases |-> IF Busy(r) THEN [rel[r] EXCEPT !.state = "stuck"] ELSE rel[r]]
  /\ UNCHANGED <<upgradeMap, want, kind, handled, cur, step, cmd, status, outlived, objs, synced>>

\* A deployment of the first version.
Installed == UNION {Active(s) : s \in Services}
Init ==
  /\ upgradeMap \in UpgradeMaps
  /\ want = 1 /\ kind = "update" /\ handled = 1 /\ phase = "idle" /\ cur = 1
  /\ pc = [s \in Services |-> "off"] /\ step = [s \in Services |-> 1]
  /\ cmd = [s \in Services |-> [op |-> "none"]]
  /\ status = [s \in Services |-> [state |-> "APPLIED", ver |-> 1]]
  /\ lock = Free /\ orphans = 0 /\ late = {} /\ outlived = FALSE
  /\ rel = [r \in Releases |->
       IF r \in Installed THEN [state |-> "deployed", values |-> All(1), next |-> Off]
                         ELSE [state |-> "none", values |-> Off, next |-> Off]]
  /\ objs = [r \in Releases |-> [o \in Objects |->
       IF r \in Installed THEN [ver |-> 1, state |-> "up"] ELSE Absent]]
  /\ synced = [r \in Releases |-> IF r \in Installed THEN {1} ELSE {}] /\ faults = 0

Handler == StartHandler \/ RetryRound \/ NextPhase \/ HandlerDone

Task(s) ==
  \/ Acquire(s) \/ Process(s) \/ Rollback(s) \/ Succeeds(s) \/ GuessAndDelete(s)
  \/ WaitHealthy(s) \/ EnableNext(s) \/ EnableDone(s) \/ GetValues(s) \/ Check(s)
  \/ Apply(s) \/ CleanupImmutable(s) \/ Install(s) \/ Prune(s) \/ UpgradeDone(s)
  \/ Delete(s)

TaskFault(s) ==
  CmdFails(s) \/ CmdTimesOut(s) \/ EnableTimesOut(s) \/ HealthTimesOut(s)

Next ==
  \/ Change \/ Handler \/ OrphanAcquires \/ Crash
  \/ \E s \in Services : Task(s) \/ TaskFault(s)
  \/ \E r \in Releases : Starts(r)
  \/ \E p \in late : LateFinishes(p)

Spec == Init /\ [][Next]_vars

Late == \E p \in late : LateFinishes(p)
\* Tasks get the lock again and again; objects start, processes end.
FairSpec ==
  /\ Spec /\ WF_vars(Handler) /\ WF_vars(Late)
  /\ \A s \in Services : SF_vars(Task(s))
  /\ \A r \in Releases : WF_vars(Starts(r))
-----------------------------------------------------------------------------
(* Properties *)

\* A service that is shown as applied is installed as it was rendered last:
\* whatever was retried, rolled back or interrupted, each release has all of
\* its values and none that is no longer active is left; its objects are
\* those of the values and are not left stopped, unless a process of helm
\* that ended after its command has overwritten them.
AppliedInstalled ==
  \A s \in Services : status[s] = [state |-> "APPLIED", ver |-> want] =>
    /\ \A r \in Active(s) : rel[r].values = All(want)
    /\ \A r \in Available[s] \ Active(s) : rel[r].state = "none"
    /\ ~outlived => \A r \in Active(s) :
         objs[r]["server"].ver = want /\ objs[r]["server"].state # "down"

\* In an upgrade no server gets the new version before the job that prepares
\* the database for it has completed, and the database is not stripped of what
\* the old version needs while a server of it is there, over all failures,
\* rollbacks and restarts (_upgrade, enable), unless a late process of helm
\* has put old objects back.
SchemaOrder ==
  [][kind = "upgrade" /\ ~outlived => \A k \in DOMAIN UpgradeOrder :
       LET r == MainRelease[UpgradeOrder[k]]
           gets(o) == objs[r][o].ver # want /\ objs'[r][o].ver = want
           enables(o) == \E i \in DOMAIN upgradeMap : upgradeMap[i].obj = o
       IN  /\ gets("server") => want \in synced[r]
           /\ gets("contract") /\ enables("contract") => objs[r]["server"].ver = want]_vars

\* What the controller does not get out of by itself: a lock taken for a
\* cancelled task, and a first installation that was interrupted, which has
\* no revision to go back to.
Hung ==
  \/ lock = Leaked \/ orphans > 0
  \/ \E r \in Releases : rel[r].state = "stuck" /\ rel[r].values = Off

\* Every change is handled to its end, unless the controller hangs.
Settles == <>[](handled = want \/ Hung)

=============================================================================
