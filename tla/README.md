# A TLA+ model of the OpenStack controller

The OpenStack controller (Rockoon) is a set of kopf handlers. They install and
upgrade OpenStack from one `OpenStackDeployment` object, and they guard the
OpenStack nodes and the cluster when another controller, the life cycle manager
(LCM, outside this repository), wants to reboot, update or remove them. This
directory models the handlers whose steps interleave with each other, with LCM,
with users and with crashes. TLC checks the models on small instances, and
TLAPS proves the main safety properties for every value of the constants.

All paths below are relative to `openstack_controller/` unless they start with
`docs/` or `charts/`. `PROJECT.json` maps every definition to its source lines.

## 1. The system

### Processes

One pod holds the containers `osdpl`, `secrets`, `health`, `node` and
`nodemaintenancerequest`. Each runs kopf with its own handlers. The chart uses
the strategy `Recreate` and comments "Make sure old operator gone"
(`charts/openstack-operator/templates/openstack-controller.yaml:42`). Two pods
therefore never run at the same time, which is why a process-local
`threading.Lock` can protect the maintenance slots. Four facts about kopf matter
everywhere:

* Calls for the same object are serialised. Calls for different objects run in
  parallel threads.
* A `TemporaryError`, or any other exception, means that the handler is called
  again later. A `PermanentError` counts as handled, and so does a return.
* A new process resumes all handlers from the start. Nothing in memory survives.
* An object whose deletion is handled keeps a finalizer, so it exists until the
  delete handler has returned.

### Inventory

| Component | State | Operations | Hard behaviour | What makes it correct |
|---|---|---|---|---|
| Node maintenance (`controllers/maintenance.py:21-166`, `maintenance.py`) | `NodeWorkloadLock`: state, inner state, release; `MAINTENANCE_LOCK` | request changed, request deleted, lock kept present by `controllers/node.py` | parallel requests, two processes on one lock, crash between two updates, controller upgrade | limits per role are kept; a released node is drained; a finished request leaves nothing behind; requests are served |
| Hooks of the services (`services/__init__.py`) | Nova and Cinder service state, servers on the host, ready pods | disable, migrate, enable, veto | API errors, retries, an operator's own settings | an operator's decision is kept |
| Instance migration (`services/__init__.py:1766-1847`) | list of servers, attempts per server | loop, relist, final check | the list is stale, migrations fail late | concurrency and attempts are bounded; a pass ends; the host is emptied |
| Node removal (`controllers/maintenance.py:235-342`, `controllers/node.py`) | node, lock, deletion request, disable notification, service records | add, relabel, disable, delete; clean-up | deletions in any order, crash during clean-up | records go when the node is gone and not before; a node to be deleted is empty; a lock is restored |
| Databases (`kube.py:440-490` and their services) | pods, volume claims | `is_node_locked`, release of claims | readiness changes between check and use | service and data survive |
| Deployment handler (`controllers/openstackdeployment.py`, `services/base.py`) | spec, status, installed charts, cluster lock | create, update, resume | edits while it runs, crash, one service of several fails | APPLIED is true; upgrades happen in order; the last spec is installed |
| Admission (`admission/validators/openstack.py`) | none; it reads the status | accept a version change | it reads a stale status | an upgrade starts from an applied deployment |
| Cluster maintenance (`controllers/maintenance.py:169-232`) | `ClusterWorkloadLock` | request changed, request deleted | status and release read at different moments, a long wait | taken back at the end; granted in the end |
| Health reporting (`batch_health.py`, `controllers/health.py`, `hooks.py`) | health map and its summary in the status | update pass, removal of deleted objects, hooks of daemon sets, waits for an application | several requests per pass, concurrent patches of one map, hooks that compare with a report | a pass leaves nothing old and nothing out; the report catches up |
| Credentials (`secrets.py`, rotation in the deployment handler) | active and backup secret, rotation ids | ensure, rotate, promote | crash between two saves, services that wait for each other's secrets | nothing that runs is locked out; keys are kept; every order of services ends |
| Watchers (`controllers/secrets.py`, `configmaps.py`, `ceph/`, `tf/`) | `status.watched`, shared secrets | hash, copy, share | objects change while they are rendered or copied, three writers of one secret | what is rendered or shared is current in the end |
| Releases (`helm.py`, `services/base.py`, `kube.py`) | `HELM_LOCK`, helm releases, child objects | install, set values, rollback, delete, enable | timeouts, cancelled waiters, pending releases, immutable jobs | applied means installed; schema changes come in order; tasks end |
| OVS to OVN tool (`cli/ovs_ovn_migration.py`) | stage states in a config map, pods of daemon sets | preflight, six stages, resume | failed, aborted and repeated stages | one node at a time loses its network; reruns end |
| Image cache, exporter, validators of single features, other command line tools, probes, websocket client, tempest filters, charts | small or none | conversions, reads, templates | none that a model adds to | not modelled, see section 8 |

The components meet in these places. The deployment handler creates the
`ClusterWorkloadLock` and writes the status; admission and the
cluster-maintenance handler read both. The node process creates
`NodeWorkloadLock`s, the nmr process changes them, and the removal handlers
delete them. The maintenance handlers call the hooks of the services, and the
Nova and database hooks have modules of their own. The deployment handler turns
services into helm releases; the health container reports on what becomes of
them, and upgrades and cluster maintenance wait for that report. The secrets
container changes `status.watched` and so makes kopf call the deployment handler.

## 2. Modules

| Module | Models | Used by |
|---|---|---|
| `MaintenanceSlots` | abstract: a node is handed over only while it holds a slot, and a slot is taken only if every role has room | refined by `NodeMaintenance` |
| `NodeMaintenance` | maintenance requests, locks and the Nova and Cinder hooks | `MCNodeMaintenance`, `NodeMaintenanceProofs` |
| `InstanceMigration` | `Nova._migrate_servers` in detail | `InstanceMigrationProofs` |
| `DatabaseQuorum` | `is_node_locked`, its callers, and the pods it looks at | `MCDatabaseQuorum`, `DatabaseQuorumProofs` |
| `NodeRemoval` | the life of one node and four kinds of handlers | its own runs |
| `Deployment` | the deployment handler, kopf's diff, admission, services | `ClusterMaintenance` |
| `ClusterMaintenance` | extends `Deployment` with the cluster-maintenance handlers on the same lock and status | `MCClusterMaintenance`, `ClusterMaintenanceProofs` |
| `ServiceRelease` | the tasks of services, helm commands and the objects of releases | `MCServiceRelease`, `ServiceReleaseProofs` |
| `ServiceSecrets` | what the apply of each service does with secrets | `CredentialRotation` |
| `CredentialRotation` | extends `ServiceSecrets` with rotation and the deployment handler around it | `MCCredentialRotation`, `CredentialRotationProofs` |
| `WatchedObjects` | the handlers of secrets and config maps, and the rendering that depends on them | `MCWatchedObjects` |
| `HealthReport` | the health updater, its handlers and hooks | `MCHealthReport`, `HealthReportProofs` |
| `OvnPreflight` | the checks of networks before the migration to OVN | `OvnMigration` |
| `OvnMigration` | the stages of the migration tool | `MCOvnMigration`, `OvnMigrationProofs` |

`MC*` modules only define constant values. `*Proofs` modules only hold theorems
and the invariants that exist for them. A definition whose comment starts with
"Mutation:" is a deliberately wrong variant of the definition next to it. No
specification uses it; it is there to show that a property notices the mistake.

### NodeMaintenance

`pc[w][n]` is the step of worker `w` (`"nmr"` or `"node"`) on node `n`. Every
step makes at most one API call that others can see, so workers interleave as the
API calls do.

* `present()` is five steps: create or merge, set active, read the release, set
  the state, set the release. The merge is one step because pykube's `update()`
  sends the resource version, so a concurrent change makes it fail.
* `acquire_internal_lock` is two steps under `mutex`, check and update. The
  check reads many locks one after the other, but while the mutex is held the
  inner states of other nodes only become inactive. One snapshot therefore
  allows no more than the code does.
* `can_handle_nmr` asks for room in *every* role, as the loop in the code does.
* The change handler then asks the services, disables compute, migrates,
  disables volumes and releases. The databases may refuse any node, whatever its
  roles. A node deferred by a service keeps its slot.
* A compute service is read and updated in two steps, and the operator may act
  between them. `unseen` has the nodes where the operator has disabled the
  service after the read.
* The delete handler waits for the node, enables volumes, waits for the agents,
  enables compute, and clears the inner state and then the state. It fails and
  is repeated while there is no lock.

An NMR's scope does not change. Error messages on locks are left out. The
disturbances (restart, API error, node outage, label or annotation update,
removal of the OpenStackDeployment, operator) are switched per run.

### InstanceMigration

The lists that the code asks Nova for are `Valid`, `Migrating` and `Unsafe`.
`todo` is the stale list that the loop pops from, and `count` is
`servers_migrating_count`, which starts at 1 as in the code. The mode annotation
is read again for every pass. Assumption: Nova has set the state `migrating` when
the loop lists the servers again, at least 5 s later.

### DatabaseQuorum

Pods have a home (the node of their volume), may be scheduled and may be ready.
The model has one maintenance slot for controllers, as the code does, and a bound
on concurrent removals. The delete handler waits only for pods that are *on* the
node. Maintenance and removal do not exclude each other.

### NodeRemoval

One node suffices, because the handlers of different nodes share only the
databases; here their answer may be anything. Node heartbeats repeat
`node_change_handler`, since kopf watches `status.conditions`. LCM deletes a node
with a request only when the lock is inactive. A node that is added again has no
request. The deletion handler of the lock goes through the services in the code's
order: volume claims of the databases first, then for Cinder, Neutron and Nova
(`Listed`, with the index `cleaning`) the wait for agents that are down and the
removal of the service's records. Agents of a node register together, and the
request handler's disabling and checking of Cinder and Nova is one step each.

### Deployment and ClusterMaintenance

Every edit gets a number of its own, so "installed from this spec" is an
equality. Versions are numbers, and one step is what admission calls an allowed
upgrade (a SLURP step included). The handler takes `old` and `body` from its
event and `mspec` from a later read. `upgrade()` runs service by service and each
waits for health; `apply()` runs for all services in any order. A temporary
failure is a repetition, and a permanent one sets `failed`, the
`permanent_exception`. kopf stores `body` as handled after a return, a draft
return and a `PermanentError`. With `Patient`, users change the version, make a
draft or start a restore only when the last edit has been handled, and leave the
version alone during drafts and restores; other edits come at any time.
`MaxFaults` bounds crashes, errors and permanent errors together.

Secrets, cache and credential rotation are the step `Prepare`, which may fail;
`CredentialRotation` and `ServiceRelease` have what is behind it and behind
`Install`.
The lock's `present()` is one step here: it differs from a read-then-write only
while the release differs, and in that time nobody releases the lock.

`ClusterMaintenance` reads the status, then the release, and then waits for one
service after the other. LCM makes one request at a time. A controller upgrade
replaces both containers.

### ServiceRelease

A release has three objects: the job that prepares the database, the server, and
the job that strips the database of what only old servers need. Values give a
version to each object and to the last complete rendering, from which
`is_child_object_hash_changed` decides. `lock` is `HELM_LOCK`; a task that is
cancelled while its executor thread waits leaves an orphan, which takes the lock
for nobody (`Leaked`). A helm process that outlives its command is in `late` and
writes when it ends. A record of helm may stay pending after a crash; `Rollback`
repairs it if there is a revision to go back to. `upgradeMap` is one of the
sequences that `_upgrade` of the services enables; `apply`, also the one at the end
of `upgrade`, then enables `AgentsFirst` (Neutron). The values that helm shows are
those of the last revision, a failed one included. A wait for health may end at
once or time out, because the report is as old as the last pass of its updater.

Left out: the path of Placement for Stein, suspended cron jobs of the
descheduler, and deletions of objects that come late.

### ServiceSecrets and CredentialRotation

`ServiceSecrets` gives, for each service of the registry, the sequence of what
`template_args` and `apply` do: ensure own secrets, wait for others', share.
`wait_for_secret` does not wait: it raises, and `run_task` tries the service
again. `CredentialRotation` runs these sequences as tasks in any order. Passwords
are numbers that are never used twice. Each owner has two secrets with
priorities, and two accounts in the database and RabbitMQ, which a service's own
installation creates or updates. `Deployments` are the deployments to start
from: several with different services and features for the order of the secrets,
and some whose credentials are rotated, by careful and by hasty users, one of
them created again under the name of a deleted one.

### WatchedObjects

The content of an object is a version; equality of hashes is equality of content.
kopf calls the handler of an object until the last content is recorded as handled,
and a call works with the content it began with. `status.watched` and the topics
of the specification make up the `Body` that the deployment handler is called for.
It reads values of secrets first (`substitude_osdpl`), and other objects service
by service. The secret for Tungsten Fabric has three writers, in two processes.
Objects change and processes restart at any step, with these exceptions: topics
change when the last topics have been handled, the config map is deleted from a
deployment that has been handled, and the secret of Ceph does not change between
its creation and kopf's first look at it. Its handler is called for updates and
after a start, not for creations, so such a change would be missed. The secrets
that `save_ceph_secrets` makes are not part of what is rendered (they are created
once and never updated).

### HealthReport

The updater's pass is one step per list request, per object that is loaded again to
see whether it is ready, and per patch. An object that is gone by then makes the
pass fail. `alive` and `was`
record which objects were there, and which states they had, since the pass began;
the properties are stated with them. Names and labels are sequences of words, so
that `ident` is what the code does with them. One daemon set is modelled by its
nodes and pods, because the hooks look at numbers of pods; of other objects only
readiness matters. `OK_desiredNumberScheduled` is never in the report, so
`new_node_added` compares with 0.

### OvnPreflight and OvnMigration

Addresses have `Bits` bits, and CIDRs, rules with ranges of ports and remote
prefixes, subnets and MTUs are as in the code. The tool's runs read the config
map when they start, and skip completed stages. A user who is asked after an error
may go on (`careless`). Pods of the OVN controllers have a generation: migration
mode or normal. The controller applies the specification in the background:
`BeginApply` reads it into `work`, `Apply` installs it. `is_applied` sees only
whether the handler is at work, so a change that it has not begun with counts as
applied. The tool sleeps for 30 seconds before it looks; `hasty` records that this
was too short. The check of security groups passes over ports of external networks
and of owners other than `compute:nova` and none (`IsTested`). Failures, crashes
and needless aborts are bounded by `MaxFaults`, and by `MaxCarelessFaults` for a
user who goes on after errors.

## 3. Runs

Bounds are the constants of the `.cfg` files. Every run ends within five minutes
with two workers; the largest has over two million states.

### Properties that hold

| Run | Properties | Instance, and why it is enough |
|---|---|---|
| `node_slots` | `ReleasedWithinLimits`, `SlotsSpec` (refinement), `RequestServed` | a controller that is also a compute and a compute of another zone, one slot per role, so that each can block the other; two requests per node, so that one that waits can be overtaken; a crash of either process or a node outage |
| `node_host` | `ReleasedIsDrained`, `NothingLeftBehind`, `LockCurrent`, `OperatorDecisionKept` | a fresh cluster with a compute and a node without OpenStack roles, a crash or an API error at any step and a controller upgrade, which is a second restart; updates, actions of the operator and the deletion of the deployment at any time. The properties are per node, so two computes would add only waiting |
| `migration` | `ConcurrencyRespected`, `PassEnds`, `Evacuated`, `SafeForReboot` | three servers, two at a time, two attempts, three failures, an API error: a server can use up its attempts while others wait, and the mode changes from pass to pass |
| `quorum` | `ServiceSurvives`, `DataSurvives`, `RequestGranted` | three replicas (the code's default), a fourth node for a rescheduled pod, one failing pod, one removal at a time |
| `removal` | `DeletableIsEmpty`, `GoneIsForgotten`, `LockRestored` | five changes of any kind (relabel, delete, add again, disable, enable again, request, withdraw, undeploy, crash) in any order |
| `cluster` | `AppliedIsInstalled`, `LockTakenBack`, `UpgradeInOrder`, `Converges`, `MaintenanceGranted` | two services, three edits of every kind, two releases of the controller, a fault and a maintenance request: a draft or restore can be begun and ended, and two version changes can follow each other |
| `release` | `AppliedInstalled`, `SchemaOrder`, `Settles` | an OpenStack service that loses a release and gains it again, and a service that is deleted, so that the two compete for the lock; an upgrade and two other changes; one fault at any step, which is followed by a retry |
| `rotation` | `AdminAccepted`, `KeepsAccess`, `KeyKept`, `Settles` | nine deployments: one with two rotations of each group and a service added later, five with different services and features, two with hasty users and one whose users do not wait between two requests; a restart at any step. Two rotations bring each secret back to its former role |
| `watch` | `RenderedCurrent`, `CopiesCurrent`, `TfFieldsKept` | two services, ten objects and a topic; two changes or restarts at any steps, so that one can hit the handling of the other |
| `health` | `PassFresh`, `AllReported`, `HealthCatchesUp` | four objects whose names and labels resemble each other, one created later; two nodes, one new; two changes and a fault between any two requests |
| `ovn` | `OneNodeAtATime`, `SwitchedAfterSync`, `ThresholdsKept`, `PreflightSound`, `Migrates` | a gateway and two computes, of which one may fail; two failures, crashes or aborts, or one when the user goes on after errors; a controller that begins at any time. The preflight checks see all CIDRs of two bits and all pairs of rules that differ in one respect |

Deadlock is not checked in the passing runs: requests, edits and faults are
bounded, and the system may be at rest once they are used up. What must go on is
stated by the liveness properties.

### Disagreements between the code and what it says

`node_zones` has one property, taken from the documentation of the option
`respect_nova_az`, and TLC shows a behaviour of the code that violates it: a node
is compared with the first compute lock, which may be its own, and two zones are
in maintenance together. The finding in `PROJECT.json` quotes the line.

The models also reach the following, which no run states as a property because it
would be false:

* The handler of a deleted lock looks for a node with the *lock's* name, never
  finds it and cleans up while the node exists (`controllers/maintenance.py:298`;
  the comment in line 294 says that it makes sure).
* The check of security groups passes over ports of servers in a zone other than
  `nova` (`cli/ovs_ovn_migration.py:1203`; the docstring in line 1193 speaks of VM
  ports), so that one of them may be cut off from DHCP after a report of success.
* The last test of `is_node_locked` is vacuous: pods that are scheduled but not
  ready count, and a majority is not kept (`kube.py:473`).
* A cluster maintenance request is granted with a status from before a controller
  upgrade and a release from after it (`controllers/maintenance.py:188`).
* A rotation requested before the first installation, or together with a new
  service, fails on every call of the handler (`openstackdeployment.py:223`).
* A rerun of the migration tool fills the OVN database without waiting for the
  controllers of the run before (`cli/ovs_ovn_migration.py:645` and the comment in
  line 659).
* A cancelled helm command leaks `HELM_LOCK` (`helm.py:32`), and an interrupted
  first installation is never repaired (`helm.py:186`).
* A hook of a daemon set is not run for a new node when the updater has reported
  the change first (`controllers/health.py:80`).

### Where the passing properties have premises

Some properties hold only under a condition on the environment. The condition is
part of the formula or of the instance, and the hazard in `PROJECT.json` says
what happens without it.

* `SafeForReboot` takes a host on which no server is building.
  `SERVER_STATES_SAFE_FOR_REBOOT` has `building`, and such a server becomes
  active after the check.
* `AttemptsRespected`, which is proved only, is about one pass. The counters live
  in the pass and passes repeat, so the attempts over all passes have no bound.
* `DeletableIsEmpty` and `GoneIsForgotten` take a node with one life (`OneLife`):
  it keeps its label and is not added again. A lock of a former life that is
  still being deleted takes the new lock along.
* `DeletableIsEmpty` also takes requests that are not withdrawn. A withdrawn
  request leaves the lock released, so the next one is granted before its checks.
* `GoneIsForgotten` excepts disabled nodes. When the node and its disable
  notification are deleted together, each handler leaves the lock to the other.
* `DataSurvives` has one removal at a time. Check and release are not atomic
  across the handlers of different nodes.
* `ServiceSurvives` and `RequestGranted` are about times without a removal.
* `ServiceSurvives` and `DataSurvives` need three replicas. With two,
  `is_node_locked` counts the ready pods and the pods elsewhere separately
  (`kube.py:457`), so the pod elsewhere need not be a ready one.
* `KeepsAccess` takes users who wait for APPLIED between two rotation requests, or
  make only one (`Waits`). `osctl` asks for it (`osctl/plugins/credentials.py:93`);
  the handler does not (`secrets.py:482`).
* `UpgradeInOrder` takes patient users. A version change in a draft, which kopf
  counts as handled, or one that comes between event and read, is installed
  without the upgrade order, and two changes may be admitted before the first is
  handled. `Converges` and `MaintenanceGranted` except what is refused: drafts,
  restores and services that do not render.
* `Settles` of `ServiceRelease` excepts a leaked lock and an interrupted first
  installation (`Hung`). `AppliedInstalled` and `SchemaOrder` except objects that a
  helm process has put back after its command ended (`outlived`).
* `Settles` of `CredentialRotation` takes users who wait for APPLIED.
* `RenderedCurrent` excepts a config map that is rendered while it is being
  deleted, because the hash goes before the object, and a deployment that waits for
  a Ceph secret nobody makes.
* `HealthCatchesUp` says nothing of hooks, and of waits only that they end: a wait
  that reads a report of before the change ends too early.
* The properties of `ovn` that name `careless` take users who repair a failed stage
  before they go on. `OneNodeAtATime` also takes a controller that begins to apply a
  change within the 30 seconds that the tool sleeps
  (`cli/ovs_ovn_migration.py:628`, `758`, `811`). Otherwise the tool goes on too
  early (`hasty`), and vswitchd is undeployed from all nodes at once.
* `PreflightSound` is about the ports that the check looks at (`IsTested`).
* `OperatorDecisionKept` excepts a service that the operator disables between the
  handler's read (`services/__init__.py:1754`, `1908`) and its update
  (`openstack_utils.py:118-124`): the update overwrites the operator's reason, or
  enables the service.
* `RequestServed` takes finitely many requests per node. `acquire_internal_lock` has
  no queue, and nodes that ask again without end could take every free slot.
* `LockRestored` excepts a lock whose deletion waits for agents that run
  (`Blocked`): the label was set again before the clean-up came to them,
  `present()` leaves a lock in deletion as it is, and neither ends.
* `CopiesCurrent` takes topics that change when the last ones have been handled.
  When topics are removed and soon restored, the handler of the removal may come
  late and delete the copies (`controllers/secrets.py:305-314`).
* `CredentialRotation` makes both secrets of an owner in one step, although `ensure`
  saves them one after the other (`secrets.py:525-535`). A crash in between leaves
  half a pair, which `ensure` completes before anybody reads it.
* `present()` in the node process may have decided to activate a lock when the
  nmr process of the same release releases it. The lock is then taken back and
  the request has to be made again; the properties of `node_host` hold with that.

## 4. Fairness

* Weak fairness of every handler: kopf calls a handler again after an exception,
  resumes it after a restart, and a thread that can go on does.
* `NodeMaintenance`: nodes come back up; LCM finishes with a released node;
  servers leave a disabled host in the end (otherwise the code waits, by design).
  Strong fairness of `ServicesAccept`: a node that a service defers is asked about
  again every time kopf repeats the handler; the reasons for a veto, other zones in
  maintenance and databases with too few ready pods, go away again and again.
* `InstanceMigration`: Nova finishes what it started. Nothing is assumed of users.
* `DatabaseQuorum`: pods are scheduled and become ready; LCM ends its work.
* `NodeRemoval`: heartbeats go on; agents stop on a node that is gone or has no label,
  and when the deployment is gone; strong fairness of the step that needs the databases' consent.
* `Deployment`, `ClusterMaintenance`: a service that is installed becomes healthy.
  No fairness is assumed of errors, crashes, edits or requests.
* `ServiceRelease`: strong fairness of each task, because `HELM_LOCK` is given to
  one of the waiting threads again and again; objects start and late processes end.
* `CredentialRotation`: other operators provide their secrets in the end.
* `WatchedObjects`: kopf calls the handlers; the load balancer gives an address.
* `HealthReport`: the updater goes on; pods become ready and jobs end.
* `OvnMigration`: the tool is run again until all stages are completed; the
  controller begins with a change in the end and ends; pods and the job make progress.

## 5. Proofs

All theorems hold for every value of the constants that satisfies the modules'
`ASSUME`s: finite sets of nodes, pods or servers, bounds in `Nat`, and an upgrade
order without repetition. `ReleaseAssumption` also says that services have
different helm releases, which is so for the `available_releases` of all services
in `services/`. Theorems with a hypothesis of their own name it below. Each proof
has the same shape: an inductive invariant, one lemma or step per action, and a
last temporal step.

**NodeMaintenanceProofs**

* `TypeCorrect`: `Spec => []TypeOK`.
* `SlotsInductive`: `Spec => []SlotInv`. `ReleasedWithinLimits` speaks of released
  nodes, but the code counts inner states, so the invariant connects the two.
  `AbsentInv` says what a missing lock and an idle worker imply. `MutexInv` says
  that the worker between check and update holds the mutex and that what it
  checked still holds; this is where other workers could interfere, and they only
  lower the counts. `HoldInv` says that a node in a handler's hands or released
  has a slot. `LimitInv` is the bound. The lemmas `SameSlots`, `OneMoreSlot` and
  `OneSlotLess` do the counting.
* `LimitsRespected`: from `HoldInv` and `LimitInv`, as a subset is not larger.
* `ImplementsSlots`: the refinement, `Spec => SlotsSpec`. Under `SlotInv` every
  step takes a slot that has room, hands over a node that holds one, gives one
  back, or leaves both sets alone (`SlotsStep`).
* `DrainedBeforeRelease`: with `DrainInv`, which says what the handler has done to
  the host at each of its steps. The step from "services disabled" to "lock
  released" crosses crashes, and `DrainInv` is what a resumed handler finds.
* `RestoredAfterRequest`: with `RestoreInv`, the same for the way back.
* `LockStaysCurrent`: `LockCurrent` is inductive together with `SlotInv`.
* `OperatorsDecide`: the action property `OperatorDecisionKept`. With `ReadInv`: at
  the steps between read and update, what was read still holds unless the node is
  in `unseen`.

**InstanceMigrationProofs**

* `MigrationTypeCorrect`: `Spec => []TypeOK`.
* `AttemptsBounded`: with `PassInv`. The count is one more than the calls, and
  only servers with attempts left are in `todo`.
* `ConcurrencyBounded`: the list is read and the migration started without
  another start in between, and everything else only lowers the number.
* `RebootIsSafe`: the last check sees every server that could still run, and a
  host that passed it stays empty while nothing is building there.

**DatabaseQuorumProofs**

* `QuorumTypeCorrect`: `Spec => []TypeOK`.
* `ServiceIsKept`, for three replicas or more: with `ServiceInv`. A node that is
  handed over holds the one slot, and a ready replica is elsewhere.
* `DataIsKept`, for three replicas or more and at most one removal at a time: with
  `DataInv`. Between the check of a removal and the release of its claims a copy
  stays on another node. Both proofs need the arithmetic of `is_node_locked`,
  which is a lemma.

**ClusterMaintenanceProofs** (about `Deployment` and its composition)

* `DeploymentTypeCorrect`: `Spec => []TypeOK`.
* `AppliedIsTrue`: with `StatusInv`. The status says APPLYING at every step at
  which the handler may change a service, and what is no longer in `tasks` is
  installed from what the handler has read.
* `OrderIsKept`, for patient users: with `OrderInv`. `HandlerKnows` says that what
  the handler was called with, has read and compares with agree, which patience
  is needed for. `OneVersion` and `TwoVersions` say which versions services have
  outside of an upgrade and during one: the new one up to some service of the
  order, the old one from there on. `Procedure` says where the handler is in it.
* `ClusterAppliedIsTrue`, `ClusterOrderIsKept`: the same invariants in the
  composition. They reuse the lemmas of `Deployment`, because the
  cluster-maintenance steps leave its variables alone.
* `LockComesBack`: with `LockInv`. A change handler runs only while there is a
  request.

**ServiceReleaseProofs**

* `InstallCorrect`: `Spec => []InstallInv`. `CommandOK` says that a command is
  about a release of its own service and has rendered values, and that a command
  that runs is what helm's record says; `Progress` says which releases are behind
  the step of an installation; `Applied` says what holds while a service is
  shown as applied. The difficulty is what outlives its command: records that are
  pending, processes that write late, a lock that is leaked.
* `ShownIsInstalled`: `AppliedInstalled` from it.
* `SchemaIsKept`: the action property `SchemaOrder`, if the services of the upgrade
  order keep the release of their chart in every version (`MainStays`). The
  templates in `templates/services` render it unless the user sets
  `migration.<service>.deploy_main_service` to false or removes the service, and
  for deployments where that happens the theorem says nothing. With
  `SchemaInv`: the new version of an object comes from values that are in play
  (helm's record, a command, a late process), and values come in order (`Ordered`),
  which has to survive rollbacks, retries, failed revisions and repeated commands.
  `Position` says what is behind each step of an upgrade, those past `upgradeMap`
  included: from the second on the database is `Prepared`, and after the server is
  up nothing brings the old one back (`Stripped`) except a process that outlives
  its timeout, which `SchemaOrder` leaves out.

**CredentialRotationProofs**

* `RotationCorrect`: `Spec => []RotationInv`, the priorities of active and backup
  secret, and what a rotation that was cut short has left of them (`DoingOK`).
* `KeyStays`: the action property `KeyKept`. The backup has the key of the active
  secret by the time it is promoted.
* `AdminIsAccepted`: with `AdminInv`. The database knows another password than the
  active secret only between rotation and its installation, and when this is cut
  short the request counts as new for the next call.
* `AccessStays`: with `AccessInv`. What a service runs with is at most one
  rotation old (`AllCurrent`), so the account that is refilled is one that nobody
  uses (`NotRefilled`). The step needs users who wait, which `KeepsAccess` says.

**HealthReportProofs**

* `PassCorrect`: `Spec => []PassInv`, what was read since the pass began and what
  is left of the old report, whatever handlers patch between two requests.
* `PassIsFresh`: from it.
* `AllAreReported`, if `ident` gives every object a component of its own: with
  `ListedKept`, the objects of the kinds that have been listed and that need not be
  loaded any more. Whether names and
  labels of a release satisfy the hypothesis is a matter of its charts.

**OvnMigrationProofs**

* `OvnTypeCorrect`: `Spec => []TypeOK`.
* `SyncedBeforeSwitch`: with `ControlInv`, the stages in the config map and in
  memory, and `SyncInv`: a completed third stage means that the job is done.
* `FewNodesLeft`: with `FlowsInv`. After the first attempt the nodes on the old
  dataplane are among those that failed last.
* `OneNodeDown`: with `SystemInv` (what the specification asks for, what the
  controller is at work with and which pods there are, stage by stage) and
  `NodesInv`, the nodes that an abort, a crash or a failure has left without
  network, one per fault. Like `OneNodeAtATime` it excepts `careless` and `hasty`.
* `ReportIsSound`: what each check of `OvnPreflight` reports is right for every
  port that it looks at and every subnet, rule and length of addresses.

## 6. Model-checked only

Liveness (`RequestServed`, `RequestGranted`, `PassEnds`, `Evacuated`,
`GoneIsForgotten`, `LockRestored`, `Converges`, `MaintenanceGranted`, both
`Settles`, `RenderedCurrent`, `CopiesCurrent`, `HealthCatchesUp`, `Migrates`) is out
of the prover's reach. Of the safety properties, `DeletableIsEmpty` and
`TfFieldsKept` are checked by TLC and not proved yet. No module uses a
recursive operator.

## 7. Plan

The order is by how much the rest of the system depends on the part.

Done: the models of section 2 and the proofs of section 5.

Next, proofs: `DeletableIsEmpty`, then `TfFieldsKept`.

Next, models: the dead node path (`controllers/node.py:30`) with Masakari in
`NodeRemoval`; the deletion of the `OpenStackDeployment`; `Deployment` shown to be
an abstraction of `ServiceRelease`.

## 8. Not modelled

* Rendering of charts, merging of values, formatting and all messages: data.
* Generation of passwords, keys and certificates; format conversions of Ceph and
  TF secrets: data.
* Validators of single features: predicates over one document.
* Exporter, probes, `osctl` reports: they read only.
* Image cache and websocket client: Kubernetes and I/O.
* One-shot command line tools other than the migration to OVN: conversions
  without concurrent state.
* Templates and charts: the models take from them only which objects a service has
  and which secrets it needs.
* Two cluster maintenance requests at a time, migrations that administrators
  start themselves, servers that users start on a disabled host, and a single
  database replica: outside the instances checked. The hazards say so.

## 9. How to run

    tlc -workers 2 -config MCNodeMaintenanceLive.cfg MCNodeMaintenance
    tlapm NodeMaintenanceProofs.tla

`PROJECT.json` lists the module and configuration of every run.
