----------------------------- MODULE Deployment -----------------------------
(***************************************************************************)
(* The handler of the OpenStackDeployment object: _handle and run_task of  *)
(* controllers/openstackdeployment.py, apply and upgrade of the services,  *)
(* and the admission controller, which guards changes of the OpenStack     *)
(* version.  kopf calls the handler with the object of the event and with  *)
(* what changed since the object was handled last; the handler reads the   *)
(* object again, deploys what it reads and shows APPLYING or APPLIED in    *)
(* the OpenStackDeploymentStatus, which admission and the maintenance      *)
(* handlers go by.                                                         *)
(***************************************************************************)
EXTENDS Naturals, Sequences

CONSTANTS
  Service,       \* the enabled services
  Order,         \* those with an upgrade procedure, in the order of upgrade
  Edits,         \* what users edit: "version", "change", "draft", "restore"
  Patient,       \* users edit what steers the handler only when it rests
  MaxEdits,      \* bound: edits
  MaxRelease,    \* bound: the last release of the controller
  MaxFaults      \* bound: restarts, errors out of the handlers and services
                 \* whose templates do not render

ASSUME DeploymentAssumption ==
  /\ Order \in Seq(Service)
  /\ \A i, j \in 1..Len(Order) : Order[i] = Order[j] => i = j
  /\ Edits \subseteq {"version", "change", "draft", "restore"}
  /\ Patient \in BOOLEAN
  /\ {MaxEdits, MaxFaults} \subseteq Nat
  /\ MaxRelease \in Nat \ {0}

VARIABLES
  spec,       \* the spec in the API; every edit gets a number of its own
  handled,    \* the spec kopf has stored as handled last
  resume,     \* the process is new and has not handled the object yet
  release,    \* OSCTL_CLUSTER_RELEASE of the running controller
  pc,         \* where the handler is
  event,      \* its cause
  old,        \* the last handled spec it was called with
  body,       \* the spec it was called with
  mspec,      \* the spec it has read
  turn,       \* index in Order of the service being upgraded
  tasks,      \* services whose apply is not done
  failed,     \* permanent_exception of run_task is set
  installed,  \* installed[s]: spec and release the charts of s come from
  healthy,    \* healthy[s]: health of s in the status object
  status,     \* status.osdpl of the OpenStackDeploymentStatus
  lock,       \* the ClusterWorkloadLock
  crashes, errors, permanents

handlerVars == <<pc, event, old, body, mspec, turn, tasks, failed>>
boundVars == <<crashes, errors, permanents>>
vars == <<spec, handled, resume, release, handlerVars, installed, healthy,
          status, lock, boundVars>>

Specs == [edit : Nat, version : Nat, draft : BOOLEAN, restore : BOOLEAN]
NoSpec == [edit |-> 0, version |-> 0, draft |-> FALSE, restore |-> FALSE]
Contents == [spec : Specs, release : Nat]
Nothing == [spec |-> NoSpec, release |-> 0]
Wanted == [spec |-> mspec, release |-> release]
Tolerated == crashes + errors + permanents < MaxFaults
\* The last edit has been handled.
Rests == pc = "idle" /\ handled = spec /\ ~resume

-----------------------------------------------------------------------------
(* Users and the admission controller *)

Edit(kind, new) ==
  /\ kind \in Edits /\ spec.edit < MaxEdits
  /\ spec' = [new EXCEPT !.edit = @ + 1]
  /\ UNCHANGED <<handled, resume, release, handlerVars, installed, healthy,
                 status, lock, boundVars>>

\* _validate_openstack_upgrade and _validate_for_another_upgrade: one version
\* up, nothing else changed, and the status says APPLIED.
EditVersion ==
  /\ status.state = "APPLIED"
  /\ Patient => Rests /\ ~spec.draft /\ ~spec.restore
  /\ Edit("version", [spec EXCEPT !.version = @ + 1])

EditOther ==
  \/ Edit("change", spec)
  \/ (Patient => Rests) /\ Edit("draft", [spec EXCEPT !.draft = ~@])
  \/ (Patient => Rests) /\ Edit("restore", [spec EXCEPT !.restore = ~@])

-----------------------------------------------------------------------------
(* kopf *)

\* No handler is running: its local variables are gone.
Idle ==
  /\ pc' = "idle" /\ event' = "create"
  /\ old' = NoSpec /\ body' = NoSpec /\ mspec' = NoSpec
  /\ turn' = 1 /\ tasks' = {} /\ failed' = FALSE

\* The cause is a resume only when nothing has changed.
Dispatch ==
  /\ pc = "idle" /\ (resume \/ spec # handled)
  /\ pc' = "called"
  /\ event' = CASE handled = NoSpec -> "create"
                [] handled # NoSpec /\ spec # handled -> "update"
                [] OTHER -> "resume"
  /\ old' = handled
  /\ body' = spec
  /\ UNCHANGED <<spec, handled, resume, release, mspec, turn, tasks, failed,
                 installed, healthy, status, lock, boundVars>>

\* The handler has returned or raised PermanentError: the spec it was called
\* with counts as handled.
Handled ==
  /\ Idle
  /\ handled' = body
  /\ resume' = FALSE
  /\ UNCHANGED <<spec, release, installed, healthy, status, lock, boundVars>>

\* Any other error: kopf calls the handler again.
HandlerError ==
  /\ pc \in {"called", "read", "lock", "check", "prepare"}
  /\ Tolerated /\ errors' = errors + 1
  /\ Idle
  /\ UNCHANGED <<spec, handled, resume, release, installed, healthy, status,
                 lock, crashes, permanents>>

-----------------------------------------------------------------------------
(* _handle *)

SkipDraft == pc = "called" /\ body.draft /\ Handled

\* osdpl = kube.get_osdpl(): the object as it is now.
ReadSpec ==
  /\ pc = "called" /\ ~body.draft
  /\ pc' = "read"
  /\ mspec' = spec
  /\ UNCHANGED <<spec, handled, resume, release, event, old, body, turn,
                 tasks, failed, installed, healthy, status, lock, boundVars>>

SetApplying ==
  /\ pc = "read"
  /\ pc' = "lock"
  /\ status' = [state |-> "APPLYING", of |-> Wanted]
  /\ UNCHANGED <<spec, handled, resume, release, event, old, body, mspec,
                 turn, tasks, failed, installed, healthy, lock, boundVars>>

\* cwl.present() makes a new lock active and takes back one that carries
\* another release.  The state is written before the release, and nobody
\* releases a lock with another release: one step is enough.
LockPresent ==
  /\ pc = "lock"
  /\ pc' = "check"
  /\ lock' = IF lock.release = release
             THEN lock ELSE [state |-> "active", release |-> release]
  /\ UNCHANGED <<spec, handled, resume, release, event, old, body, mspec,
                 turn, tasks, failed, installed, healthy, status, boundVars>>

\* check_handling_allowed
HandlingAllowed ==
  body.restore => event = "update" /\ ~old.restore

CheckRefused == pc = "check" /\ ~HandlingAllowed /\ Handled

CheckPassed ==
  /\ pc = "check" /\ HandlingAllowed
  /\ pc' = "prepare"
  /\ UNCHANGED <<spec, handled, resume, release, event, old, body, mspec,
                 turn, tasks, failed, installed, healthy, status, lock,
                 boundVars>>

\* is_openstack_version_changed: a created object has no such difference.
VersionChanged == event # "create" /\ old.version # body.version

\* Mutation: the upgrade procedure is not used.
PrepareApplies ==
  /\ pc = "prepare"
  /\ pc' = "apply"
  /\ tasks' = Service /\ turn' = 1 /\ failed' = FALSE
  /\ UNCHANGED <<spec, handled, resume, release, event, old, body, mspec,
                 installed, healthy, status, lock, boundVars>>

\* Secrets, image cache and credentials are ensured; then one service after
\* the other is upgraded, or all of them are applied at once.
Prepare ==
  /\ pc = "prepare"
  /\ pc' = IF VersionChanged /\ Order # <<>> THEN "upgrade" ELSE "apply"
  /\ tasks' = Service /\ turn' = 1 /\ failed' = FALSE
  /\ UNCHANGED <<spec, handled, resume, release, event, old, body, mspec,
                 installed, healthy, status, lock, boundVars>>

\* Helm installs the charts of s; pods restart when something has changed.
Install(s) ==
  /\ installed' = [installed EXCEPT ![s] = Wanted]
  /\ healthy' = [healthy EXCEPT ![s] = @ /\ installed[s] = Wanted]

\* Service.upgrade waits until the service is healthy, applies it ...
UpgradeApply ==
  /\ pc = "upgrade" /\ healthy[Order[turn]]
  /\ pc' = "upgraded"
  /\ Install(Order[turn])
  /\ UNCHANGED <<spec, handled, resume, release, event, old, body, mspec,
                 turn, tasks, failed, status, lock, boundVars>>

\* ... and waits again; whatever goes wrong, run_task repeats it.
UpgradeDone ==
  /\ pc = "upgraded" /\ healthy[Order[turn]]
  /\ pc' = IF turn < Len(Order) THEN "upgrade" ELSE "apply"
  /\ turn' = turn + 1
  /\ UNCHANGED <<spec, handled, resume, release, event, old, body, mspec,
                 tasks, failed, installed, healthy, status, lock, boundVars>>

UpgradeRetry ==
  /\ pc = "upgraded" /\ Tolerated
  /\ pc' = "upgrade"
  /\ errors' = errors + 1
  /\ UNCHANGED <<spec, handled, resume, release, event, old, body, mspec,
                 turn, tasks, failed, installed, healthy, status, lock,
                 crashes, permanents>>

\* The tasks of run_task run concurrently; one that fails is repeated.
Apply(s) ==
  /\ pc = "apply" /\ s \in tasks
  /\ Install(s)
  /\ tasks' = tasks \ {s}
  /\ UNCHANGED <<spec, handled, resume, release, pc, event, old, body, mspec,
                 turn, failed, status, lock, boundVars>>

\* Mutation: the permanent error is forgotten.
ApplyForgotten(s) ==
  /\ pc = "apply" /\ s \in tasks
  /\ Tolerated /\ permanents' = permanents + 1
  /\ tasks' = tasks \ {s}
  /\ UNCHANGED <<spec, handled, resume, release, pc, event, old, body, mspec,
                 turn, failed, installed, healthy, status, lock, crashes,
                 errors>>

\* PermanentError: not repeated, raised when the other tasks are done.
ApplyPermanent(s) ==
  /\ pc = "apply" /\ s \in tasks
  /\ Tolerated /\ permanents' = permanents + 1
  /\ tasks' = tasks \ {s}
  /\ failed' = TRUE
  /\ UNCHANGED <<spec, handled, resume, release, pc, event, old, body, mspec,
                 turn, installed, healthy, status, lock, crashes, errors>>

ApplyFailed == pc = "apply" /\ tasks = {} /\ failed /\ Handled

\* Mutation: a deployment that is resumed is not marked as applied.
SetAppliedUnlessResumed ==
  /\ pc = "apply" /\ tasks = {} /\ ~failed
  /\ pc' = "applied"
  /\ status' = IF event = "resume"
               THEN status ELSE [state |-> "APPLIED", of |-> Wanted]
  /\ UNCHANGED <<spec, handled, resume, release, event, old, body, mspec,
                 turn, tasks, failed, installed, healthy, lock, boundVars>>

SetApplied ==
  /\ pc = "apply" /\ tasks = {} /\ ~failed
  /\ pc' = "applied"
  /\ status' = [state |-> "APPLIED", of |-> Wanted]
  /\ UNCHANGED <<spec, handled, resume, release, event, old, body, mspec,
                 turn, tasks, failed, installed, healthy, lock, boundVars>>

Return == pc = "applied" /\ Handled

Handler ==
  \/ Dispatch \/ SkipDraft \/ ReadSpec \/ SetApplying \/ LockPresent
  \/ CheckRefused \/ CheckPassed \/ Prepare
  \/ UpgradeApply \/ UpgradeDone
  \/ \E s \in Service : Apply(s)
  \/ ApplyFailed \/ SetApplied \/ Return

Errors ==
  \/ HandlerError \/ UpgradeRetry
  \/ \E s \in Service : ApplyPermanent(s)

-----------------------------------------------------------------------------
(* The environment *)

\* The process is replaced: the handler is gone, kopf resumes.
Replaced ==
  /\ Idle
  /\ resume' = TRUE
  /\ UNCHANGED <<spec, handled, installed, healthy, status, lock, errors,
                 permanents>>

Crash ==
  /\ Tolerated /\ crashes' = crashes + 1
  /\ Replaced /\ UNCHANGED release

ControllerUpgrade ==
  /\ release < MaxRelease /\ release' = release + 1
  /\ Replaced /\ UNCHANGED crashes

BecomeHealthy(s) ==
  /\ ~healthy[s] /\ installed[s] # Nothing
  /\ healthy' = [healthy EXCEPT ![s] = TRUE]
  /\ UNCHANGED <<spec, handled, resume, release, handlerVars, installed,
                 status, lock, boundVars>>

Environment ==
  \/ EditVersion \/ EditOther \/ Crash \/ ControllerUpgrade
  \/ \E s \in Service : BecomeHealthy(s)

-----------------------------------------------------------------------------
Init ==
  /\ spec = [NoSpec EXCEPT !.edit = 1, !.version = 1]
  /\ handled = NoSpec /\ resume = FALSE /\ release = 1
  /\ pc = "idle" /\ event = "create"
  /\ old = NoSpec /\ body = NoSpec /\ mspec = NoSpec
  /\ turn = 1 /\ tasks = {} /\ failed = FALSE
  /\ installed = [s \in Service |-> Nothing]
  /\ healthy = [s \in Service |-> FALSE]
  /\ status = [state |-> "none", of |-> Nothing]
  /\ lock = [state |-> "none", release |-> 0]
  /\ crashes = 0 /\ errors = 0 /\ permanents = 0

Next == Handler \/ Errors \/ Environment

Spec == Init /\ [][Next]_vars

\* The handler goes on, tasks get their turn, pods become ready.
Fairness ==
  /\ WF_vars(Handler)
  /\ \A s \in Service : WF_vars(BecomeHealthy(s))

FairSpec == Spec /\ Fairness

-----------------------------------------------------------------------------
(* Properties. *)

Steps == {"idle", "called", "read", "lock", "check", "prepare", "upgrade",
          "upgraded", "apply", "applied"}

\* The variables hold values of their types.
TypeOK ==
  /\ {spec, handled, old, body, mspec} \subseteq Specs
  /\ {resume, failed} \subseteq BOOLEAN
  /\ release \in Nat /\ pc \in Steps
  /\ event \in {"create", "update", "resume"}
  /\ turn \in Nat /\ tasks \subseteq Service
  /\ installed \in [Service -> Contents] /\ healthy \in [Service -> BOOLEAN]
  /\ status \in [state : {"none", "APPLYING", "APPLIED"}, of : Contents]
  /\ lock \in [state : {"none", "active", "inactive"}, release : Nat]
  /\ {crashes, errors, permanents} \subseteq Nat

\* What admission and the maintenance handlers rely on: as long as the status
\* says APPLIED, every service runs the charts of the spec and of the release
\* the status names, whatever failed, crashed or was edited in between.
AppliedIsInstalled ==
  status.state = "APPLIED" => \A s \in Service : installed[s] = status.of

Version(s) == installed[s].spec.version

\* Services get a new OpenStack version in the order of upgrade
\* (OPENSTACK_SERVICES_UPGRADE_ORDER), never one before its predecessors.
UpgradeInOrder ==
  \A i, j \in 1..Len(Order) :
    i < j /\ Version(Order[i]) > 0 => Version(Order[j]) <= Version(Order[i])

\* The last edit is installed in the end, by the last release of the
\* controller, after drafts, restores, restarts and errors: unless it is a
\* draft or a restore is still going on, or a service did not render.
Refused == spec.draft \/ spec.restore \/ permanents > 0
Converges ==
  <>[](\/ Refused
       \/ /\ status.state = "APPLIED"
          /\ \A s \in Service :
               installed[s] = [spec |-> spec, release |-> release])
=============================================================================
