------------------------- MODULE ClusterMaintenance -------------------------
(***************************************************************************)
(* The ClusterMaintenanceRequest (CMR) next to the OpenStackDeployment     *)
(* handler: cluster_maintenance_request_change_handler and its counterpart *)
(* for deletion, which run in a process of their own.  The LCM may update  *)
(* the cluster while the ClusterWorkloadLock is inactive.                  *)
(***************************************************************************)
EXTENDS Deployment

CONSTANT MaxRequests   \* bound: requests the LCM makes, one after the other

ASSUME RequestsAssumption == MaxRequests \in Nat

VARIABLES
  cmr,       \* "none", "requested" or "deleting"
  pending,   \* kopf still has to call the change handler
  cpc,       \* where the change handler is
  seen,      \* osdplst_status, the state it has read
  well,      \* services it has found healthy
  requests   \* requests so far

cmrVars == <<cmr, pending, cpc, seen, well, requests>>
cvars == <<vars, cmrVars>>

DeploymentUnchanged ==
  UNCHANGED <<spec, handled, resume, release, handlerVars, installed,
              healthy, status, boundVars>>

-----------------------------------------------------------------------------
(* The change handler *)

\* The handler returns (done) or kopf calls it again.
CmrIdle(done) ==
  /\ cpc' = "idle" /\ seen' = "none" /\ well' = {}
  /\ pending' = (pending /\ ~done)
  /\ UNCHANGED <<cmr, requests>>

\* osdplst_status is read first; without a status object the handler fails.
ReadStatus ==
  /\ cpc = "idle" /\ cmr = "requested" /\ pending
  /\ status.state # "none"
  /\ cpc' = "release"
  /\ seen' = status.state
  /\ UNCHANGED <<cmr, pending, well, requests, lock>>
  /\ DeploymentUnchanged

\* Then the release of the lock; the state read before is compared after it.
Defer ==
  /\ cpc = "release"
  /\ lock.release # release \/ seen # "APPLIED"
  /\ CmrIdle(FALSE) /\ UNCHANGED lock /\ DeploymentUnchanged

\* "we are in maintenance, but controller is restarted"
AlreadyReleased ==
  /\ cpc = "release"
  /\ lock.release = release /\ seen = "APPLIED" /\ lock.state # "active"
  /\ CmrIdle(TRUE) /\ UNCHANGED lock /\ DeploymentUnchanged

CheckRelease ==
  /\ cpc = "release"
  /\ lock.release = release /\ seen = "APPLIED" /\ lock.state = "active"
  /\ cpc' = "wait"
  /\ UNCHANGED <<cmr, pending, seen, well, requests, lock>>
  /\ DeploymentUnchanged

\* wait_services_healthy waits for one service after the other.
SeeHealthy(s) ==
  /\ cpc = "wait" /\ s \notin well /\ healthy[s]
  /\ well' = well \cup {s}
  /\ UNCHANGED <<cmr, pending, cpc, seen, requests, lock>>
  /\ DeploymentUnchanged

HealthTimeout ==
  /\ cpc = "wait" /\ well # Service /\ Tolerated
  /\ errors' = errors + 1
  /\ CmrIdle(FALSE)
  /\ UNCHANGED <<spec, handled, resume, release, handlerVars, installed,
                 healthy, status, lock, crashes, permanents>>

\* Mutation: only the error message is cleared.
ReleaseNothing ==
  /\ cpc = "wait" /\ well = Service
  /\ CmrIdle(TRUE) /\ UNCHANGED lock /\ DeploymentUnchanged

Release ==
  /\ cpc = "wait" /\ well = Service
  /\ lock' = [lock EXCEPT !.state = "inactive"]
  /\ CmrIdle(TRUE) /\ DeploymentUnchanged

\* Mutation: a request that was served leaves the lock as it is.
CmrDeleteKeeps ==
  /\ cmr = "deleting" /\ cpc = "idle" /\ lock.state # "none"
  /\ lock' = [lock EXCEPT !.state = IF pending THEN "active" ELSE @]
  /\ cmr' = "none"
  /\ pending' = FALSE
  /\ UNCHANGED <<cpc, seen, well, requests>> /\ DeploymentUnchanged

\* kopf calls the delete handler when the change handler is not running.
CmrDelete ==
  /\ cmr = "deleting" /\ cpc = "idle" /\ lock.state # "none"
  /\ lock' = [lock EXCEPT !.state = "active"]
  /\ cmr' = "none"
  /\ pending' = FALSE
  /\ UNCHANGED <<cpc, seen, well, requests>> /\ DeploymentUnchanged

CmrHandler ==
  \/ ReadStatus \/ Defer \/ AlreadyReleased \/ CheckRelease \/ Release
  \/ CmrDelete
  \/ \E s \in Service : SeeHealthy(s)

-----------------------------------------------------------------------------
(* The environment *)

CreateCmr ==
  /\ cmr = "none" /\ requests < MaxRequests
  /\ cmr' = "requested" /\ pending' = TRUE /\ requests' = requests + 1
  /\ UNCHANGED <<cpc, seen, well, lock>> /\ DeploymentUnchanged

DeleteCmr ==
  /\ cmr = "requested"
  /\ cmr' = "deleting"
  /\ UNCHANGED <<pending, cpc, seen, well, requests, lock>>
  /\ DeploymentUnchanged

\* kopf resumes the request in a new process.
CmrReplaced ==
  /\ cpc' = "idle" /\ seen' = "none" /\ well' = {}
  /\ pending' = (cmr = "requested")
  /\ UNCHANGED <<cmr, requests>>

CmrCrash ==
  /\ Tolerated /\ crashes' = crashes + 1
  /\ CmrReplaced
  /\ UNCHANGED <<spec, handled, resume, release, handlerVars, installed,
                 healthy, status, lock, errors, permanents>>

-----------------------------------------------------------------------------
ClusterInit ==
  /\ Init
  /\ cmr = "none" /\ pending = FALSE /\ cpc = "idle" /\ seen = "none"
  /\ well = {} /\ requests = 0

\* The containers share a pod: an upgrade replaces both.
ClusterNext ==
  \/ (Handler \/ Errors) /\ UNCHANGED cmrVars
  \/ (EditVersion \/ EditOther \/ Crash) /\ UNCHANGED cmrVars
  \/ (\E s \in Service : BecomeHealthy(s)) /\ UNCHANGED cmrVars
  \/ ControllerUpgrade /\ CmrReplaced
  \/ CmrHandler \/ HealthTimeout \/ CreateCmr \/ DeleteCmr \/ CmrCrash

ClusterSpec == ClusterInit /\ [][ClusterNext]_cvars

ClusterFairness ==
  /\ WF_cvars(Handler /\ UNCHANGED cmrVars)
  /\ \A s \in Service : WF_cvars(BecomeHealthy(s) /\ UNCHANGED cmrVars)
  /\ WF_cvars(CmrHandler)

ClusterFairSpec == ClusterSpec /\ ClusterFairness

-----------------------------------------------------------------------------
(* Properties. *)

\* Once a request is gone the lock is taken back: no interleaving of the
\* request's end with handlers, crashes and upgrades leaves it released.
LockTakenBack == cmr = "none" => lock.state # "inactive"

\* A request is granted in the end, also when the controller is upgraded and
\* takes the lock back in between, unless it is withdrawn or the deployment
\* stays in a state in which its handler refuses to act.
MaintenanceGranted ==
  <>[]~Refused =>
    (cmr = "requested" ~> cmr # "requested" \/ lock.state = "inactive")

=============================================================================
