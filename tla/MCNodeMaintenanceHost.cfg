CONSTANTS
  Node = {1, 2}
  NodeRoles <- ComputeAndOther
  MaxParallel <- OneAtATime
  Zone <- OneZone
  RespectNovaAz = TRUE
  MigrationMode <- Live
  VolumeNode = {1}
  FreshStart = TRUE
  FirstRelease = 1
  MaxRelease = 2
  Scope = {"os"}
  MaxServers = 1
  MaxRequests = 1
  MaxFaults = 1
  Disturbance = {"restart", "api", "update", "osdpl", "operator"}
SPECIFICATION Spec
INVARIANTS ReleasedIsDrained NothingLeftBehind LockCurrent
PROPERTIES OperatorDecisionKept
\* Once the bounds are used up nothing is left to do.
CHECK_DEADLOCK FALSE
