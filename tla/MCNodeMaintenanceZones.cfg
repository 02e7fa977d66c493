CONSTANTS
  Node = {1, 2}
  NodeRoles <- Computes
  MaxParallel <- Unlimited
  Zone <- TwoZones
  RespectNovaAz = TRUE
  MigrationMode <- Live
  VolumeNode = {}
  FreshStart = FALSE
  FirstRelease = 0
  MaxRelease = 0
  Scope = {"os"}
  MaxServers = 0
  MaxRequests = 1
  MaxFaults = 1
  Disturbance = {}
SPECIFICATION Spec
INVARIANTS ParallelOnlyInSameZone
\* Once the bounds are used up nothing is left to do.
CHECK_DEADLOCK FALSE
