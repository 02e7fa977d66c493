CONSTANTS
  Node = {1, 2}
  NodeRoles <- ControllerCompute
  MaxParallel <- OneAtATime
  Zone <- TwoZones
  RespectNovaAz = TRUE
  MigrationMode <- Live
  VolumeNode = {}
  FreshStart = FALSE
  FirstRelease = 0
  MaxRelease = 0
  Scope = {"os"}
  MaxServers = 1
  MaxRequests = 2
  MaxFaults = 1
  Disturbance = {"restart", "node"}
SPECIFICATION FairSpec
INVARIANTS ReleasedWithinLimits
PROPERTIES SlotsSpec RequestServed
\* Once the bounds are used up nothing is left to do.
CHECK_DEADLOCK FALSE
