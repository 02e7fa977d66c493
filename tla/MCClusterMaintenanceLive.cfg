CONSTANTS
  Service = {"identity", "compute"}
  Order <- TwoInOrder
  Edits = {"version", "change", "draft", "restore"}
  Patient = TRUE
  MaxEdits = 3
  MaxRelease = 2
  MaxFaults = 1
  MaxRequests = 1
SPECIFICATION ClusterFairSpec
INVARIANTS AppliedIsInstalled LockTakenBack UpgradeInOrder
PROPERTIES Converges MaintenanceGranted
\* Without edits and requests the handlers have nothing to do.
CHECK_DEADLOCK FALSE
