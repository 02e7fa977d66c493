SPECIFICATION FairSpec
CONSTANTS
  Objects <- MCObjects
  Ds = "compute"
  Meta <- MCMeta
  Later = {"exporter"}
  Node = {1, 2}
  NewNode = {2}
  OnDelete = FALSE
  MaxChanges = 2
  MaxFaults = 1
INVARIANTS PassFresh AllReported
PROPERTIES HealthCatchesUp
CHECK_DEADLOCK FALSE
