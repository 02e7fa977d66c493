CONSTANTS
  Node = {1, 2, 3, 4}
  Pod = {1, 2, 3}
  NoNode = 0
  FirstHome <- OneEach
  MaxFailures = 1
  MaxRemovals = 1
SPECIFICATION FairSpec
INVARIANTS ServiceSurvives DataSurvives
PROPERTIES RequestGranted
\* All nodes may be removed, one after the other.
CHECK_DEADLOCK FALSE
