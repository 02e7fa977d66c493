SPECIFICATION FairSpec
CONSTANTS
  Deployments <- MCDeployments
  MaxCrashes = 1
INVARIANTS AdminAccepted
PROPERTIES KeepsAccess KeyKept Settles
CHECK_DEADLOCK FALSE
