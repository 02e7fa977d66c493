SPECIFICATION FairSpec
CONSTANTS
  Services <- MCServices
  Releases <- MCReleases
  MaxVersion = 3
  Bundle <- MCBundle
  Available <- MCAvailable
  UpgradeOrder <- MCUpgradeOrder
  MainRelease <- MCMainRelease
  AgentsFirst <- MCAgentsFirst
  ColdStart = {"redis"}
  MaxFaults = 1
INVARIANT AppliedInstalled
PROPERTIES SchemaOrder Settles
CHECK_DEADLOCK FALSE
