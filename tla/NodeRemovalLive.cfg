CONSTANTS
  SkipChecks = FALSE
  Allowed = {"relabel", "readd", "delete", "disable", "request", "withdraw",
             "reenable", "undeploy", "crash"}
  MaxChanges = 5
SPECIFICATION FairSpec
PROPERTIES DeletableIsEmpty GoneIsForgotten LockRestored
\* A node that is gone and forgotten leaves nothing to do.
CHECK_DEADLOCK FALSE
