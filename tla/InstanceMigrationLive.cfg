CONSTANTS
  Server = {s1, s2, s3}
  Modes = {"live", "manual", "skip"}
  Attempts = 2
  Concurrency = 2
  MaxFailures = 3
  MaxErrors = 1
SPECIFICATION FairSpec
INVARIANTS ConcurrencyRespected
PROPERTIES PassEnds Evacuated SafeForReboot
\* The handler stops when the host is empty.
CHECK_DEADLOCK FALSE
