SPECIFICATION FairSpec
CONSTANTS
  g1 = g1
  c1 = c1
  c2 = c2
  Gateways <- MCGateways
  Computes <- MCComputes
  GtwThreshold = 0
  CmpThreshold = 1
  Bits = 2
  Ports <- MCPorts
  MaxFaults = 2
  MaxCarelessFaults = 1
INVARIANTS OneNodeAtATime SwitchedAfterSync ThresholdsKept PreflightSound
PROPERTIES Migrates
CHECK_DEADLOCK FALSE
