------------------------- MODULE MCNodeMaintenance -------------------------
(* Instances of NodeMaintenance for TLC. *)
EXTENDS NodeMaintenance

\* A controller that is also a compute, and a compute.
ControllerCompute == [n \in 1..2 |-> IF n = 1 THEN {"controller", "compute"} ELSE {"compute"}]
\* A compute, and a node without OpenStack roles.
ComputeAndOther == [n \in 1..2 |-> IF n = 1 THEN {"compute"} ELSE {}]
Computes == [n \in 1..3 |-> {"compute"}]
OneAtATime == [r \in Role |-> 1]
Unlimited == [r \in Role |-> 3]

OneZone == [n \in 1..3 |-> "az1"]
TwoZones == [n \in 1..3 |-> IF n = 2 THEN "az2" ELSE "az1"]
Live == [n \in 1..3 |-> "live"]
=============================================================================
