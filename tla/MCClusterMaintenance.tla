------------------------ MODULE MCClusterMaintenance ------------------------
(* Instances of ClusterMaintenance for TLC. *)
EXTENDS ClusterMaintenance

TwoInOrder == <<"identity", "compute">>
=============================================================================
