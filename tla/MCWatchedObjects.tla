-------------------------- MODULE MCWatchedObjects --------------------------
(* Two services and one topic. *)
EXTENDS WatchedObjects

MCUses == [messaging |-> {"values"}, networking |-> {"ceph", "bgpvpn", "tfdata", "artifacts"}]
=============================================================================
