-------------------------- MODULE MCDatabaseQuorum --------------------------
(* Instances of DatabaseQuorum for TLC: three replicas on nodes 1, 2, 3. *)
EXTENDS DatabaseQuorum

OneEach == [p \in 1..3 |-> p]
=============================================================================
