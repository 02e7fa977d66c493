-------------------------- MODULE MaintenanceSlots --------------------------
(***************************************************************************)
(* What the maintenance controller promises to the LCM, without its        *)
(* handlers: a node is handed over (it is open) only while it holds a      *)
(* maintenance slot, and a slot is taken only when every role has room.    *)
(* NodeMaintenance implements this specification.                          *)
(***************************************************************************)
EXTENDS Naturals, FiniteSets

CONSTANTS Node, Role, NodeRoles, MaxParallel

VARIABLES
  slots,   \* the nodes that hold a maintenance slot
  open     \* the nodes handed over to the LCM

Holders(r) == {n \in slots : r \in NodeRoles[n]}

SlotsInit == slots = {} /\ open = {}

Enter(n) ==
  /\ n \notin slots
  /\ \A r \in Role : Cardinality(Holders(r)) < MaxParallel[r]
  /\ slots' = slots \cup {n}
  /\ UNCHANGED open

Open(n) ==
  /\ n \in slots
  /\ open' = open \cup {n}
  /\ UNCHANGED slots

Close(n) ==
  /\ open' = open \ {n}
  /\ UNCHANGED slots

Leave(n) ==
  /\ n \notin open
  /\ slots' = slots \ {n}
  /\ UNCHANGED open

SlotsNext == \E n \in Node : Enter(n) \/ Open(n) \/ Close(n) \/ Leave(n)

SlotsSpec == SlotsInit /\ [][SlotsNext]_<<slots, open>>
=============================================================================
