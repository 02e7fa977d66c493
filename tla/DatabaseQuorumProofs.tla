------------------------ MODULE DatabaseQuorumProofs ------------------------
(* Theorems about DatabaseQuorum, for every set of nodes and of at least   *)
(* three replicas, wherever the replicas are at first.  With two replicas  *)
(* both are false: is_node_locked counts the ready pods and the pods on    *)
(* other nodes, and with two the one that is ready need not be the one     *)
(* that is on another node.                                                *)
EXTENDS DatabaseQuorum, TLAPS, FiniteSetTheorems

\* The variables keep their types under maintenance, removals and failures.
THEOREM QuorumTypeCorrect == Spec => []TypeOK
<1> USE QuorumAssumption
<1>1. Init => TypeOK
  BY DEF Init, TypeOK, Phases, Removals
<1>2. TypeOK /\ [Next]_vars => TypeOK'
  <2> SUFFICES ASSUME TypeOK, [Next]_vars PROVE TypeOK'
    OBVIOUS
  <2> USE DEF TypeOK, Phases, Removals, podVars
  <2>1. ASSUME NEW n \in Node, Acquire(n) \/ Grant(n) \/ FinishRequest(n)
        PROVE  TypeOK'
    BY <2>1 DEF Acquire, Grant, FinishRequest
  <2>2. ASSUME NEW n \in Node, Drain(n) PROVE TypeOK'
    BY <2>2 DEF Drain
  <2>3. ASSUME NEW n \in Node, Reboot(n) PROVE TypeOK'
    BY <2>3 DEF Reboot
  <2>4. ASSUME NEW n \in Node, NodeUp(n) \/ WaitReady(n) PROVE TypeOK'
    BY <2>4 DEF NodeUp, WaitReady
  <2>5. ASSUME NEW n \in Node, RemoveNode(n) PROVE TypeOK'
    BY <2>5 DEF RemoveNode
  <2>6. ASSUME NEW n \in Node, CleanupCheck(n) PROVE TypeOK'
    BY <2>6 DEF CleanupCheck
  <2>7. ASSUME NEW n \in Node, CleanupRelease(n) PROVE TypeOK'
    BY <2>7 DEF CleanupRelease
  <2>8. ASSUME NEW p \in Pod, Schedule(p) PROVE TypeOK'
    BY <2>8 DEF Schedule
  <2>9. ASSUME NEW p \in Pod, BecomeReady(p) PROVE TypeOK'
    BY <2>9 DEF BecomeReady
  <2>10. ASSUME NEW p \in Pod, PodFails(p) PROVE TypeOK'
    BY <2>10 DEF PodFails
  <2>11. CASE UNCHANGED vars \/ \E n \in Node : Defer(n)
    BY <2>11 DEF vars, Defer
  <2> QED BY <2>1, <2>2, <2>3, <2>4, <2>5, <2>6, <2>7, <2>8, <2>9, <2>10, <2>11
          DEF Next
<1> QED BY <1>1, <1>2, PTL DEF Spec

\* What is_node_locked is for: of three or more replicas, when at most one is
\* not ready and at most one is not on another node, a replica is both ready
\* and on another node.
LEMMA ReplicaElsewhere ==
  ASSUME TypeOK, Cardinality(Pod) >= 3, NEW n \in Node, ~is_node_locked(n)
  PROVE  \E p \in Pod : ready[p] /\ placed[p] /\ home[p] # n
<1> DEFINE R == Ready
           O == OtherNodesPods(n)
<1>1. R \subseteq Pod /\ O \subseteq Pod /\ IsFiniteSet(Pod)
  BY QuorumAssumption DEF Ready, OtherNodesPods
<1>2. Cardinality(Pod) \in Nat
  BY <1>1, FS_CardinalityType
<1>3. Cardinality(R) >= Cardinality(Pod) - 1 /\ Cardinality(O) >= Cardinality(Pod) - 1
  <2>1. /\ IsFiniteSet(R) /\ IsFiniteSet(O)
        /\ Cardinality(R) \in Nat /\ Cardinality(O) \in Nat
    BY <1>1, FS_Subset, FS_CardinalityType
  <2> QED BY <1>2, <2>1 DEF is_node_locked, MinReady
<1> HIDE DEF R, O
<1>4. R \cap O # {}
  <2> SUFFICES ASSUME R \cap O = {} PROVE FALSE
    OBVIOUS
  <2>1. IsFiniteSet(R) /\ IsFiniteSet(O) /\ IsFiniteSet(R \cup O)
    BY <1>1, FS_Subset, FS_Union
  <2>2. Cardinality(R \cup O) = Cardinality(R) + Cardinality(O) - 0
    BY <2>1, FS_Union, FS_EmptySet
  <2>3. Cardinality(R \cup O) <= Cardinality(Pod)
    BY <1>1, FS_Subset
  <2>4. Cardinality(R) \in Nat /\ Cardinality(O) \in Nat
    BY <2>1, FS_CardinalityType
  <2> QED BY <1>2, <1>3, <2>2, <2>3, <2>4
<1> QED BY <1>4 DEF R, O, Ready, OtherNodesPods

-----------------------------------------------------------------------------
(* Maintenance *)

\* A node that is handed over has a ready replica elsewhere, and it is the
\* only one: nobody else may take that replica away.
ServiceInv ==
  /\ \A n \in Node : phase[n] # "serving" => slot = n
  /\ failures = 0 /\ NoRemoval =>
       /\ Ready # {}
       /\ \A n \in Node :
            phase[n] = "granted" => \E p \in Pod : ready[p] /\ placed[p] /\ home[p] # n

\* Maintenance, in any order of requests, drains, reboots and returns, leaves
\* a ready replica as long as no pod fails by itself and no node is removed.
THEOREM ServiceIsKept ==
  ASSUME Cardinality(Pod) >= 3
  PROVE  Spec => []ServiceSurvives
<1> USE QuorumAssumption
<1>1. Init => ServiceInv
  BY DEF Init, ServiceInv, NoRemoval, Ready
<1>2. TypeOK /\ ServiceInv /\ [Next]_vars => ServiceInv'
  <2> SUFFICES ASSUME TypeOK, ServiceInv, [Next]_vars PROVE ServiceInv'
    OBVIOUS
  <2> USE DEF TypeOK, ServiceInv, podVars, NoRemoval, Ready
  <2>1. ASSUME NEW n \in Node, Acquire(n) PROVE ServiceInv'
    BY <2>1 DEF Acquire
  <2>2. ASSUME NEW n \in Node, Grant(n) PROVE ServiceInv'
    BY <2>2, ReplicaElsewhere DEF Grant
  <2>3. ASSUME NEW n \in Node, Drain(n) PROVE ServiceInv'
    BY <2>3 DEF Drain
  <2>4. ASSUME NEW n \in Node, Reboot(n) PROVE ServiceInv'
    BY <2>4 DEF Reboot
  <2>5. ASSUME NEW n \in Node, NodeUp(n) \/ FinishRequest(n) PROVE ServiceInv'
    BY <2>5 DEF NodeUp, FinishRequest
  <2>6. ASSUME NEW n \in Node, WaitReady(n) PROVE ServiceInv'
    BY <2>6 DEF WaitReady
  <2>7. ASSUME NEW n \in Node, RemoveNode(n) \/ CleanupCheck(n) PROVE ServiceInv'
    BY <2>7 DEF RemoveNode, CleanupCheck
  <2>8. ASSUME NEW n \in Node, CleanupRelease(n) PROVE ServiceInv'
    BY <2>8 DEF CleanupRelease
  <2>9. ASSUME NEW p \in Pod, Schedule(p) PROVE ServiceInv'
    BY <2>9 DEF Schedule
  <2>10. ASSUME NEW p \in Pod, BecomeReady(p) PROVE ServiceInv'
    BY <2>10 DEF BecomeReady
  <2>11. ASSUME NEW p \in Pod, PodFails(p) PROVE ServiceInv'
    BY <2>11 DEF PodFails
  <2>12. CASE UNCHANGED vars \/ \E n \in Node : Defer(n)
    BY <2>12 DEF vars, Defer
  <2> QED BY <2>1, <2>2, <2>3, <2>4, <2>5, <2>6, <2>7, <2>8, <2>9, <2>10, <2>11, <2>12
          DEF Next
<1>3. ServiceInv => ServiceSurvives
  BY DEF ServiceInv, ServiceSurvives
<1> QED BY <1>1, <1>2, <1>3, QuorumTypeCorrect, PTL DEF Spec

-----------------------------------------------------------------------------
(* Removal *)

\* Between the check and the release of the claims a copy is on another node:
\* it is that of the ready replica that the check has seen, and the handler of
\* no other node is between its check and its release.
DataInv ==
  /\ \A p \in Pod :
       /\ ready[p] => placed[p] /\ data[p]
       /\ placed[p] \/ data[p] => home[p] # NoNode
  /\ \A m, n \in InRemoval : m = n
  /\ \E p \in Pod : data[p]
  /\ \A n \in Node : removal[n] = "release" => \E p \in Pod : data[p] /\ home[p] # n

\* A removal starts only while no other goes on.
LEMMA OneRemoval ==
  ASSUME MaxRemovals <= 1, Cardinality(InRemoval) < MaxRemovals
  PROVE  InRemoval = {}
<1>1. IsFiniteSet(InRemoval)
  BY FS_Subset, QuorumAssumption DEF InRemoval
<1>2. Cardinality(InRemoval) \in Nat
  BY <1>1, FS_CardinalityType
<1>3. Cardinality(InRemoval) = 0
  BY <1>2, QuorumAssumption
<1> QED BY <1>1, <1>3, FS_EmptySet

\* Removing nodes one after the other never deletes the last copy of the
\* database, whatever pods fail and wherever they are scheduled in between.
THEOREM DataIsKept ==
  ASSUME Cardinality(Pod) >= 3, MaxRemovals <= 1
  PROVE  Spec => []DataSurvives
<1> USE QuorumAssumption
<1>1. Init => DataInv
  BY DEF Init, DataInv, InRemoval
<1>2. TypeOK /\ DataInv /\ [Next]_vars => DataInv'
  <2> SUFFICES ASSUME TypeOK, DataInv, [Next]_vars PROVE DataInv'
    OBVIOUS
  <2> USE DEF TypeOK, DataInv, podVars, InRemoval
  <2>1. ASSUME NEW n \in Node, Acquire(n) \/ Grant(n) \/ FinishRequest(n)
        PROVE  DataInv'
    BY <2>1 DEF Acquire, Grant, FinishRequest
  <2>2. ASSUME NEW n \in Node, Drain(n) PROVE DataInv'
    BY <2>2 DEF Drain
  <2>3. ASSUME NEW n \in Node, Reboot(n) PROVE DataInv'
    BY <2>3 DEF Reboot
  <2>4. ASSUME NEW n \in Node, NodeUp(n) \/ WaitReady(n) PROVE DataInv'
    BY <2>4 DEF NodeUp, WaitReady
  <2>5. ASSUME NEW n \in Node, RemoveNode(n) PROVE DataInv'
    <3>1. InRemoval = {}
      BY <2>5, OneRemoval DEF RemoveNode
    <3> QED BY <2>5, <3>1 DEF RemoveNode
  <2>6. ASSUME NEW n \in Node, CleanupCheck(n) PROVE DataInv'
    BY <2>6, ReplicaElsewhere DEF CleanupCheck
  <2>7. ASSUME NEW n \in Node, CleanupRelease(n) PROVE DataInv'
    <3>1. PICK p \in Pod : data[p] /\ home[p] # n
      BY <2>7 DEF CleanupRelease
    <3>2. data'[p]
      BY <2>7, <3>1 DEF CleanupRelease
    <3>3. \A m \in Node : removal'[m] \notin {"check", "release"}
      BY <2>7 DEF CleanupRelease
    <3>4. \A q \in Pod : /\ ready'[q] => placed'[q] /\ data'[q]
                         /\ placed'[q] \/ data'[q] => home'[q] # NoNode
      BY <2>7 DEF CleanupRelease
    <3> QED BY <3>2, <3>3, <3>4
  <2>8. ASSUME NEW p \in Pod, Schedule(p) PROVE DataInv'
    BY <2>8 DEF Schedule
  <2>9. ASSUME NEW p \in Pod, BecomeReady(p) PROVE DataInv'
    BY <2>9 DEF BecomeReady
  <2>10. ASSUME NEW p \in Pod, PodFails(p) PROVE DataInv'
    BY <2>10 DEF PodFails
  <2>11. CASE UNCHANGED vars \/ \E n \in Node : Defer(n)
    BY <2>11 DEF vars, Defer
  <2> QED BY <2>1, <2>2, <2>3, <2>4, <2>5, <2>6, <2>7, <2>8, <2>9, <2>10, <2>11 DEF Next
<1>3. DataInv => DataSurvives
  BY DEF DataInv, DataSurvives
<1> QED BY <1>1, <1>2, <1>3, QuorumTypeCorrect, PTL DEF Spec
=============================================================================
