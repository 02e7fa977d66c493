----------------------- MODULE NodeMaintenanceProofs -----------------------
(* Theorems about NodeMaintenance, for every set of nodes and every limit. *)
EXTENDS NodeMaintenance, TLAPS, FiniteSetTheorems

\* A patch of one field of a lock leaves locks in the place of locks.
LEMMA LockUpdate ==
  ASSUME NEW f \in [Node -> LockType], NEW n \in Node
  PROVE  /\ \A s \in {"active", "inactive"} :
              /\ [f EXCEPT ![n].state = s] \in [Node -> LockType]
              /\ [f EXCEPT ![n].inner = s] \in [Node -> LockType]
         /\ \A r \in Nat : [f EXCEPT ![n].release = r] \in [Node -> LockType]
<1>1. f[n] \in LockType
  OBVIOUS
<1>2. ASSUME NEW s \in {"active", "inactive"}
      PROVE  [f EXCEPT ![n].state = s] \in [Node -> LockType]
  <2>1. [f[n] EXCEPT !.state = s] \in LockType
    BY <1>1 DEF LockType
  <2> QED BY <2>1
<1>3. ASSUME NEW s \in {"active", "inactive"}
      PROVE  [f EXCEPT ![n].inner = s] \in [Node -> LockType]
  <2>1. [f[n] EXCEPT !.inner = s] \in LockType
    BY <1>1 DEF LockType
  <2> QED BY <2>1
<1>4. ASSUME NEW r \in Nat
      PROVE  [f EXCEPT ![n].release = r] \in [Node -> LockType]
  <2>1. [f[n] EXCEPT !.release = r] \in LockType
    BY <1>1 DEF LockType
  <2> QED BY <2>1
<1> QED BY <1>2, <1>3, <1>4

\* The variables keep their types under every handler step, fault and
\* environment action of the maintenance controllers.
THEOREM TypeCorrect == Spec => []TypeOK
<1> USE NodeAssumption, BoundAssumption
<1>1. Init => TypeOK
  <2> SUFFICES ASSUME Init PROVE TypeOK
    OBVIOUS
  <2>1. lock \in [Node -> LockType]
    BY DEF Init, LockType, NoLock
  <2>2. event \in [Worker -> [Node -> BOOLEAN]]
    BY DEF Init
  <2>3. pc \in [Worker -> [Node -> Step]]
    BY DEF Init, Step
  <2> QED BY <2>1, <2>2, <2>3 DEF Init, TypeOK, ServiceState
<1>2. TypeOK /\ [Next]_vars => TypeOK'
  <2> SUFFICES ASSUME TypeOK, [Next]_vars PROVE TypeOK'
    OBVIOUS
  <2> USE DEF TypeOK, Goto, lcmVars, openstackVars
  <2>1. ASSUME NEW w \in Worker, NEW n \in Node, Present(w, n) PROVE TypeOK'
    <3>1. CASE PresentObject(w, n)
      BY <3>1 DEF PresentObject, AfterObject, AfterPresent, LockType, NoLock, Step, PresentStep, ChangeStep
    <3>2. CASE PresentGetRelease(w, n)
      BY <3>2 DEF PresentGetRelease, AfterPresent, Step, PresentStep, ChangeStep
    <3>3. CASE PresentSetState(w, n)
      BY <3>3, LockUpdate DEF PresentSetState, Step, PresentStep
    <3>5. CASE PresentSetActive(w, n)
      BY <3>5, LockUpdate DEF PresentSetActive, AfterObject, AfterPresent, Step, PresentStep, ChangeStep
    <3>4. CASE PresentSetRelease(w, n)
      BY <3>4, LockUpdate DEF PresentSetRelease, AfterPresent, Step, PresentStep, ChangeStep
    <3> QED BY <2>1, <3>1, <3>2, <3>3, <3>4, <3>5 DEF Present
  <2>2. ASSUME NEW n \in Node, ChangeHandler(n) PROVE TypeOK'
    <3>1. CASE ChangeStart(n)
      BY <3>1 DEF ChangeStart, Worker, Step, PresentStep, ChangeStep, DeleteStep
    <3>2. CASE AcquireCheck(n)
      BY <3>2 DEF AcquireCheck, Worker, Step, PresentStep, ChangeStep, DeleteStep
    <3>3. CASE AcquireDefer(n)
      BY <3>3 DEF AcquireDefer, Retry, Worker, Step, PresentStep, ChangeStep, DeleteStep
    <3>4. CASE AcquireSetInner(n)
      BY <3>4, LockUpdate DEF AcquireSetInner, Worker, Step, PresentStep, ChangeStep, DeleteStep
    <3>5. CASE CheckOsdpl(n)
      BY <3>5 DEF CheckOsdpl, Worker, Step, PresentStep, ChangeStep, DeleteStep
    <3>6. CASE ServicesAccept(n)
      BY <3>6 DEF ServicesAccept, Worker, Step, PresentStep, ChangeStep, DeleteStep
    <3>7. CASE ServicesDefer(n)
      BY <3>7 DEF ServicesDefer, Retry, Worker, Step, PresentStep, ChangeStep, DeleteStep
    <3>8. CASE Reassert(n)
      BY <3>8, LockUpdate DEF Reassert, Worker, Step, PresentStep, ChangeStep, DeleteStep
    <3>9. CASE DisableCompute(n)
      BY <3>9 DEF DisableCompute, AfterDisabled, ServiceState, Worker, Step, PresentStep, ChangeStep, DeleteStep
    <3>10. CASE Migrated(n)
      BY <3>10 DEF Migrated, Worker, Step, PresentStep, ChangeStep, DeleteStep
    <3>11. CASE MigrateDefer(n)
      BY <3>11 DEF MigrateDefer, Retry, Worker, Step, PresentStep, ChangeStep, DeleteStep
    <3>12. CASE DisableVolume(n)
      BY <3>12 DEF DisableVolume, ServiceState, Worker, Step, PresentStep, ChangeStep, DeleteStep
    <3>13. CASE Release(n)
      BY <3>13, LockUpdate DEF Release, Worker, Step, PresentStep, ChangeStep, DeleteStep
    <3>14. CASE WriteDisabled(n)
      BY <3>14 DEF WriteDisabled, AfterDisabled, ServiceState, Worker, Step, PresentStep, ChangeStep, DeleteStep
    <3> QED BY <2>2, <3>1, <3>2, <3>3, <3>4, <3>5, <3>6, <3>7, <3>8, <3>9, <3>10, <3>11, <3>12, <3>13, <3>14 DEF ChangeHandler
  <2>3. ASSUME NEW n \in Node, DeleteHandler(n) PROVE TypeOK'
    <3>1. CASE DeleteStart(n)
      BY <3>1 DEF DeleteStart, Worker, Step, PresentStep, ChangeStep, DeleteStep
    <3>2. CASE DeleteNotRequired(n)
      BY <3>2 DEF DeleteNotRequired, LockType, NoLock, Worker, Step, PresentStep, ChangeStep, DeleteStep
    <3>3. CASE WaitReady(n)
      BY <3>3 DEF WaitReady, Worker, Step, PresentStep, ChangeStep, DeleteStep
    <3>4. CASE EnableVolume(n)
      BY <3>4 DEF EnableVolume, ServiceState, Worker, Step, PresentStep, ChangeStep, DeleteStep
    <3>5. CASE WaitUp(n)
      BY <3>5 DEF WaitUp, Worker, Step, PresentStep, ChangeStep, DeleteStep
    <3>6. CASE WaitUpTimeout(n)
      BY <3>6 DEF WaitUpTimeout, Retry, Worker, Step, PresentStep, ChangeStep, DeleteStep
    <3>7. CASE EnableCompute(n)
      BY <3>7 DEF EnableCompute, ServiceState, Worker, Step, PresentStep, ChangeStep, DeleteStep
    <3>8. CASE UnsetInner(n)
      BY <3>8, LockUpdate DEF UnsetInner, Worker, Step, PresentStep, ChangeStep, DeleteStep
    <3>9. CASE Reactivate(n)
      BY <3>9, LockUpdate DEF Reactivate, Worker, Step, PresentStep, ChangeStep, DeleteStep
    <3>10. CASE WriteEnabled(n)
      BY <3>10 DEF WriteEnabled, ServiceState, Worker, Step, PresentStep, ChangeStep, DeleteStep
    <3> QED BY <2>3, <3>1, <3>2, <3>3, <3>4, <3>5, <3>6, <3>7, <3>8, <3>9, <3>10 DEF DeleteHandler
  <2>4. ASSUME NEW n \in Node, NodeChange(n) PROVE TypeOK'
    BY <2>4 DEF NodeChange, LockType, NoLock, Worker, Step, PresentStep
  <2>5. CASE Environment
    <3> USE DEF Fault, ResumeEvents
    <3>1. CASE Upgrade
      BY <3>1 DEF Upgrade, Step
    <3>2. CASE DeleteOsdpl
      BY <3>2 DEF DeleteOsdpl
    <3>3. ASSUME NEW w \in Worker, Restart(w) PROVE TypeOK'
      BY <3>3 DEF Restart, Step
    <3>4. ASSUME NEW n \in Node, ApiFailure(n) PROVE TypeOK'
      BY <3>4 DEF ApiFailure, Retry, Worker, Step
    <3>5. ASSUME NEW n \in Node, NodeDown(n) \/ NodeUp(n) PROVE TypeOK'
      <4>1. CASE NodeDown(n)
        BY <4>1 DEF NodeDown
      <4>2. CASE NodeUp(n)
        BY <4>2 DEF NodeUp
      <4> QED BY <3>5, <4>1, <4>2
    <3>6. ASSUME NEW n \in Node, CreateNmr(n) PROVE TypeOK'
      BY <3>6 DEF CreateNmr, Worker
    <3>7. ASSUME NEW n \in Node, DeleteNmr(n) PROVE TypeOK'
      BY <3>7 DEF DeleteNmr
    <3>8. ASSUME NEW n \in Node, NEW w \in Worker, UpdateObject(w, n) PROVE TypeOK'
      BY <3>8 DEF UpdateObject
    <3>9. ASSUME NEW n \in Node, StartServer(n) \/ ServerGone(n) PROVE TypeOK'
      <4>1. CASE StartServer(n)
        BY <4>1 DEF StartServer
      <4>2. CASE ServerGone(n)
        BY <4>2 DEF ServerGone
      <4> QED BY <3>9, <4>1, <4>2
    <3>10. ASSUME NEW n \in Node, OperatorDisable(n) \/ OperatorEnable(n) PROVE TypeOK'
      <4>1. CASE OperatorDisable(n)
        BY <4>1 DEF OperatorDisable, ServiceState
      <4>2. CASE OperatorEnable(n)
        BY <4>2 DEF OperatorEnable, ServiceState
      <4> QED BY <3>10, <4>1, <4>2
    <3> QED BY <2>5, <3>1, <3>2, <3>3, <3>4, <3>5, <3>6, <3>7, <3>8, <3>9, <3>10 DEF Environment
  <2>6. CASE UNCHANGED vars
    BY <2>6 DEF vars
  <2> QED BY <2>1, <2>2, <2>3, <2>4, <2>5, <2>6 DEF Next, NmrWorker, NodeWorker, Worker
<1> QED BY <1>1, <1>2, PTL DEF Spec

-----------------------------------------------------------------------------
(* The slots. *)

\* Steps that leave the inner states alone leave the slots alone.
LEMMA SameSlots ==
  ASSUME \A n \in Node : lock'[n].inner = lock[n].inner
  PROVE  /\ \A n \in Node : is_maintenance(n)' <=> is_maintenance(n)
         /\ \A r \in Role : maintenance_locks(r)' = maintenance_locks(r)
         /\ can_handle_nmr' <=> can_handle_nmr
         /\ LimitInv' <=> LimitInv
<1>1. \A n \in Node : is_maintenance(n)' <=> is_maintenance(n)
  BY DEF is_maintenance
<1>2. \A r \in Role : maintenance_locks(r)' = maintenance_locks(r)
  BY <1>1 DEF maintenance_locks
<1>3. can_handle_nmr' <=> can_handle_nmr
  BY <1>2 DEF can_handle_nmr
<1>4. LimitInv' <=> LimitInv
  BY <1>2 DEF LimitInv
<1> QED BY <1>1, <1>2, <1>3, <1>4

\* Taking a slot when every role has room respects the limits; giving one
\* back frees room.
LEMMA OneMoreSlot ==
  ASSUME TypeOK, can_handle_nmr, NEW n \in Node,
         lock' = [lock EXCEPT ![n].inner = "active"]
  PROVE  LimitInv'
<1> SUFFICES ASSUME NEW r \in Role
             PROVE  Cardinality(maintenance_locks(r)') <= MaxParallel[r]
  BY DEF LimitInv
<1> USE NodeAssumption
<1> DEFINE S == maintenance_locks(r)
<1>1. IsFiniteSet(S) /\ Cardinality(S) \in Nat
  BY FS_Subset, FS_CardinalityType DEF maintenance_locks
<1>2. Cardinality(S) < MaxParallel[r]
  BY DEF can_handle_nmr
<1>3. maintenance_locks(r)' = S \/ maintenance_locks(r)' = S \cup {n}
  BY DEF maintenance_locks, is_maintenance, TypeOK, LockType
<1>4. MaxParallel[r] \in Nat
  OBVIOUS
<1> HIDE DEF S
<1>5. Cardinality(S \cup {n}) = IF n \in S THEN Cardinality(S) ELSE Cardinality(S) + 1
  BY <1>1, FS_AddElement, Zenon
<1> QED BY <1>1, <1>2, <1>3, <1>4, <1>5

\* unset of the inner state by the delete handler frees room in every role
\* and takes no slot from any other node.
LEMMA OneSlotLess ==
  ASSUME TypeOK, LimitInv, NEW n \in Node,
         lock' = [lock EXCEPT ![n].inner = "inactive"]
  PROVE  /\ LimitInv'
         /\ can_handle_nmr => can_handle_nmr'
<1> USE NodeAssumption
<1>1. ASSUME NEW r \in Role
      PROVE  /\ Cardinality(maintenance_locks(r)') \in Nat
             /\ Cardinality(maintenance_locks(r)) \in Nat
             /\ Cardinality(maintenance_locks(r)') <= Cardinality(maintenance_locks(r))
  <2>1. maintenance_locks(r)' \subseteq maintenance_locks(r)
    BY DEF maintenance_locks, is_maintenance, TypeOK, LockType
  <2>2. IsFiniteSet(maintenance_locks(r))
    BY FS_Subset DEF maintenance_locks
  <2> QED BY <2>1, <2>2, FS_Subset, FS_CardinalityType
<1>2. LimitInv'
  BY <1>1 DEF LimitInv
<1>3. can_handle_nmr => can_handle_nmr'
  BY <1>1 DEF can_handle_nmr
<1> QED BY <1>2, <1>3

\* The inductive invariant of the slots: no step of a worker, no crash,
\* upgrade or act of the environment takes a slot without room for it.
THEOREM SlotsInductive == Spec => []SlotInv
<1> USE NodeAssumption, BoundAssumption
<1>1. Init => SlotInv
  <2> SUFFICES ASSUME Init PROVE SlotInv
    OBVIOUS
  <2>1. \A n \in Node : ~is_maintenance(n)
    BY DEF Init, is_maintenance, NoLock
  <2>2. \A r \in Role : maintenance_locks(r) = {}
    BY <2>1 DEF maintenance_locks
  <2>3. LimitInv
    BY <2>2, FS_EmptySet DEF LimitInv
  <2> QED BY <2>3 DEF Init, SlotInv, AbsentInv, MutexInv, HoldInv, Released, NoLock,
                      HoldingStep, DeleteStep, Worker, required_for_node
<1>2. TypeOK /\ SlotInv /\ [Next]_vars => SlotInv'
  <2> SUFFICES ASSUME TypeOK, SlotInv, [Next]_vars PROVE SlotInv'
    OBVIOUS
  <2> USE DEF TypeOK, SlotInv, Goto, lcmVars, Worker, Released, HoldingStep, DeleteStep
  <2>1. ASSUME NEW w \in Worker, NEW n \in Node, Present(w, n) PROVE SlotInv'
    <3>1. CASE PresentObject(w, n)
      <4>1. \A m \in Node : lock'[m].inner = lock[m].inner
        BY <3>1 DEF PresentObject, LockType, NoLock, AbsentInv, HoldInv, is_maintenance
      <4>2. AbsentInv'
        <5>1. required_for_node(n) /\ lock'[n].present
          BY <3>1 DEF PresentObject, AfterObject, AfterPresent, AbsentInv, LockType, NoLock
        <5>2. \A m \in Node \ {n} :
                 lock'[m] = lock[m] /\ nmr'[m] = nmr[m] /\ \A x \in Worker : pc'[x][m] = pc[x][m]
          BY <3>1 DEF PresentObject, AfterObject, AfterPresent
        <5>3. nmr'[n] = "none" => pc'["nmr"][n] = "idle" /\ lock'[n].state = "active"
          BY <3>1 DEF PresentObject, AfterObject, AfterPresent, AbsentInv, LockType, NoLock
        <5> QED BY <5>1, <5>2, <5>3 DEF AbsentInv
      <4>3. MutexInv'
        BY <3>1, <4>1, SameSlots DEF PresentObject, AfterObject, AfterPresent, MutexInv
      <4>4. HoldInv'
        BY <3>1, <4>1, SameSlots DEF PresentObject, AfterObject, AfterPresent, AbsentInv, HoldInv, LockType, NoLock
      <4> QED BY <4>1, <4>2, <4>3, <4>4, SameSlots
    <3>2. CASE PresentGetRelease(w, n)
      <4>1. \A m \in Node : lock'[m].inner = lock[m].inner
        BY <3>2 DEF PresentGetRelease, LockType, NoLock, AbsentInv, HoldInv, is_maintenance
      <4> QED BY <3>2, <4>1, SameSlots DEF PresentGetRelease, AfterPresent, AbsentInv, MutexInv, HoldInv
    <3>3. CASE PresentSetState(w, n)
      <4>1. \A m \in Node : lock'[m].inner = lock[m].inner
        BY <3>3 DEF PresentSetState, LockType, NoLock, AbsentInv, HoldInv, is_maintenance
      <4>2. AbsentInv'
        <5>1. required_for_node(n) /\ lock'[n].present
          BY <3>3 DEF PresentSetState, AbsentInv, LockType, NoLock
        <5>2. \A m \in Node \ {n} :
                 lock'[m] = lock[m] /\ nmr'[m] = nmr[m] /\ \A x \in Worker : pc'[x][m] = pc[x][m]
          BY <3>3 DEF PresentSetState
        <5>3. nmr'[n] = "none" => pc'["nmr"][n] = "idle" /\ lock'[n].state = "active"
          BY <3>3 DEF PresentSetState, AbsentInv, LockType, NoLock
        <5> QED BY <5>1, <5>2, <5>3 DEF AbsentInv
      <4>3. MutexInv'
        BY <3>3, <4>1, SameSlots DEF PresentSetState, MutexInv
      <4>4. HoldInv'
        BY <3>3, <4>1, SameSlots DEF PresentSetState, AbsentInv, HoldInv, LockType, NoLock
      <4> QED BY <4>1, <4>2, <4>3, <4>4, SameSlots
    <3>5. CASE PresentSetActive(w, n)
      <4>1. \A m \in Node : lock'[m].inner = lock[m].inner
        BY <3>5 DEF PresentSetActive, AfterObject, AfterPresent, LockType, NoLock, AbsentInv, HoldInv, is_maintenance
      <4>2. AbsentInv'
        <5>1. required_for_node(n) /\ lock'[n].present
          BY <3>5 DEF PresentSetActive, AfterObject, AfterPresent, AbsentInv, LockType, NoLock
        <5>2. \A m \in Node \ {n} :
                 lock'[m] = lock[m] /\ nmr'[m] = nmr[m] /\ \A x \in Worker : pc'[x][m] = pc[x][m]
          BY <3>5 DEF PresentSetActive, AfterObject, AfterPresent
        <5>3. nmr'[n] = "none" => pc'["nmr"][n] = "idle" /\ lock'[n].state = "active"
          BY <3>5 DEF PresentSetActive, AfterObject, AfterPresent, AbsentInv, LockType, NoLock
        <5> QED BY <5>1, <5>2, <5>3 DEF AbsentInv
      <4>3. MutexInv'
        BY <3>5, <4>1, SameSlots DEF PresentSetActive, AfterObject, AfterPresent, MutexInv
      <4>4. HoldInv'
        BY <3>5, <4>1, SameSlots DEF PresentSetActive, AfterObject, AfterPresent, AbsentInv, HoldInv, LockType, NoLock
      <4> QED BY <4>1, <4>2, <4>3, <4>4, SameSlots
    <3>4. CASE PresentSetRelease(w, n)
      <4>1. \A m \in Node : lock'[m].inner = lock[m].inner
        BY <3>4 DEF PresentSetRelease, LockType, NoLock, AbsentInv, HoldInv, is_maintenance
      <4>2. AbsentInv'
        <5>1. required_for_node(n) /\ lock'[n].present
          BY <3>4 DEF PresentSetRelease, AfterPresent, AbsentInv, LockType, NoLock
        <5>2. \A m \in Node \ {n} :
                 lock'[m] = lock[m] /\ nmr'[m] = nmr[m] /\ \A x \in Worker : pc'[x][m] = pc[x][m]
          BY <3>4 DEF PresentSetRelease, AfterPresent
        <5>3. nmr'[n] = "none" => pc'["nmr"][n] = "idle" /\ lock'[n].state = "active"
          BY <3>4 DEF PresentSetRelease, AfterPresent, AbsentInv, LockType, NoLock
        <5> QED BY <5>1, <5>2, <5>3 DEF AbsentInv
      <4>3. MutexInv'
        BY <3>4, <4>1, SameSlots DEF PresentSetRelease, AfterPresent, MutexInv
      <4>4. HoldInv'
        BY <3>4, <4>1, SameSlots DEF PresentSetRelease, AfterPresent, AbsentInv, HoldInv, LockType, NoLock
      <4> QED BY <4>1, <4>2, <4>3, <4>4, SameSlots
    <3> QED BY <2>1, <3>1, <3>2, <3>3, <3>4, <3>5 DEF Present
  <2>2. ASSUME NEW n \in Node, ChangeHandler(n) PROVE SlotInv'
    <3>1. CASE ChangeStart(n)
      <4>1. \A m \in Node : lock'[m].inner = lock[m].inner
        BY <3>1 DEF ChangeStart, LockType, NoLock, AbsentInv, HoldInv, is_maintenance
      <4> QED BY <3>1, <4>1, SameSlots DEF ChangeStart, AbsentInv, MutexInv, HoldInv
    <3>2. CASE AcquireCheck(n)
      <4>1. \A m \in Node : lock'[m].inner = lock[m].inner
        BY <3>2 DEF AcquireCheck, LockType, NoLock, AbsentInv, HoldInv, is_maintenance
      <4> QED BY <3>2, <4>1, SameSlots DEF AcquireCheck, AbsentInv, MutexInv, HoldInv
    <3>3. CASE AcquireDefer(n)
      <4>1. \A m \in Node : lock'[m].inner = lock[m].inner
        BY <3>3 DEF AcquireDefer, Retry, LockType, NoLock, AbsentInv, HoldInv, is_maintenance
      <4> QED BY <3>3, <4>1, SameSlots DEF AcquireDefer, Retry, AbsentInv, MutexInv, HoldInv
    <3>4. CASE AcquireSetInner(n)
      <4> USE <3>4 DEF AcquireSetInner
      <4>1. mutex = n /\ (is_maintenance(n) \/ can_handle_nmr)
        BY DEF MutexInv
      <4>2. \A m \in Node : m # n => lock'[m] = lock[m] /\ pc'["nmr"][m] # "setInner"
        BY <4>1 DEF MutexInv
      <4>3. is_maintenance(n)'
        BY DEF is_maintenance, LockType
      <4>4. LimitInv'
        <5>1. CASE is_maintenance(n)
          BY <5>1, SameSlots DEF is_maintenance, LockType
        <5>2. CASE can_handle_nmr
          BY <5>2, OneMoreSlot
        <5> QED BY <4>1, <5>1, <5>2
      <4>5. AbsentInv'
        <5>1. required_for_node(n) /\ lock'[n].present
          BY DEF AbsentInv, LockType, NoLock
        <5>2. \A m \in Node \ {n} :
                 lock'[m] = lock[m] /\ nmr'[m] = nmr[m] /\ \A x \in Worker : pc'[x][m] = pc[x][m]
          OBVIOUS
        <5>3. nmr'[n] = "none" => pc'["nmr"][n] = "idle" /\ lock'[n].state = "active"
          BY DEF AbsentInv, LockType, NoLock
        <5> QED BY <5>1, <5>2, <5>3 DEF AbsentInv
      <4>6. MutexInv'
        BY <4>2 DEF MutexInv
      <4>7. HoldInv'
        BY <4>2, <4>3 DEF HoldInv, is_maintenance, LockType
      <4> QED BY <4>4, <4>5, <4>6, <4>7
    <3>5. CASE CheckOsdpl(n)
      <4>1. \A m \in Node : lock'[m].inner = lock[m].inner
        BY <3>5 DEF CheckOsdpl, LockType, NoLock, AbsentInv, HoldInv, is_maintenance
      <4> QED BY <3>5, <4>1, SameSlots DEF CheckOsdpl, AbsentInv, MutexInv, HoldInv
    <3>6. CASE ServicesAccept(n)
      <4>1. \A m \in Node : lock'[m].inner = lock[m].inner
        BY <3>6 DEF ServicesAccept, LockType, NoLock, AbsentInv, HoldInv, is_maintenance
      <4> QED BY <3>6, <4>1, SameSlots DEF ServicesAccept, AbsentInv, MutexInv, HoldInv
    <3>7. CASE ServicesDefer(n)
      <4>1. \A m \in Node : lock'[m].inner = lock[m].inner
        BY <3>7 DEF ServicesDefer, Retry, LockType, NoLock, AbsentInv, HoldInv, is_maintenance
      <4> QED BY <3>7, <4>1, SameSlots DEF ServicesDefer, Retry, AbsentInv, MutexInv, HoldInv
    <3>8. CASE Reassert(n)
      <4>1. \A m \in Node : lock'[m].inner = lock[m].inner
        BY <3>8 DEF Reassert, LockType, NoLock, AbsentInv, HoldInv, is_maintenance
      <4>2. AbsentInv'
        <5>1. required_for_node(n) /\ lock'[n].present
          BY <3>8 DEF Reassert, AbsentInv, LockType, NoLock
        <5>2. \A m \in Node \ {n} :
                 lock'[m] = lock[m] /\ nmr'[m] = nmr[m] /\ \A x \in Worker : pc'[x][m] = pc[x][m]
          BY <3>8 DEF Reassert
        <5>3. nmr'[n] = "none" => pc'["nmr"][n] = "idle" /\ lock'[n].state = "active"
          BY <3>8 DEF Reassert, AbsentInv, LockType, NoLock
        <5> QED BY <5>1, <5>2, <5>3 DEF AbsentInv
      <4>3. MutexInv'
        BY <3>8, <4>1, SameSlots DEF Reassert, MutexInv
      <4>4. HoldInv'
        BY <3>8, <4>1, SameSlots DEF Reassert, AbsentInv, HoldInv, LockType, NoLock
      <4> QED BY <4>1, <4>2, <4>3, <4>4, SameSlots
    <3>9. CASE DisableCompute(n)
      <4>1. \A m \in Node : lock'[m].inner = lock[m].inner
        BY <3>9 DEF DisableCompute, LockType, NoLock, AbsentInv, HoldInv, is_maintenance
      <4> QED BY <3>9, <4>1, SameSlots DEF DisableCompute, AfterDisabled, AbsentInv, MutexInv, HoldInv
    <3>10. CASE Migrated(n)
      <4>1. \A m \in Node : lock'[m].inner = lock[m].inner
        BY <3>10 DEF Migrated, LockType, NoLock, AbsentInv, HoldInv, is_maintenance
      <4> QED BY <3>10, <4>1, SameSlots DEF Migrated, AbsentInv, MutexInv, HoldInv
    <3>11. CASE MigrateDefer(n)
      <4>1. \A m \in Node : lock'[m].inner = lock[m].inner
        BY <3>11 DEF MigrateDefer, Retry, LockType, NoLock, AbsentInv, HoldInv, is_maintenance
      <4> QED BY <3>11, <4>1, SameSlots DEF MigrateDefer, Retry, AbsentInv, MutexInv, HoldInv
    <3>12. CASE DisableVolume(n)
      <4>1. \A m \in Node : lock'[m].inner = lock[m].inner
        BY <3>12 DEF DisableVolume, LockType, NoLock, AbsentInv, HoldInv, is_maintenance
      <4> QED BY <3>12, <4>1, SameSlots DEF DisableVolume, AbsentInv, MutexInv, HoldInv
    <3>13. CASE Release(n)
      <4>1. \A m \in Node : lock'[m].inner = lock[m].inner
        BY <3>13 DEF Release, LockType, NoLock, AbsentInv, HoldInv, is_maintenance
      <4>2. AbsentInv'
        <5>1. required_for_node(n) /\ lock'[n].present
          BY <3>13 DEF Release, AbsentInv, LockType, NoLock
        <5>2. \A m \in Node \ {n} :
                 lock'[m] = lock[m] /\ nmr'[m] = nmr[m] /\ \A x \in Worker : pc'[x][m] = pc[x][m]
          BY <3>13 DEF Release
        <5>3. nmr'[n] = "none" => pc'["nmr"][n] = "idle" /\ lock'[n].state = "active"
          BY <3>13 DEF Release, AbsentInv, LockType, NoLock
        <5> QED BY <5>1, <5>2, <5>3 DEF AbsentInv
      <4>3. MutexInv'
        BY <3>13, <4>1, SameSlots DEF Release, MutexInv
      <4>4. HoldInv'
        BY <3>13, <4>1, SameSlots DEF Release, AbsentInv, HoldInv, LockType, NoLock
      <4> QED BY <4>1, <4>2, <4>3, <4>4, SameSlots
    <3>14. CASE WriteDisabled(n)
      <4>1. \A m \in Node : lock'[m].inner = lock[m].inner
        BY <3>14 DEF WriteDisabled, LockType, NoLock, AbsentInv, HoldInv, is_maintenance
      <4> QED BY <3>14, <4>1, SameSlots DEF WriteDisabled, AfterDisabled, AbsentInv, MutexInv, HoldInv
    <3> QED BY <2>2, <3>1, <3>2, <3>3, <3>4, <3>5, <3>6, <3>7, <3>8, <3>9, <3>10, <3>11, <3>12, <3>13, <3>14 DEF ChangeHandler
  <2>3. ASSUME NEW n \in Node, DeleteHandler(n) PROVE SlotInv'
    <3>1. CASE DeleteStart(n)
      <4>1. \A m \in Node : lock'[m].inner = lock[m].inner
        BY <3>1 DEF DeleteStart, LockType, NoLock, AbsentInv, HoldInv, is_maintenance
      <4> QED BY <3>1, <4>1, SameSlots DEF DeleteStart, AbsentInv, MutexInv, HoldInv
    <3>2. CASE DeleteNotRequired(n)
      <4>1. lock[n] = NoLock
        BY <3>2 DEF DeleteNotRequired, AbsentInv
      <4>2. lock' = lock
        BY <3>2, <4>1 DEF DeleteNotRequired
      <4>3. /\ \A m \in Node : is_maintenance(m)' <=> is_maintenance(m)
            /\ can_handle_nmr' <=> can_handle_nmr
            /\ LimitInv'
        BY <4>2, SameSlots
      <4>4. lock[n].state = "active"
        BY <4>1 DEF NoLock
      <4>5. AbsentInv'
        BY <3>2, <4>2, <4>4 DEF DeleteNotRequired, AbsentInv
      <4>6. MutexInv' /\ HoldInv'
        BY <3>2, <4>2, <4>3 DEF DeleteNotRequired, MutexInv, HoldInv
      <4> QED BY <4>3, <4>5, <4>6
    <3>3. CASE WaitReady(n)
      <4>1. \A m \in Node : lock'[m].inner = lock[m].inner
        BY <3>3 DEF WaitReady, LockType, NoLock, AbsentInv, HoldInv, is_maintenance
      <4> QED BY <3>3, <4>1, SameSlots DEF WaitReady, AbsentInv, MutexInv, HoldInv
    <3>4. CASE EnableVolume(n)
      <4>1. \A m \in Node : lock'[m].inner = lock[m].inner
        BY <3>4 DEF EnableVolume, LockType, NoLock, AbsentInv, HoldInv, is_maintenance
      <4> QED BY <3>4, <4>1, SameSlots DEF EnableVolume, AbsentInv, MutexInv, HoldInv
    <3>5. CASE WaitUp(n)
      <4>1. \A m \in Node : lock'[m].inner = lock[m].inner
        BY <3>5 DEF WaitUp, LockType, NoLock, AbsentInv, HoldInv, is_maintenance
      <4> QED BY <3>5, <4>1, SameSlots DEF WaitUp, AbsentInv, MutexInv, HoldInv
    <3>6. CASE WaitUpTimeout(n)
      <4>1. \A m \in Node : lock'[m].inner = lock[m].inner
        BY <3>6 DEF WaitUpTimeout, Retry, LockType, NoLock, AbsentInv, HoldInv, is_maintenance
      <4> QED BY <3>6, <4>1, SameSlots DEF WaitUpTimeout, Retry, AbsentInv, MutexInv, HoldInv
    <3>7. CASE EnableCompute(n)
      <4>1. \A m \in Node : lock'[m].inner = lock[m].inner
        BY <3>7 DEF EnableCompute, LockType, NoLock, AbsentInv, HoldInv, is_maintenance
      <4> QED BY <3>7, <4>1, SameSlots DEF EnableCompute, AbsentInv, MutexInv, HoldInv
    <3>8. CASE UnsetInner(n)
      <4> USE <3>8 DEF UnsetInner
      <4>1. LimitInv' /\ (can_handle_nmr => can_handle_nmr')
        BY OneSlotLess
      <4>2. \A m \in Node : m # n => lock'[m] = lock[m] /\ (is_maintenance(m)' <=> is_maintenance(m))
        BY DEF is_maintenance
      <4>3. AbsentInv'
        <5>1. required_for_node(n) /\ lock'[n].present
          BY DEF AbsentInv, LockType, NoLock
        <5>2. \A m \in Node \ {n} :
                 lock'[m] = lock[m] /\ nmr'[m] = nmr[m] /\ \A x \in Worker : pc'[x][m] = pc[x][m]
          OBVIOUS
        <5>3. nmr'[n] = "none" => pc'["nmr"][n] = "idle" /\ lock'[n].state = "active"
          BY DEF AbsentInv, LockType, NoLock
        <5> QED BY <5>1, <5>2, <5>3 DEF AbsentInv
      <4>4. MutexInv'
        BY <4>1, <4>2 DEF MutexInv
      <4>5. HoldInv'
        BY <4>2 DEF HoldInv
      <4> QED BY <4>1, <4>3, <4>4, <4>5
    <3>9. CASE Reactivate(n)
      <4>1. \A m \in Node : lock'[m].inner = lock[m].inner
        BY <3>9 DEF Reactivate, LockType, NoLock, AbsentInv, HoldInv, is_maintenance
      <4>2. AbsentInv'
        <5>1. required_for_node(n) /\ lock'[n].present
          BY <3>9 DEF Reactivate, AbsentInv, LockType, NoLock
        <5>2. \A m \in Node \ {n} :
                 lock'[m] = lock[m] /\ nmr'[m] = nmr[m] /\ \A x \in Worker : pc'[x][m] = pc[x][m]
          BY <3>9 DEF Reactivate
        <5>3. nmr'[n] = "none" => pc'["nmr"][n] = "idle" /\ lock'[n].state = "active"
          BY <3>9 DEF Reactivate, AbsentInv, LockType, NoLock
        <5> QED BY <5>1, <5>2, <5>3 DEF AbsentInv
      <4>3. MutexInv'
        BY <3>9, <4>1, SameSlots DEF Reactivate, MutexInv
      <4>4. HoldInv'
        BY <3>9, <4>1, SameSlots DEF Reactivate, AbsentInv, HoldInv, LockType, NoLock
      <4> QED BY <4>1, <4>2, <4>3, <4>4, SameSlots
    <3>10. CASE WriteEnabled(n)
      <4>1. \A m \in Node : lock'[m].inner = lock[m].inner
        BY <3>10 DEF WriteEnabled, LockType, NoLock, AbsentInv, HoldInv, is_maintenance
      <4> QED BY <3>10, <4>1, SameSlots DEF WriteEnabled, AbsentInv, MutexInv, HoldInv
    <3> QED BY <2>3, <3>1, <3>2, <3>3, <3>4, <3>5, <3>6, <3>7, <3>8, <3>9, <3>10 DEF DeleteHandler
  <2>4. ASSUME NEW n \in Node, NodeChange(n) PROVE SlotInv'
    <3>1. \A m \in Node : lock'[m].inner = lock[m].inner
      BY <2>4 DEF NodeChange, AbsentInv
    <3> QED BY <2>4, <3>1, SameSlots DEF NodeChange, AbsentInv, MutexInv, HoldInv
  <2>5. CASE Environment
    <3>0. UNCHANGED lock => /\ \A n \in Node : is_maintenance(n)' <=> is_maintenance(n)
                            /\ can_handle_nmr' <=> can_handle_nmr
                            /\ LimitInv'
      BY SameSlots
    <3>1. CASE UNCHANGED <<lock, nmr, pc, mutex>>
      BY <3>0, <3>1 DEF AbsentInv, MutexInv, HoldInv
    <3>2. CASE Upgrade
      BY <3>0, <3>2 DEF Upgrade, AbsentInv, MutexInv, HoldInv
    <3>3. ASSUME NEW w \in Worker, Restart(w) PROVE SlotInv'
      BY <3>0, <3>3 DEF Restart, AbsentInv, MutexInv, HoldInv
    <3>4. ASSUME NEW n \in Node, ApiFailure(n) PROVE SlotInv'
      BY <3>0, <3>4 DEF ApiFailure, Retry, AbsentInv, MutexInv, HoldInv
    <3>5. ASSUME NEW n \in Node, CreateNmr(n) PROVE SlotInv'
      BY <3>0, <3>5 DEF CreateNmr, AbsentInv, MutexInv, HoldInv
    <3>6. ASSUME NEW n \in Node, DeleteNmr(n) PROVE SlotInv'
      BY <3>0, <3>6 DEF DeleteNmr, AbsentInv, MutexInv, HoldInv
    <3> QED BY <2>5, <3>1, <3>2, <3>3, <3>4, <3>5, <3>6
            DEF Environment, DeleteOsdpl, NodeDown, NodeUp, UpdateObject,
                StartServer, ServerGone, OperatorDisable, OperatorEnable
  <2>6. CASE UNCHANGED vars
    BY <2>6, SameSlots DEF vars, AbsentInv, MutexInv, HoldInv
  <2> QED BY <2>1, <2>2, <2>3, <2>4, <2>5, <2>6 DEF Next, NmrWorker, NodeWorker
<1> QED BY <1>1, <1>2, TypeCorrect, PTL DEF Spec

\* The configured limits hold for the nodes handed over to the LCM: each
\* of them has a slot.
THEOREM LimitsRespected == Spec => []ReleasedWithinLimits
<1> USE NodeAssumption
<1>1. SlotInv => ReleasedWithinLimits
  <2> SUFFICES ASSUME SlotInv, NEW r \in Role
               PROVE  Cardinality({n \in Node : Released(n) /\ r \in NodeRoles[n]})
                        <= MaxParallel[r]
    BY DEF ReleasedWithinLimits
  <2> DEFINE R == {n \in Node : Released(n) /\ r \in NodeRoles[n]}
  <2>1. R \subseteq maintenance_locks(r)
    BY DEF SlotInv, HoldInv, maintenance_locks
  <2>2. IsFiniteSet(maintenance_locks(r))
    BY FS_Subset DEF maintenance_locks
  <2>3. /\ Cardinality(R) \in Nat /\ Cardinality(maintenance_locks(r)) \in Nat
        /\ Cardinality(R) <= Cardinality(maintenance_locks(r))
    BY <2>1, <2>2, FS_Subset, FS_CardinalityType
  <2>4. Cardinality(maintenance_locks(r)) <= MaxParallel[r] /\ MaxParallel[r] \in Nat
    BY DEF SlotInv, LimitInv
  <2> HIDE DEF R
  <2>5. Cardinality(R) <= MaxParallel[r]
    BY <2>3, <2>4
  <2> QED BY <2>5 DEF R
<1> QED BY <1>1, SlotsInductive, PTL

-----------------------------------------------------------------------------
(* Draining a node, and putting it back to work. *)

\* A node is released only after its services stopped taking work and its
\* running servers are gone; the retries, crashes and upgrades in between
\* do not skip a step.
THEOREM DrainedBeforeRelease == Spec => []ReleasedIsDrained
<1> USE NodeAssumption, BoundAssumption
<1>1. Init => DrainInv
  BY DEF Init, DrainInv
<1>2. TypeOK /\ SlotInv /\ DrainInv /\ [Next]_vars => DrainInv'
  <2> SUFFICES ASSUME TypeOK, SlotInv, DrainInv, [Next]_vars PROVE DrainInv'
    OBVIOUS
  <2> USE DEF TypeOK, DrainInv, NoNewWork, Emptied, NoNewVolumes, Goto, lcmVars, openstackVars, Worker
  <2>1. ASSUME NEW w \in Worker, NEW n \in Node, Present(w, n) PROVE DrainInv'
    <3>1. CASE PresentObject(w, n)
      BY <3>1 DEF PresentObject, AfterObject, AfterPresent, SlotInv, AbsentInv, LockType, NoLock
    <3>2. CASE PresentGetRelease(w, n)
      BY <3>2 DEF PresentGetRelease, AfterPresent
    <3>3. CASE PresentSetState(w, n)
      BY <3>3 DEF PresentSetState, AfterPresent, LockType
    <3>5. CASE PresentSetActive(w, n)
      BY <3>5 DEF PresentSetActive, AfterObject, AfterPresent, LockType
    <3>4. CASE PresentSetRelease(w, n)
      BY <3>4 DEF PresentSetRelease, AfterPresent, LockType
    <3> QED BY <2>1, <3>1, <3>2, <3>3, <3>4, <3>5 DEF Present
  <2>2. ASSUME NEW n \in Node, ChangeHandler(n) PROVE DrainInv'
    <3>1. CASE ChangeStart(n)
      BY <3>1 DEF ChangeStart
    <3>2. CASE AcquireCheck(n)
      BY <3>2 DEF AcquireCheck
    <3>3. CASE AcquireDefer(n)
      BY <3>3 DEF AcquireDefer, Retry
    <3>4. CASE AcquireSetInner(n)
      BY <3>4 DEF AcquireSetInner, LockType
    <3>5. CASE CheckOsdpl(n)
      BY <3>5 DEF CheckOsdpl, LockType
    <3>6. CASE ServicesAccept(n)
      BY <3>6 DEF ServicesAccept
    <3>7. CASE ServicesDefer(n)
      BY <3>7 DEF ServicesDefer, Retry
    <3>8. CASE Reassert(n)
      BY <3>8 DEF Reassert, LockType
    <3>9. CASE DisableCompute(n)
      BY <3>9 DEF DisableCompute, AfterDisabled
    <3>10. CASE Migrated(n)
      BY <3>10 DEF Migrated
    <3>11. CASE MigrateDefer(n)
      BY <3>11 DEF MigrateDefer, Retry
    <3>12. CASE DisableVolume(n)
      BY <3>12 DEF DisableVolume, ServiceState
    <3>13. CASE Release(n)
      BY <3>13 DEF Release, LockType
    <3>14. CASE WriteDisabled(n)
      BY <3>14 DEF WriteDisabled, AfterDisabled
    <3> QED BY <2>2, <3>1, <3>2, <3>3, <3>4, <3>5, <3>6, <3>7, <3>8, <3>9, <3>10, <3>11, <3>12, <3>13, <3>14 DEF ChangeHandler
  <2>3. ASSUME NEW n \in Node, DeleteHandler(n) PROVE DrainInv'
    <3>1. CASE DeleteStart(n)
      BY <3>1 DEF DeleteStart
    <3>2. CASE DeleteNotRequired(n)
      BY <3>2 DEF DeleteNotRequired
    <3>3. CASE WaitReady(n)
      BY <3>3 DEF WaitReady
    <3>4. CASE EnableVolume(n)
      BY <3>4 DEF EnableVolume, SlotInv, HoldInv, DeleteStep
    <3>5. CASE WaitUp(n)
      BY <3>5 DEF WaitUp
    <3>6. CASE WaitUpTimeout(n)
      BY <3>6 DEF WaitUpTimeout, Retry
    <3>7. CASE EnableCompute(n)
      BY <3>7 DEF EnableCompute, SlotInv, HoldInv, DeleteStep
    <3>8. CASE UnsetInner(n)
      BY <3>8 DEF UnsetInner, LockType
    <3>9. CASE Reactivate(n)
      BY <3>9 DEF Reactivate, LockType
    <3>10. CASE WriteEnabled(n)
      BY <3>10 DEF WriteEnabled, SlotInv, HoldInv, DeleteStep
    <3> QED BY <2>3, <3>1, <3>2, <3>3, <3>4, <3>5, <3>6, <3>7, <3>8, <3>9, <3>10 DEF DeleteHandler
  <2>4. ASSUME NEW n \in Node, NodeChange(n) PROVE DrainInv'
    BY <2>4 DEF NodeChange, NoLock
  <2>5. CASE Environment
    <3>1. CASE Upgrade
      BY <3>1 DEF Upgrade
    <3>2. CASE DeleteOsdpl
      BY <3>2 DEF DeleteOsdpl
    <3>3. ASSUME NEW w \in Worker, Restart(w) PROVE DrainInv'
      BY <3>3 DEF Restart
    <3>4. ASSUME NEW n \in Node, ApiFailure(n) PROVE DrainInv'
      BY <3>4 DEF ApiFailure, Retry
    <3>5. ASSUME NEW n \in Node, NodeDown(n) PROVE DrainInv'
      BY <3>5 DEF NodeDown
    <3>6. ASSUME NEW n \in Node, NodeUp(n) PROVE DrainInv'
      BY <3>6 DEF NodeUp
    <3>7. ASSUME NEW n \in Node, CreateNmr(n) PROVE DrainInv'
      BY <3>7 DEF CreateNmr, SlotInv, AbsentInv
    <3>8. ASSUME NEW n \in Node, DeleteNmr(n) PROVE DrainInv'
      BY <3>8 DEF DeleteNmr
    <3>9. ASSUME NEW n \in Node, StartServer(n) PROVE DrainInv'
      BY <3>9 DEF StartServer
    <3>10. ASSUME NEW n \in Node, ServerGone(n) PROVE DrainInv'
      BY <3>10 DEF ServerGone
    <3>11. ASSUME NEW n \in Node, OperatorDisable(n) PROVE DrainInv'
      BY <3>11 DEF OperatorDisable
    <3>12. ASSUME NEW n \in Node, OperatorEnable(n) PROVE DrainInv'
      BY <3>12 DEF OperatorEnable
    <3>13. ASSUME NEW w \in Worker, NEW n \in Node, UpdateObject(w, n) PROVE DrainInv'
      BY <3>13 DEF UpdateObject
    <3> QED BY <2>5, <3>1, <3>2, <3>3, <3>4, <3>5, <3>6, <3>7, <3>8, <3>9, <3>10, <3>11, <3>12, <3>13 DEF Environment
  <2>6. CASE UNCHANGED vars
    BY <2>6 DEF vars
  <2> QED BY <2>1, <2>2, <2>3, <2>4, <2>5, <2>6 DEF Next, NmrWorker, NodeWorker
<1>3. DrainInv => ReleasedIsDrained
  BY DEF DrainInv, ReleasedIsDrained, Released, NoNewWork, Emptied, NoNewVolumes
<1> QED BY <1>1, <1>2, <1>3, TypeCorrect, SlotsInductive, PTL DEF Spec

\* A finished request leaves the lock taken, the slot free and the services
\* enabled again, also when the delete handler crashed and was repeated.
THEOREM RestoredAfterRequest == Spec => []NothingLeftBehind
<1> USE NodeAssumption, BoundAssumption
<1>1. Init => RestoreInv
  BY DEF Init, RestoreInv, is_maintenance, NoLock, Worker
<1>2. TypeOK /\ SlotInv /\ RestoreInv /\ [Next]_vars => RestoreInv'
  <2> SUFFICES ASSUME TypeOK, SlotInv, RestoreInv, [Next]_vars PROVE RestoreInv'
    OBVIOUS
  <2> USE DEF TypeOK, RestoreInv, is_maintenance, Goto, lcmVars, openstackVars, Worker
  <2>1. ASSUME NEW w \in Worker, NEW n \in Node, Present(w, n) PROVE RestoreInv'
    <3>1. CASE PresentObject(w, n)
      BY <3>1 DEF PresentObject, AfterObject, AfterPresent, SlotInv, AbsentInv, LockType, NoLock
    <3>2. CASE PresentGetRelease(w, n)
      BY <3>2 DEF PresentGetRelease, AfterPresent
    <3>3. CASE PresentSetState(w, n)
      BY <3>3 DEF PresentSetState, AfterPresent, LockType
    <3>5. CASE PresentSetActive(w, n)
      BY <3>5 DEF PresentSetActive, AfterObject, AfterPresent, LockType
    <3>4. CASE PresentSetRelease(w, n)
      BY <3>4 DEF PresentSetRelease, AfterPresent, LockType
    <3> QED BY <2>1, <3>1, <3>2, <3>3, <3>4, <3>5 DEF Present
  <2>2. ASSUME NEW n \in Node, ChangeHandler(n) PROVE RestoreInv'
    <3>1. CASE ChangeStart(n)
      BY <3>1 DEF ChangeStart
    <3>2. CASE AcquireCheck(n)
      BY <3>2 DEF AcquireCheck
    <3>3. CASE AcquireDefer(n)
      BY <3>3 DEF AcquireDefer, Retry
    <3>4. CASE AcquireSetInner(n)
      BY <3>4 DEF AcquireSetInner, LockType, SlotInv, AbsentInv
    <3>5. CASE CheckOsdpl(n)
      BY <3>5 DEF CheckOsdpl
    <3>6. CASE ServicesAccept(n)
      BY <3>6 DEF ServicesAccept
    <3>7. CASE ServicesDefer(n)
      BY <3>7 DEF ServicesDefer, Retry
    <3>8. CASE Reassert(n)
      BY <3>8 DEF Reassert, LockType, SlotInv, AbsentInv, HoldInv, HoldingStep
    <3>9. CASE DisableCompute(n)
      BY <3>9 DEF DisableCompute, AfterDisabled
    <3>10. CASE Migrated(n)
      BY <3>10 DEF Migrated
    <3>11. CASE MigrateDefer(n)
      BY <3>11 DEF MigrateDefer, Retry
    <3>12. CASE DisableVolume(n)
      BY <3>12 DEF DisableVolume, SlotInv, HoldInv, HoldingStep
    <3>13. CASE Release(n)
      BY <3>13 DEF Release, LockType
    <3>14. CASE WriteDisabled(n)
      BY <3>14 DEF WriteDisabled, AfterDisabled, SlotInv, HoldInv, HoldingStep
    <3> QED BY <2>2, <3>1, <3>2, <3>3, <3>4, <3>5, <3>6, <3>7, <3>8, <3>9, <3>10, <3>11, <3>12, <3>13, <3>14 DEF ChangeHandler
  <2>3. ASSUME NEW n \in Node, DeleteHandler(n) PROVE RestoreInv'
    <3>1. CASE DeleteStart(n)
      BY <3>1 DEF DeleteStart, SlotInv, AbsentInv
    <3>2. CASE DeleteNotRequired(n)
      BY <3>2 DEF DeleteNotRequired, SlotInv, AbsentInv, NoLock
    <3>3. CASE WaitReady(n)
      BY <3>3 DEF WaitReady
    <3>4. CASE EnableVolume(n)
      BY <3>4 DEF EnableVolume
    <3>5. CASE WaitUp(n)
      BY <3>5 DEF WaitUp
    <3>6. CASE WaitUpTimeout(n)
      BY <3>6 DEF WaitUpTimeout, Retry
    <3>7. CASE EnableCompute(n)
      BY <3>7 DEF EnableCompute
    <3>8. CASE UnsetInner(n)
      BY <3>8 DEF UnsetInner, LockType
    <3>9. CASE Reactivate(n)
      BY <3>9 DEF Reactivate, LockType
    <3>10. CASE WriteEnabled(n)
      BY <3>10 DEF WriteEnabled
    <3> QED BY <2>3, <3>1, <3>2, <3>3, <3>4, <3>5, <3>6, <3>7, <3>8, <3>9, <3>10 DEF DeleteHandler
  <2>4. ASSUME NEW n \in Node, NodeChange(n) PROVE RestoreInv'
    BY <2>4 DEF NodeChange, SlotInv, AbsentInv
  <2>5. CASE Environment
    <3>1. CASE Upgrade
      BY <3>1 DEF Upgrade
    <3>2. CASE DeleteOsdpl
      BY <3>2 DEF DeleteOsdpl
    <3>3. ASSUME NEW w \in Worker, Restart(w) PROVE RestoreInv'
      BY <3>3 DEF Restart
    <3>4. ASSUME NEW n \in Node, ApiFailure(n) PROVE RestoreInv'
      BY <3>4 DEF ApiFailure, Retry
    <3>5. ASSUME NEW n \in Node, NodeDown(n) PROVE RestoreInv'
      BY <3>5 DEF NodeDown
    <3>6. ASSUME NEW n \in Node, NodeUp(n) PROVE RestoreInv'
      BY <3>6 DEF NodeUp
    <3>7. ASSUME NEW n \in Node, CreateNmr(n) PROVE RestoreInv'
      BY <3>7 DEF CreateNmr, SlotInv, AbsentInv
    <3>8. ASSUME NEW n \in Node, DeleteNmr(n) PROVE RestoreInv'
      BY <3>8 DEF DeleteNmr
    <3>9. ASSUME NEW n \in Node, StartServer(n) PROVE RestoreInv'
      BY <3>9 DEF StartServer
    <3>10. ASSUME NEW n \in Node, ServerGone(n) PROVE RestoreInv'
      BY <3>10 DEF ServerGone
    <3>11. ASSUME NEW n \in Node, OperatorDisable(n) PROVE RestoreInv'
      BY <3>11 DEF OperatorDisable
    <3>12. ASSUME NEW n \in Node, OperatorEnable(n) PROVE RestoreInv'
      BY <3>12 DEF OperatorEnable
    <3>13. ASSUME NEW w \in Worker, NEW n \in Node, UpdateObject(w, n) PROVE RestoreInv'
      BY <3>13 DEF UpdateObject
    <3> QED BY <2>5, <3>1, <3>2, <3>3, <3>4, <3>5, <3>6, <3>7, <3>8, <3>9, <3>10, <3>11, <3>12, <3>13 DEF Environment
  <2>6. CASE UNCHANGED vars
    BY <2>6 DEF vars
  <2> QED BY <2>1, <2>2, <2>3, <2>4, <2>5, <2>6 DEF Next, NmrWorker, NodeWorker
<1>3. TypeOK /\ SlotInv /\ RestoreInv => NothingLeftBehind
  BY DEF TypeOK, LockType, SlotInv, AbsentInv, RestoreInv, NothingLeftBehind, is_maintenance
<1> QED BY <1>1, <1>2, <1>3, TypeCorrect, SlotsInductive, PTL DEF Spec
-----------------------------------------------------------------------------
(* The refinement of MaintenanceSlots. *)

SlotNodes == {n \in Node : is_maintenance(n)}
OpenNodes == {n \in Node : Released(n)}

\* A step that changes no inner state and hands over or takes back no node is
\* a stuttering step of the abstract specification.
LEMMA SlotsStutter ==
  ASSUME \A n \in Node : lock'[n].inner = lock[n].inner,
         \A n \in Node : Released(n)' <=> Released(n)
  PROVE  UNCHANGED <<SlotNodes, OpenNodes>>
<1>1. SlotNodes' = SlotNodes
  BY DEF SlotNodes, is_maintenance
<1>2. OpenNodes' = OpenNodes
  BY DEF OpenNodes
<1> QED BY <1>1, <1>2

\* The abstract specification counts the nodes that maintenance_locks counts.
LEMMA SlotHolders ==
  \A r \in Role :
    Slots!Cardinality(Slots!Holders(r)) = Cardinality(maintenance_locks(r))
<1>1. \A r \in Role : Slots!Holders(r) = maintenance_locks(r)
  BY DEF Slots!Holders, maintenance_locks
<1>2. \A S : Slots!Cardinality(S) = Cardinality(S)
  BY DEF Slots!Cardinality, Cardinality
<1> QED BY <1>1, <1>2

\* A lock taken back (present(), set_state_active) closes the node.
LEMMA SlotsClose ==
  ASSUME TypeOK, NEW n \in Node, nmr' = nmr,
         lock' = [lock EXCEPT ![n].state = "active"]
  PROVE  Slots!Close(n)
<1>1. SlotNodes' = SlotNodes
  BY DEF SlotNodes, is_maintenance, TypeOK, LockType
<1>2. OpenNodes' = OpenNodes \ {n}
  BY DEF OpenNodes, Released, TypeOK, LockType
<1> QED BY <1>1, <1>2 DEF Slots!Close, SlotNodes, OpenNodes

\* Every step of the two controllers and of their environment is a step of
\* MaintenanceSlots, or changes neither slots nor released nodes: a slot is
\* taken by AcquireSetInner with room in every role, a node is opened by
\* Release with its slot, and the slot is left by UnsetInner after the request
\* was deleted.
LEMMA SlotsStep ==
  TypeOK /\ SlotInv /\ [Next]_vars =>
    [Slots!SlotsNext]_<<SlotNodes, OpenNodes>>
<1> SUFFICES ASSUME TypeOK, SlotInv, [Next]_vars,
                    ~UNCHANGED <<SlotNodes, OpenNodes>>
             PROVE  Slots!SlotsNext
  OBVIOUS
<1> USE NodeAssumption
<1> USE DEF TypeOK, Goto, lcmVars, Released
<1>1. ASSUME NEW w \in Worker, NEW n \in Node, Present(w, n) PROVE Slots!SlotsNext
  <2>1. CASE PresentObject(w, n)
    <3>1. /\ \A m \in Node : lock'[m].inner = lock[m].inner
          /\ \A m \in Node : Released(m)' <=> Released(m)
      BY <2>1 DEF PresentObject, LockType, NoLock, SlotInv, AbsentInv
    <3> QED BY <3>1, SlotsStutter
  <2>2. CASE PresentSetActive(w, n) \/ PresentSetState(w, n)
    BY <2>2, SlotsClose DEF PresentSetActive, PresentSetState, Slots!SlotsNext
  <2>3. CASE PresentGetRelease(w, n)
    BY <2>3, SlotsStutter DEF PresentGetRelease
  <2>4. CASE PresentSetRelease(w, n)
    BY <2>4, SlotsStutter DEF PresentSetRelease, LockType
  <2> QED BY <1>1, <2>1, <2>2, <2>3, <2>4 DEF Present
<1>2. ASSUME NEW n \in Node, ChangeHandler(n) PROVE Slots!SlotsNext
  <2>1. CASE ChangeStart(n) \/ AcquireCheck(n) \/ AcquireDefer(n) \/ CheckOsdpl(n)
    BY <2>1, SlotsStutter DEF ChangeStart, AcquireCheck, AcquireDefer, CheckOsdpl
  <2>2. CASE ServicesAccept(n) \/ ServicesDefer(n) \/ DisableCompute(n) \/ WriteDisabled(n)
    BY <2>2, SlotsStutter DEF ServicesAccept, ServicesDefer, DisableCompute, WriteDisabled
  <2>3. CASE Migrated(n) \/ MigrateDefer(n) \/ DisableVolume(n)
    BY <2>3, SlotsStutter DEF Migrated, MigrateDefer, DisableVolume
  <2>4. CASE AcquireSetInner(n)
    <3>1. OpenNodes' = OpenNodes
      BY <2>4 DEF AcquireSetInner, OpenNodes, LockType
    <3>2. SlotNodes' = SlotNodes \cup {n}
      BY <2>4 DEF AcquireSetInner, SlotNodes, is_maintenance, LockType
    <3>3. ~is_maintenance(n)
      BY <3>1, <3>2 DEF SlotNodes
    <3>4. can_handle_nmr
      BY <2>4, <3>3 DEF AcquireSetInner, SlotInv, MutexInv
    <3>5. Slots!Enter(n)
      BY <3>1, <3>2, <3>3, <3>4, SlotHolders
         DEF Slots!Enter, SlotNodes, OpenNodes, can_handle_nmr
    <3> QED BY <3>5 DEF Slots!SlotsNext
  <2>5. CASE Reassert(n)
    <3>1. lock[n].inner = "active"
      BY <2>5 DEF Reassert, SlotInv, HoldInv, HoldingStep, is_maintenance
    <3> QED BY <2>5, <3>1, SlotsStutter DEF Reassert, LockType
  <2>6. CASE Release(n)
    <3>1. SlotNodes' = SlotNodes
      BY <2>6 DEF Release, SlotNodes, is_maintenance, LockType
    <3>2. n \in SlotNodes
      BY <2>6 DEF Release, SlotNodes, SlotInv, HoldInv, HoldingStep
    <3>3. OpenNodes' = OpenNodes \/ OpenNodes' = OpenNodes \cup {n}
      BY <2>6 DEF Release, OpenNodes, LockType
    <3>4. Slots!Open(n)
      BY <3>1, <3>2, <3>3 DEF Slots!Open, SlotNodes, OpenNodes
    <3> QED BY <3>4 DEF Slots!SlotsNext
  <2> QED BY <1>2, <2>1, <2>2, <2>3, <2>4, <2>5, <2>6 DEF ChangeHandler
<1>3. ASSUME NEW n \in Node, DeleteHandler(n) PROVE Slots!SlotsNext
  <2>1. CASE DeleteStart(n) \/ WaitReady(n) \/ EnableVolume(n) \/ WaitUp(n)
    BY <2>1, SlotsStutter DEF DeleteStart, WaitReady, EnableVolume, WaitUp
  <2>2. CASE WaitUpTimeout(n) \/ EnableCompute(n) \/ WriteEnabled(n)
    BY <2>2, SlotsStutter DEF WaitUpTimeout, EnableCompute, WriteEnabled
  <2>3. CASE DeleteNotRequired(n)
    <3>1. lock' = lock
      BY <2>3 DEF DeleteNotRequired, SlotInv, AbsentInv
    <3> QED BY <2>3, <3>1, SlotsStutter DEF DeleteNotRequired
  <2>4. CASE UnsetInner(n)
    <3>1. SlotNodes' = SlotNodes \ {n}
      BY <2>4 DEF UnsetInner, SlotNodes, is_maintenance, LockType
    <3>2. OpenNodes' = OpenNodes
      BY <2>4 DEF UnsetInner, OpenNodes, LockType
    <3>3. n \notin OpenNodes
      BY <2>4 DEF UnsetInner, OpenNodes, SlotInv, HoldInv, DeleteStep
    <3>4. Slots!Leave(n)
      BY <3>1, <3>2, <3>3 DEF Slots!Leave, SlotNodes, OpenNodes
    <3> QED BY <3>4 DEF Slots!SlotsNext
  <2>5. CASE Reactivate(n)
    <3>1. nmr[n] = "deleting"
      BY <2>5 DEF Reactivate, SlotInv, HoldInv, DeleteStep
    <3> QED BY <2>5, <3>1, SlotsStutter DEF Reactivate, LockType
  <2> QED BY <1>3, <2>1, <2>2, <2>3, <2>4, <2>5 DEF DeleteHandler
<1>4. ASSUME NEW n \in Node, NodeChange(n) PROVE Slots!SlotsNext
  <2>1. lock' = lock
    BY <1>4 DEF NodeChange, SlotInv, AbsentInv
  <2> QED BY <1>4, <2>1, SlotsStutter DEF NodeChange
<1>5. CASE Environment
  <2>1. CASE Upgrade \/ DeleteOsdpl \/ \E w \in Worker : Restart(w)
    BY <2>1, SlotsStutter DEF Upgrade, DeleteOsdpl, Restart
  <2>2. ASSUME NEW n \in Node, ApiFailure(n) \/ NodeDown(n) \/ NodeUp(n)
        PROVE  Slots!SlotsNext
    BY <2>2, SlotsStutter DEF ApiFailure, NodeDown, NodeUp
  <2>3. ASSUME NEW n \in Node, CreateNmr(n) PROVE Slots!SlotsNext
    BY <2>3, SlotsStutter DEF CreateNmr, SlotInv, AbsentInv
  <2>4. ASSUME NEW n \in Node, DeleteNmr(n) PROVE Slots!SlotsNext
    <3>1. SlotNodes' = SlotNodes
      BY <2>4 DEF DeleteNmr, SlotNodes, is_maintenance
    <3>2. OpenNodes' = OpenNodes \ {n}
      BY <2>4 DEF DeleteNmr, OpenNodes
    <3>3. Slots!Close(n)
      BY <3>1, <3>2 DEF Slots!Close, SlotNodes, OpenNodes
    <3> QED BY <3>3 DEF Slots!SlotsNext
  <2>5. ASSUME NEW n \in Node, NEW w \in Worker, UpdateObject(w, n)
        PROVE  Slots!SlotsNext
    BY <2>5, SlotsStutter DEF UpdateObject
  <2>6. ASSUME NEW n \in Node,
               \/ StartServer(n) \/ ServerGone(n)
               \/ OperatorDisable(n) \/ OperatorEnable(n)
        PROVE  Slots!SlotsNext
    BY <2>6, SlotsStutter DEF StartServer, ServerGone, OperatorDisable, OperatorEnable
  <2> QED BY <1>5, <2>1, <2>2, <2>3, <2>4, <2>5, <2>6 DEF Environment
<1>6. CASE UNCHANGED vars
  BY <1>6, SlotsStutter DEF vars
<1> QED BY <1>1, <1>2, <1>3, <1>4, <1>5, <1>6 DEF Next, NmrWorker, NodeWorker, Worker

\* The controllers implement MaintenanceSlots for every set of nodes, roles
\* and limits: whatever crashes, is retried or upgraded, the LCM sees nodes
\* handed over only within slots that were taken with room for them.
THEOREM ImplementsSlots == Spec => SlotsSpec
<1>1. Init => Slots!SlotsInit
  BY DEF Init, Slots!SlotsInit, is_maintenance, Released, NoLock
<1>2. TypeOK /\ SlotInv /\ [Next]_vars =>
        [Slots!SlotsNext]_<<{n \in Node : is_maintenance(n)}, {n \in Node : Released(n)}>>
  BY SlotsStep DEF SlotNodes, OpenNodes
<1> QED BY <1>1, <1>2, TypeCorrect, SlotsInductive, PTL
        DEF Spec, SlotsSpec, Slots!SlotsSpec
-----------------------------------------------------------------------------
(* The lock of a node over time, and the decisions of operators. *)

\* No step undoes the lock of a node that runs OpenStack workloads: handlers of
\* both processes, restarts and upgrades included, leave every such node with a
\* lock of the running release, or with a handler that is at work on it or that
\* kopf still owes a call.
THEOREM LockStaysCurrent == Spec => []LockCurrent
<1> USE NodeAssumption, BoundAssumption
<1>1. Init => LockCurrent
  BY DEF Init, LockCurrent, NoLock, Worker
<1>2. TypeOK /\ SlotInv /\ LockCurrent /\ [Next]_vars => LockCurrent'
  <2> SUFFICES ASSUME TypeOK, SlotInv, LockCurrent, [Next]_vars PROVE LockCurrent'
    OBVIOUS
  <2> USE DEF TypeOK, Goto, lcmVars, Worker, LockCurrent
  <2>1. ASSUME NEW w \in Worker, NEW n \in Node, Present(w, n) PROVE LockCurrent'
    <3>1. CASE PresentObject(w, n)
      <4>1. lock'[n].present /\ (lock[n].present => lock'[n] = lock[n])
        BY <3>1 DEF PresentObject, LockType, NoLock
      <4>2. \A m \in Node \ {n} : lock'[m] = lock[m]
        BY <3>1 DEF PresentObject
      <4> QED BY <3>1, <4>1, <4>2 DEF PresentObject, AfterObject, AfterPresent
    <3>2. CASE PresentSetActive(w, n)
      BY <3>2 DEF PresentSetActive, AfterObject, AfterPresent, LockType, SlotInv, AbsentInv
    <3>3. CASE PresentGetRelease(w, n)
      BY <3>3 DEF PresentGetRelease, AfterPresent, SlotInv, AbsentInv
    <3>4. CASE PresentSetState(w, n)
      BY <3>4 DEF PresentSetState, LockType, SlotInv, AbsentInv
    <3>5. CASE PresentSetRelease(w, n)
      BY <3>5 DEF PresentSetRelease, AfterPresent, LockType, SlotInv, AbsentInv
    <3> QED BY <2>1, <3>1, <3>2, <3>3, <3>4, <3>5 DEF Present
  <2>2. ASSUME NEW n \in Node, ChangeHandler(n) PROVE LockCurrent'
    <3>1. CASE ChangeStart(n) \/ AcquireCheck(n) \/ CheckOsdpl(n) \/ ServicesAccept(n)
      BY <3>1 DEF ChangeStart, AcquireCheck, CheckOsdpl, ServicesAccept
    <3>2. CASE AcquireDefer(n) \/ ServicesDefer(n) \/ MigrateDefer(n)
      BY <3>2 DEF AcquireDefer, ServicesDefer, MigrateDefer, Retry
    <3>3. CASE DisableCompute(n) \/ WriteDisabled(n) \/ Migrated(n) \/ DisableVolume(n)
      BY <3>3 DEF DisableCompute, WriteDisabled, Migrated, DisableVolume
    <3>4. CASE AcquireSetInner(n)
      BY <3>4 DEF AcquireSetInner, LockType
    <3>5. CASE Reassert(n)
      BY <3>5 DEF Reassert, LockType
    <3>6. CASE Release(n)
      BY <3>6 DEF Release, LockType
    <3> QED BY <2>2, <3>1, <3>2, <3>3, <3>4, <3>5, <3>6 DEF ChangeHandler
  <2>3. ASSUME NEW n \in Node, DeleteHandler(n) PROVE LockCurrent'
    <3>1. CASE DeleteStart(n) \/ WaitReady(n) \/ EnableVolume(n) \/ WaitUp(n)
      BY <3>1 DEF DeleteStart, WaitReady, EnableVolume, WaitUp
    <3>2. CASE WaitUpTimeout(n) \/ EnableCompute(n) \/ WriteEnabled(n)
      BY <3>2 DEF WaitUpTimeout, Retry, EnableCompute, WriteEnabled
    <3>3. CASE DeleteNotRequired(n)
      BY <3>3 DEF DeleteNotRequired
    <3>4. CASE UnsetInner(n)
      BY <3>4 DEF UnsetInner, LockType
    <3>5. CASE Reactivate(n)
      BY <3>5 DEF Reactivate, LockType
    <3> QED BY <2>3, <3>1, <3>2, <3>3, <3>4, <3>5 DEF DeleteHandler
  <2>4. ASSUME NEW n \in Node, NodeChange(n) PROVE LockCurrent'
    BY <2>4 DEF NodeChange
  <2>5. CASE Environment
    <3>1. CASE Upgrade
      BY <3>1 DEF Upgrade, ResumeEvents
    <3>2. CASE DeleteOsdpl
      BY <3>2 DEF DeleteOsdpl
    <3>3. ASSUME NEW w \in Worker, Restart(w) PROVE LockCurrent'
      BY <3>3 DEF Restart, ResumeEvents
    <3>4. ASSUME NEW n \in Node, ApiFailure(n) PROVE LockCurrent'
      BY <3>4 DEF ApiFailure, Retry
    <3>5. ASSUME NEW n \in Node, NodeDown(n) \/ NodeUp(n) PROVE LockCurrent'
      BY <3>5 DEF NodeDown, NodeUp
    <3>6. ASSUME NEW n \in Node, CreateNmr(n) \/ DeleteNmr(n) PROVE LockCurrent'
      BY <3>6 DEF CreateNmr, DeleteNmr
    <3>7. ASSUME NEW n \in Node, NEW w \in Worker, UpdateObject(w, n)
          PROVE  LockCurrent'
      BY <3>7 DEF UpdateObject
    <3>8. ASSUME NEW n \in Node,
                 \/ StartServer(n) \/ ServerGone(n)
                 \/ OperatorDisable(n) \/ OperatorEnable(n)
          PROVE  LockCurrent'
      BY <3>8 DEF StartServer, ServerGone, OperatorDisable, OperatorEnable
    <3> QED BY <2>5, <3>1, <3>2, <3>3, <3>4, <3>5, <3>6, <3>7, <3>8 DEF Environment
  <2>6. CASE UNCHANGED vars
    BY <2>6 DEF vars
  <2> QED BY <2>1, <2>2, <2>3, <2>4, <2>5, <2>6 DEF Next, NmrWorker, NodeWorker
<1> QED BY <1>1, <1>2, TypeCorrect, SlotsInductive, PTL DEF Spec

\* No handler enables a compute service that an operator disabled, and none
\* replaces the operator's reason by its own, unless the operator decided
\* between the handler's read of the service and its update: compute_ensure_
\* service_disabled and add_node_to_scheduling act on what they read (ReadInv).
THEOREM OperatorsDecide == Spec => OperatorDecisionKept
<1> DEFINE Kept == \A n \in Node : compute[n] = "operator" /\ compute'[n] # "operator"
                                     => OperatorEnable(n) \/ n \in unseen
<1>1. Init => ReadInv
  BY DEF Init, ReadInv, Worker
<1>2. TypeOK /\ ReadInv /\ [Next]_vars => ReadInv'
  <2> SUFFICES ASSUME TypeOK, ReadInv, [Next]_vars PROVE ReadInv'
    OBVIOUS
  <2> USE DEF TypeOK, ReadInv, Goto, openstackVars, Worker
  <2>1. ASSUME NEW w \in Worker, NEW n \in Node, Present(w, n) PROVE ReadInv'
    BY <2>1 DEF Present, PresentObject, PresentSetActive, PresentGetRelease,
                PresentSetState, PresentSetRelease, AfterObject, AfterPresent
  <2>2. ASSUME NEW n \in Node, ChangeHandler(n) PROVE ReadInv'
    <3>1. CASE DisableCompute(n)
      BY <3>1 DEF DisableCompute, AfterDisabled
    <3>2. CASE WriteDisabled(n)
      BY <3>2 DEF WriteDisabled, AfterDisabled
    <3> QED BY <2>2, <3>1, <3>2
            DEF ChangeHandler, ChangeStart, AcquireCheck, AcquireDefer, AcquireSetInner,
                CheckOsdpl, ServicesAccept, ServicesDefer, Reassert, Retry,
                Migrated, MigrateDefer, DisableVolume, Release
  <2>3. ASSUME NEW n \in Node, DeleteHandler(n) PROVE ReadInv'
    <3>1. CASE EnableCompute(n)
      BY <3>1 DEF EnableCompute
    <3>2. CASE WriteEnabled(n)
      BY <3>2 DEF WriteEnabled
    <3> QED BY <2>3, <3>1, <3>2
            DEF DeleteHandler, DeleteStart, DeleteNotRequired, WaitReady, EnableVolume,
                WaitUp, WaitUpTimeout, Retry, UnsetInner, Reactivate
  <2>4. ASSUME NEW n \in Node, NodeChange(n) PROVE ReadInv'
    BY <2>4 DEF NodeChange
  <2>5. CASE Environment
    <3>1. ASSUME NEW n \in Node, OperatorEnable(n) PROVE ReadInv'
      BY <3>1 DEF OperatorEnable
    <3>2. ASSUME NEW n \in Node, OperatorDisable(n) PROVE ReadInv'
      BY <3>2 DEF OperatorDisable
    <3>3. ASSUME NEW n \in Node, ApiFailure(n) PROVE ReadInv'
      BY <3>3 DEF ApiFailure, Retry
    <3>4. CASE Upgrade \/ \E w \in Worker : Restart(w)
      BY <3>4 DEF Upgrade, Restart
    <3> QED BY <2>5, <3>1, <3>2, <3>3, <3>4
            DEF Environment, DeleteOsdpl, NodeDown, NodeUp, CreateNmr, DeleteNmr,
                UpdateObject, StartServer, ServerGone
  <2>6. CASE UNCHANGED vars
    BY <2>6 DEF vars
  <2> QED BY <2>1, <2>2, <2>3, <2>4, <2>5, <2>6 DEF Next, NmrWorker, NodeWorker
<1>3. TypeOK /\ ReadInv /\ [Next]_vars => Kept
  <2> SUFFICES ASSUME TypeOK, ReadInv, [Next]_vars,
                      NEW m \in Node, compute[m] = "operator", compute'[m] # "operator"
               PROVE  OperatorEnable(m) \/ m \in unseen
    OBVIOUS
  <2> USE DEF TypeOK, openstackVars
  <2>1. ASSUME NEW w \in Worker, NEW n \in Node, Present(w, n) PROVE FALSE
    BY <2>1 DEF Present, PresentObject, PresentSetActive, PresentGetRelease,
                PresentSetState, PresentSetRelease
  <2>2. ASSUME NEW n \in Node, ChangeHandler(n) PROVE m \in unseen
    <3>1. CASE WriteDisabled(n)
      <4>1. n = m
        BY <3>1 DEF WriteDisabled
      <4> QED BY <3>1, <4>1 DEF WriteDisabled, Goto, ReadInv
    <3> QED BY <2>2, <3>1
            DEF ChangeHandler, ChangeStart, AcquireCheck, AcquireDefer, AcquireSetInner,
                CheckOsdpl, ServicesAccept, ServicesDefer, Reassert, DisableCompute,
                Migrated, MigrateDefer, DisableVolume, Release
  <2>3. ASSUME NEW n \in Node, DeleteHandler(n) PROVE m \in unseen
    <3>1. CASE WriteEnabled(n)
      <4>1. n = m
        BY <3>1 DEF WriteEnabled
      <4> QED BY <3>1, <4>1 DEF WriteEnabled, Goto, ReadInv
    <3> QED BY <2>3, <3>1
            DEF DeleteHandler, DeleteStart, DeleteNotRequired, WaitReady, EnableVolume,
                WaitUp, WaitUpTimeout, EnableCompute, UnsetInner, Reactivate
  <2>4. ASSUME NEW n \in Node, NodeChange(n) PROVE FALSE
    BY <2>4 DEF NodeChange
  <2>5. CASE Environment
    <3>1. ASSUME NEW n \in Node, OperatorEnable(n) PROVE OperatorEnable(m)
      <4>1. n = m
        BY <3>1 DEF OperatorEnable
      <4> QED BY <3>1, <4>1
    <3>2. ASSUME NEW n \in Node, OperatorDisable(n) PROVE FALSE
      BY <3>2 DEF OperatorDisable
    <3> QED BY <2>5, <3>1, <3>2
            DEF Environment, Upgrade, DeleteOsdpl, Restart, ApiFailure, NodeDown, NodeUp,
                CreateNmr, DeleteNmr, UpdateObject, StartServer, ServerGone
  <2>6. CASE UNCHANGED vars
    BY <2>6 DEF vars
  <2> QED BY <2>1, <2>2, <2>3, <2>4, <2>5, <2>6 DEF Next, NmrWorker, NodeWorker, Worker
<1>4. TypeOK /\ ReadInv /\ [Next]_vars => [Kept]_vars
  BY <1>3
<1> QED BY <1>1, <1>2, <1>4, TypeCorrect, PTL DEF Spec, OperatorDecisionKept
=============================================================================
