----------------------- MODULE InstanceMigrationProofs -----------------------
(***************************************************************************)
(* Proofs about InstanceMigration, for every set of servers, mode, number  *)
(* of attempts and concurrency.                                            *)
(***************************************************************************)
EXTENDS InstanceMigration, FiniteSetTheorems, TLAPS

\* servers_migrating_count is one more than the calls made in this pass, and
\* a server on the list has attempts left.
CountsCalls == \A s \in Server : count[s] = calls[s] + 1
AttemptsLeft == \A s \in todo : count[s] <= Attempts

\* The inductive invariant of a pass.
PassInv == TypeOK /\ CountsCalls /\ AttemptsLeft /\ AttemptsRespected

-----------------------------------------------------------------------------
\* The constants have the types the steps need.
LEMMA ConstantTypes ==
  /\ IsFiniteSet(Server)
  /\ Attempts \in Nat /\ Attempts > 0 /\ Concurrency \in Nat
  /\ MaxFailures \in Nat /\ MaxErrors \in Nat
BY MigrationAssumption

\* The handler's variables have their types when a pass begins.
LEMMA TypeInit == Init => TypeOK
BY ConstantTypes DEF Init, TypeOK, NoCount, NoCalls, States, Steps

\* Every step of the handler and of Nova keeps the types.
LEMMA TypeStep == TypeOK /\ [Next]_vars => TypeOK'
<1> SUFFICES ASSUME TypeOK, [Next]_vars PROVE TypeOK'
  OBVIOUS
<1> USE ConstantTypes
<1>1. CASE Start
  BY <1>1 DEF TypeOK, Start, Valid, NoCount, NoCalls, Steps
<1>2. CASE \E s \in Server : Migrate(s)
  BY <1>2 DEF TypeOK, Migrate, Steps, States
<1>3. CASE \E s \in Server : MigrateRefused(s)
  BY <1>3 DEF TypeOK, MigrateRefused, Steps
<1>4. CASE WaitForRoom \/ LoopDone \/ CheckCompleted \/ ListFails
  BY <1>4 DEF TypeOK, WaitForRoom, LoopDone, CheckCompleted, ListFails, Steps
<1>5. CASE Relist
  BY <1>5 DEF TypeOK, Relist, Valid, Steps
<1>6. CASE Nova
  BY <1>6 DEF TypeOK, Nova, MigrationDone, MigrationFails, BuildDone,
     UserRemoves, handlerVars, States
<1>7. CASE UNCHANGED vars
  BY <1>7 DEF TypeOK, vars, handlerVars
<1> QED
  BY <1>1, <1>2, <1>3, <1>4, <1>5, <1>6, <1>7 DEF Next, Handler

\* The variables of the migration loop keep their types.
THEOREM MigrationTypeCorrect == Spec => []TypeOK
BY TypeInit, TypeStep, PTL DEF Spec

-----------------------------------------------------------------------------
\* In one pass of _do_servers_migration no server is migrated more often than
\* instance_migration_attempts says, whatever the lists it works on show.
THEOREM AttemptsBounded == Spec => []AttemptsRespected
<1>1. Init => PassInv
  BY TypeInit, ConstantTypes
  DEF Init, PassInv, CountsCalls, AttemptsLeft, AttemptsRespected, NoCount,
      NoCalls
<1>2. PassInv /\ [Next]_vars => PassInv'
  <2> SUFFICES ASSUME PassInv, [Next]_vars PROVE PassInv'
    OBVIOUS
  <2>0. TypeOK /\ TypeOK'
    BY TypeStep DEF PassInv
  <2> USE ConstantTypes
      DEF PassInv, CountsCalls, AttemptsLeft, AttemptsRespected
  <2>1. CASE Start
    BY <2>0, <2>1 DEF Start, NoCount, NoCalls, Valid
  <2>2. ASSUME NEW s \in Server, Migrate(s) \/ MigrateRefused(s)
        PROVE  PassInv'
    <3>1. /\ s \in todo /\ todo' = todo \ {s}
          /\ count' = [count EXCEPT ![s] = @ + 1]
          /\ calls' = [calls EXCEPT ![s] = @ + 1]
      BY <2>2 DEF Migrate, MigrateRefused
    <3>2. CountsCalls' /\ AttemptsRespected'
      BY <2>0, <3>1 DEF TypeOK
    <3>3. AttemptsLeft'
      BY <2>0, <3>1 DEF TypeOK
    <3> QED BY <2>0, <3>2, <3>3
  <2>3. CASE WaitForRoom \/ LoopDone \/ CheckCompleted \/ ListFails
    BY <2>0, <2>3 DEF WaitForRoom, LoopDone, CheckCompleted, ListFails
  <2>4. CASE Relist
    BY <2>0, <2>4 DEF Relist
  <2>5. CASE Nova
    BY <2>0, <2>5 DEF Nova, MigrationDone, MigrationFails, BuildDone,
       UserRemoves, handlerVars
  <2>6. CASE UNCHANGED vars
    BY <2>0, <2>6 DEF vars, handlerVars
  <2> QED
    BY <2>1, <2>2, <2>3, <2>4, <2>5, <2>6 DEF Next, Handler
<1>3. PassInv => AttemptsRespected
  BY DEF PassInv
<1> QED BY <1>1, <1>2, <1>3, PTL DEF Spec

-----------------------------------------------------------------------------
\* When no server starts to migrate, not more migrate than before.
LEMMA FewerMigrate ==
  ASSUME ConcurrencyRespected, Migrating' \subseteq Migrating
  PROVE  ConcurrencyRespected'
<1>1. IsFiniteSet(Migrating)
  BY ConstantTypes, FS_Subset DEF Migrating
<1>2. Cardinality(Migrating') <= Cardinality(Migrating)
  BY <1>1, FS_Subset
<1>3. Cardinality(Migrating') \in Nat /\ Cardinality(Migrating) \in Nat
  BY <1>1, FS_Subset, FS_CardinalityType
<1> QED BY <1>2, <1>3, ConstantTypes DEF ConcurrencyRespected

\* Never more than instance_migrate_concurrency servers of a host migrate at
\* the same time, for every number of servers and any state of their lists.
THEOREM ConcurrencyBounded == Spec => []ConcurrencyRespected
<1>1. Init => ConcurrencyRespected
  <2> SUFFICES ASSUME Init PROVE ConcurrencyRespected
    OBVIOUS
  <2>1. Migrating = {} BY DEF Init, Migrating
  <2> QED BY <2>1, FS_EmptySet, ConstantTypes DEF ConcurrencyRespected
<1>2. TypeOK /\ ConcurrencyRespected /\ [Next]_vars => ConcurrencyRespected'
  <2> SUFFICES ASSUME TypeOK, ConcurrencyRespected, [Next]_vars
               PROVE  ConcurrencyRespected'
    OBVIOUS
  <2>1. ASSUME NEW s \in Server, Migrate(s)
        PROVE  ConcurrencyRespected'
    <3>1. Migrating' \subseteq Migrating \cup {s}
      BY <2>1 DEF Migrate, Migrating, TypeOK
    <3>2. IsFiniteSet(Migrating)
      BY ConstantTypes, FS_Subset DEF Migrating
    <3>3. IsFiniteSet(Migrating \cup {s})
          /\ Cardinality(Migrating \cup {s}) <= Cardinality(Migrating) + 1
      <4>1. Cardinality(Migrating) \in Nat
        BY <3>2, FS_CardinalityType
      <4>2. /\ IsFiniteSet(Migrating \cup {s})
            /\ \/ Cardinality(Migrating \cup {s}) = Cardinality(Migrating)
               \/ Cardinality(Migrating \cup {s}) = Cardinality(Migrating) + 1
        BY <3>2, FS_AddElement, Zenon
      <4> QED BY <4>1, <4>2
    <3>4. Cardinality(Migrating') <= Cardinality(Migrating \cup {s})
      BY <3>1, <3>3, FS_Subset
    <3>5. /\ Cardinality(Migrating) \in Nat
          /\ Cardinality(Migrating \cup {s}) \in Nat
          /\ Cardinality(Migrating') \in Nat
      BY <3>1, <3>2, <3>3, FS_Subset, FS_CardinalityType
    <3>6. Cardinality(Migrating) < Concurrency
      BY <2>1 DEF Migrate, RoomForMigration
    <3> QED BY <3>3, <3>4, <3>5, <3>6, ConstantTypes
            DEF ConcurrencyRespected
  <2>2. CASE \/ Start \/ WaitForRoom \/ Relist \/ LoopDone \/ CheckCompleted
             \/ ListFails \/ \E s \in Server : MigrateRefused(s)
    <3>1. vm' = vm
      BY <2>2 DEF Start, WaitForRoom, Relist, LoopDone, CheckCompleted,
         ListFails, MigrateRefused
    <3> QED BY <3>1, FewerMigrate DEF Migrating
  <2>3. CASE Nova
    <3>1. Migrating' \subseteq Migrating
      BY <2>3 DEF Nova, MigrationDone, MigrationFails, BuildDone,
         UserRemoves, Migrating, TypeOK
    <3> QED BY <3>1, FewerMigrate
  <2>4. CASE UNCHANGED vars
    BY <2>4, FewerMigrate DEF vars, Migrating
  <2> QED BY <2>1, <2>2, <2>3, <2>4 DEF Next, Handler
<1> QED BY <1>1, <1>2, TypeInit, TypeStep, PTL DEF Spec

-----------------------------------------------------------------------------
\* Nothing that runs, or may run again, is on a host that was handed over.
Emptied == pc = "passed" => \A s \in Server : vm[s] \in {"stopped", "gone"}

\* A step of the handler that passes has seen every server; afterwards neither
\* a user nor a migration brings one back.
LEMMA EmptiedStep ==
  ASSUME TypeOK, Emptied, \A s \in Server : vm[s] # "building", [Next]_vars
  PROVE  Emptied'
<1>1. CASE CheckCompleted
  <2>1. vm' = vm /\ (pc' = "passed" => Unsafe = {})
    BY <1>1 DEF CheckCompleted
  <2>2. Unsafe = {} => \A s \in Server : vm[s] \in {"stopped", "gone"}
    BY DEF Unsafe, TypeOK, States
  <2> QED BY <2>1, <2>2 DEF Emptied
<1>2. CASE \/ Start \/ WaitForRoom \/ Relist \/ LoopDone \/ ListFails
           \/ \E s \in Server : Migrate(s) \/ MigrateRefused(s)
  <2>1. pc' # "passed"
    BY <1>2 DEF Start, WaitForRoom, Relist, LoopDone, ListFails, Migrate, MigrateRefused
  <2> QED BY <2>1 DEF Emptied
<1>3. ASSUME NEW s \in Server, \/ MigrationDone(s) \/ MigrationFails(s)
                               \/ BuildDone(s) \/ UserRemoves(s)
      PROVE  Emptied'
  <2>1. pc' = pc /\ vm[s] \in {"migrating", "active", "error"}
    BY <1>3 DEF MigrationDone, MigrationFails, BuildDone, UserRemoves, handlerVars
  <2> QED BY <2>1 DEF Emptied
<1>4. CASE UNCHANGED vars
  BY <1>4 DEF vars, handlerVars, Emptied
<1> QED BY <1>1, <1>2, <1>3, <1>4 DEF Next, Handler, Nova

\* A host that prepare_node_for_reboot has passed stays empty, whatever
\* migrations failed and lists were stale before; servers that are being built
\* are the exception, which the hypothesis of SafeForReboot leaves out.
THEOREM RebootIsSafe == Spec => SafeForReboot
<1> DEFINE P == \A s \in Server : vm[s] # "building"
           Q == pc = "passed" => \A s \in Server : vm[s] \in {"stopped", "gone"}
<1>1. Init => Q
  BY DEF Init
<1>2. TypeOK /\ P /\ Q /\ [Next]_vars => Q'
  BY EmptiedStep DEF Emptied
<1>3. SafeForReboot <=> ([]P => []Q)
  BY DEF SafeForReboot
<1> HIDE DEF P, Q
<1> QED BY <1>1, <1>2, <1>3, TypeInit, TypeStep, PTL DEF Spec
=============================================================================
