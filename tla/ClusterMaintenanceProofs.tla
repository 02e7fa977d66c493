---------------------- MODULE ClusterMaintenanceProofs ----------------------
(***************************************************************************)
(* Proofs about Deployment, for every set of services, upgrade order and   *)
(* bound, and about its composition with the handlers of cluster           *)
(* maintenance.  That the status is true carries over: every step of the   *)
(* composition is a step of Deployment or leaves alone what the invariant  *)
(* speaks of.                                                              *)
(***************************************************************************)
EXTENDS ClusterMaintenance, TLAPS

\* The steps at which services may change or may already have been changed.
Working == {"lock", "check", "prepare", "upgrade", "upgraded", "apply"}

\* While services are changed the status says APPLYING.
ShowsApplying == pc \in Working => status.state = "APPLYING"

\* run_task starts with a task for every service; without a permanent error a
\* service without a task has been installed from what the handler has read.
TasksComplete == pc \in {"upgrade", "upgraded"} => tasks = Service
DoneIsInstalled ==
  pc = "apply" /\ ~failed =>
    \A s \in Service : s \notin tasks => installed[s] = Wanted

\* The inductive invariant behind AppliedIsInstalled.
StatusInv ==
  TypeOK /\ ShowsApplying /\ TasksComplete /\ DoneIsInstalled
         /\ AppliedIsInstalled

-----------------------------------------------------------------------------
\* An edit of a spec is a spec.
LEMMA EditType ==
  ASSUME NEW sp \in Specs
  PROVE  /\ [sp EXCEPT !.edit = @ + 1] \in Specs
         /\ [sp EXCEPT !.version = @ + 1] \in Specs
         /\ [sp EXCEPT !.draft = ~@] \in Specs
         /\ [sp EXCEPT !.restore = ~@] \in Specs
<1>1. [sp EXCEPT !.edit = @ + 1] \in Specs BY DEF Specs
<1>2. [sp EXCEPT !.version = @ + 1] \in Specs BY DEF Specs
<1>3. ASSUME NEW b \in BOOLEAN
      PROVE  /\ [sp EXCEPT !.draft = b] \in Specs
             /\ [sp EXCEPT !.restore = b] \in Specs
  BY DEF Specs
<1>4. (~sp.draft) \in BOOLEAN /\ (~sp.restore) \in BOOLEAN
  OBVIOUS
<1>5. [sp EXCEPT !.draft = ~@] \in Specs BY <1>3, <1>4, Zenon
<1>6. [sp EXCEPT !.restore = ~@] \in Specs BY <1>3, <1>4, Zenon
<1> QED BY <1>1, <1>2, <1>5, <1>6

\* NoSpec and Nothing are values of their types.
LEMMA NoSpecType == NoSpec \in Specs /\ Nothing \in Contents
BY DEF NoSpec, Nothing, Specs, Contents

\* What the handler wants to install, for any spec it has read.
LEMMA WantedType == TypeOK => Wanted \in Contents
BY DEF TypeOK, Wanted, Contents

\* A handler that has ended leaves local variables of their types.
LEMMA IdleType ==
  ASSUME Idle
  PROVE  /\ {old', body', mspec'} \subseteq Specs
         /\ pc' \in Steps /\ event' \in {"create", "update", "resume"}
         /\ turn' \in Nat /\ tasks' \subseteq Service /\ failed' \in BOOLEAN
BY NoSpecType DEF Idle, Steps

-----------------------------------------------------------------------------
\* Every step of the handler, of errors and of the environment keeps the
\* types of the variables of Deployment.
LEMMA TypeStep == TypeOK /\ [Next]_vars => TypeOK'
<1> SUFFICES ASSUME TypeOK, [Next]_vars PROVE TypeOK'
  OBVIOUS
<1> USE DeploymentAssumption
<1>1. CASE EditVersion \/ EditOther
  <2>1. spec' \in Specs
    <3>0. spec \in Specs BY DEF TypeOK
    <3>1. CASE EditVersion
      <4> DEFINE n == [spec EXCEPT !.version = @ + 1]
      <4>1. n \in Specs BY <3>0, EditType
      <4>2. spec' = [n EXCEPT !.edit = @ + 1] BY <3>1 DEF EditVersion, Edit
      <4> QED BY <4>1, <4>2, EditType
    <3>2. CASE Edit("change", spec)
      BY <3>0, <3>2, EditType DEF Edit
    <3>3. CASE Edit("draft", [spec EXCEPT !.draft = ~@])
      <4> DEFINE n == [spec EXCEPT !.draft = ~@]
      <4>1. n \in Specs BY <3>0, EditType
      <4>2. spec' = [n EXCEPT !.edit = @ + 1] BY <3>3 DEF Edit
      <4> QED BY <4>1, <4>2, EditType
    <3>4. CASE Edit("restore", [spec EXCEPT !.restore = ~@])
      <4> DEFINE n == [spec EXCEPT !.restore = ~@]
      <4>1. n \in Specs BY <3>0, EditType
      <4>2. spec' = [n EXCEPT !.edit = @ + 1] BY <3>4 DEF Edit
      <4> QED BY <4>1, <4>2, EditType
    <3> QED BY <1>1, <3>1, <3>2, <3>3, <3>4 DEF EditOther
  <2> QED BY <1>1, <2>1
        DEF TypeOK, EditVersion, EditOther, Edit, handlerVars, boundVars
<1>2. CASE Dispatch
  BY <1>2 DEF TypeOK, Dispatch, Steps, boundVars
<1>3. CASE Handled
  BY <1>3, IdleType DEF TypeOK, Handled, boundVars
<1>4. CASE HandlerError
  BY <1>4, IdleType DEF TypeOK, HandlerError
<1>5. CASE Replaced /\ (Crash \/ ControllerUpgrade)
  BY <1>5, IdleType DEF TypeOK, Replaced, Crash, ControllerUpgrade
<1>6. CASE ReadSpec
  BY <1>6 DEF TypeOK, ReadSpec, Steps, boundVars
<1>7. CASE SetApplying
  BY <1>7, WantedType DEF TypeOK, SetApplying, Steps, boundVars
<1>8. CASE LockPresent
  BY <1>8 DEF TypeOK, LockPresent, Steps, boundVars
<1>9. CASE CheckPassed
  BY <1>9 DEF TypeOK, CheckPassed, Steps, boundVars
<1>10. CASE Prepare
  BY <1>10 DEF TypeOK, Prepare, Steps, boundVars
<1>11. CASE UpgradeApply
  BY <1>11, WantedType DEF TypeOK, UpgradeApply, Install, Steps, boundVars
<1>12. CASE UpgradeDone
  BY <1>12 DEF TypeOK, UpgradeDone, Steps, boundVars
<1>13. CASE UpgradeRetry
  BY <1>13 DEF TypeOK, UpgradeRetry, Steps
<1>14. CASE \E s \in Service : Apply(s)
  BY <1>14, WantedType DEF TypeOK, Apply, Install, boundVars
<1>15. CASE \E s \in Service : ApplyPermanent(s)
  BY <1>15 DEF TypeOK, ApplyPermanent
<1>16. CASE SetApplied
  BY <1>16, WantedType DEF TypeOK, SetApplied, Steps, boundVars
<1>17. CASE \E s \in Service : BecomeHealthy(s)
  BY <1>17 DEF TypeOK, BecomeHealthy, handlerVars, boundVars
<1>18. CASE UNCHANGED vars
  BY <1>18 DEF TypeOK, vars, handlerVars, boundVars
<1> QED
  BY <1>1, <1>2, <1>3, <1>4, <1>5, <1>6, <1>7, <1>8, <1>9, <1>10, <1>11,
     <1>12, <1>13, <1>14, <1>15, <1>16, <1>17, <1>18
  DEF Next, Handler, Errors, Environment, SkipDraft, CheckRefused,
      ApplyFailed, Return, Crash, ControllerUpgrade

\* The variables of Deployment have their types at the start.
LEMMA TypeInit == Init => TypeOK
<1> SUFFICES ASSUME Init PROVE TypeOK
  OBVIOUS
<1>1. spec \in Specs
  BY DEF Init, NoSpec, Specs
<1>2. status \in [state : {"none", "APPLYING", "APPLIED"}, of : Contents]
  BY NoSpecType DEF Init
<1>3. {spec, handled, old, body, mspec} \subseteq Specs
  BY <1>1, NoSpecType DEF Init
<1>4. {resume, failed} \subseteq BOOLEAN /\ pc \in Steps
  BY DEF Init, Steps
<1>5. installed \in [Service -> Contents] /\ healthy \in [Service -> BOOLEAN]
  BY NoSpecType DEF Init
<1>6. lock \in [state : {"none", "active", "inactive"}, release : Nat]
  BY DEF Init
<1>7. /\ release \in Nat /\ event \in {"create", "update", "resume"}
      /\ turn \in Nat /\ tasks \subseteq Service
      /\ {crashes, errors, permanents} \subseteq Nat
  BY DEF Init
<1> QED BY <1>2, <1>3, <1>4, <1>5, <1>6, <1>7, Zenon DEF TypeOK

\* The variables keep their types for every set of services, every upgrade
\* order and all bounds of the handler of the OpenStackDeployment.
THEOREM DeploymentTypeCorrect == Spec => []TypeOK
BY TypeInit, TypeStep, PTL DEF Spec

-----------------------------------------------------------------------------
\* Every step keeps the inductive invariant: one case per action that touches
\* the state of the handler, the services or the status.
LEMMA StatusStep == StatusInv /\ [Next]_vars => StatusInv'
<1> SUFFICES ASSUME StatusInv, [Next]_vars PROVE StatusInv'
  OBVIOUS
<1>0. TypeOK /\ TypeOK'
  BY TypeStep DEF StatusInv
<1> USE DEF StatusInv, ShowsApplying, TasksComplete, DoneIsInstalled,
            AppliedIsInstalled, Working
<1>1. CASE EditVersion \/ EditOther
  BY <1>0, <1>1
  DEF EditVersion, EditOther, Edit, handlerVars, boundVars, Wanted
<1>2. CASE Dispatch
  BY <1>0, <1>2 DEF Dispatch
<1>3. CASE Handled \/ HandlerError \/ Crash \/ ControllerUpgrade
  BY <1>0, <1>3
  DEF Handled, HandlerError, Crash, ControllerUpgrade, Replaced, Idle
<1>4. CASE ReadSpec
  BY <1>0, <1>4 DEF ReadSpec
<1>5. CASE SetApplying
  BY <1>0, <1>5 DEF SetApplying
<1>6. CASE LockPresent \/ CheckPassed
  BY <1>0, <1>6 DEF LockPresent, CheckPassed
<1>7. CASE Prepare
  BY <1>0, <1>7 DEF Prepare
<1>8. CASE UpgradeApply
  BY <1>0, <1>8 DEF UpgradeApply
<1>9. CASE UpgradeDone \/ UpgradeRetry
  BY <1>0, <1>9 DEF UpgradeDone, UpgradeRetry
<1>10. ASSUME NEW s \in Service, Apply(s)
       PROVE  StatusInv'
  <2>1. \A t \in Service :
          t \notin tasks' /\ ~failed' => installed'[t] = Wanted'
    BY <1>0, <1>10 DEF Apply, Install, Wanted, TypeOK
  <2> QED BY <1>0, <1>10, <2>1 DEF Apply
<1>11. ASSUME NEW s \in Service, ApplyPermanent(s)
       PROVE  StatusInv'
  BY <1>0, <1>11 DEF ApplyPermanent
<1>12. CASE SetApplied
  <2>1. \A s \in Service : installed'[s] = Wanted
    BY <1>0, <1>12 DEF SetApplied
  <2> QED BY <1>0, <1>12, <2>1 DEF SetApplied
<1>13. CASE \E s \in Service : BecomeHealthy(s)
  BY <1>0, <1>13 DEF BecomeHealthy, handlerVars, Wanted
<1>14. CASE UNCHANGED vars
  BY <1>0, <1>14 DEF vars, handlerVars, Wanted
<1> QED
  BY <1>1, <1>2, <1>3, <1>4, <1>5, <1>6, <1>7, <1>8, <1>9, <1>10, <1>11,
     <1>12, <1>13, <1>14
  DEF Next, Handler, Errors, Environment, SkipDraft, CheckRefused,
      ApplyFailed, Return

\* A deployment that nobody has handled satisfies the invariant.
LEMMA StatusInit == Init => StatusInv
BY TypeInit DEF Init, StatusInv, ShowsApplying, TasksComplete,
   DoneIsInstalled, AppliedIsInstalled, Working

\* The status object never says APPLIED of a deployment that is not: for
\* every set of services, every order of upgrade, and however edits, errors,
\* crashes and upgrades of the controller interleave with _handle.
THEOREM AppliedIsTrue == Spec => []AppliedIsInstalled
<1>1. StatusInv => AppliedIsInstalled
  BY DEF StatusInv
<1> QED BY <1>1, StatusInit, StatusStep, PTL DEF Spec
-----------------------------------------------------------------------------
(* The order of upgrade.  Users edit the version, draft and restore of a      *)
(* deployment only while its handler rests (Patient): then what the handler   *)
(* was called with, what it reads and what it compares with agree.            *)

InOrder == 1..Len(Order)
At(i) == Version(Order[i])

\* A version that is accepted and not handled yet.
Upgrading == handled # NoSpec /\ handled.version # spec.version

\* What the running handler knows of the version is still so.
HandlerKnows ==
  /\ spec.version > 0
  /\ pc # "idle" =>
       /\ old = handled /\ (event = "create" <=> handled = NoSpec)
       /\ body.version = spec.version /\ body.draft = spec.draft
       /\ body.restore = spec.restore
  /\ pc \notin {"idle", "called"} => mspec.version = spec.version
  /\ status.state = "APPLIED" => status.of.spec.version > 0

\* Outside of an upgrade the services have the version of the spec or none.
OneVersion == ~Upgrading => \A i \in InOrder : At(i) \in {0, spec.version}

\* During one they have the version of the spec up to some service, and from
\* there on the one handled last; neither a draft nor a restore comes between.
TwoVersions ==
  Upgrading =>
    /\ handled.version < spec.version /\ ~spec.draft /\ ~spec.restore
    /\ \A i \in InOrder : At(i) \in {handled.version, spec.version}
    /\ \A i, j \in InOrder : i < j /\ At(j) = spec.version => At(i) = spec.version

\* Where the procedure is, and what is behind it.
Procedure ==
  /\ pc \in {"upgrade", "upgraded"} =>
       /\ Upgrading /\ turn \in InOrder
       /\ \A i \in InOrder : i < turn => At(i) = spec.version
  /\ pc = "upgraded" => At(turn) = spec.version
  /\ pc \in {"apply", "applied"} /\ Upgrading =>
       \A i \in InOrder : At(i) = spec.version

OrderInv == HandlerKnows /\ OneVersion /\ TwoVersions /\ Procedure

\* The fields that the handler goes by.
Fields == <<spec.version, spec.draft, spec.restore>>

\* An edit leaves these fields alone, or the handler rests: the version then
\* goes up by one when every service has the one before.
LEMMA EditKinds ==
  ASSUME Patient, TypeOK, EditVersion \/ EditOther
  PROVE  /\ UNCHANGED <<handled, handlerVars, installed, status>>
         /\ \/ UNCHANGED Fields
            \/ Rests /\ spec'.version = spec.version
            \/ /\ Rests /\ status.state = "APPLIED" /\ ~spec.draft /\ ~spec.restore
               /\ spec'.version = spec.version + 1
               /\ spec'.draft = spec.draft /\ spec'.restore = spec.restore
<1>0. spec \in Specs
  BY DEF TypeOK
<1>1. CASE EditVersion
  <2>1. spec' = [[spec EXCEPT !.version = @ + 1] EXCEPT !.edit = @ + 1]
    BY <1>1 DEF EditVersion, Edit
  <2> QED BY <1>0, <1>1, <2>1 DEF EditVersion, Edit, Specs
<1>2. CASE Edit("change", spec)
  BY <1>0, <1>2 DEF Edit, Fields, Specs
<1>3. CASE Rests /\ Edit("draft", [spec EXCEPT !.draft = ~@])
  BY <1>0, <1>3 DEF Edit, Specs
<1>4. CASE Rests /\ Edit("restore", [spec EXCEPT !.restore = ~@])
  BY <1>0, <1>4 DEF Edit, Specs
<1> QED BY <1>1, <1>2, <1>3, <1>4 DEF EditOther

\* A version that counts as handled has been reached by every service in the
\* order of upgrade, or was the first.
LEMMA HandledInOrder ==
  ASSUME TypeOK, OrderInv, Handled, pc # "idle", installed' = installed,
         Upgrading => pc \in {"apply", "applied"}
  PROVE  OrderInv'
<1>1. /\ handled' = body /\ pc' = "idle" /\ UNCHANGED <<spec, status>>
  BY DEF Handled, Idle
<1>2. handled'.version = spec'.version /\ spec'.version = spec.version
  BY <1>1 DEF OrderInv, HandlerKnows
<1>3. \A i : At(i)' = At(i)
  BY DEF At, Version
<1>4. \A i \in InOrder : At(i) \in {0, spec.version}
  BY DEF OrderInv, OneVersion, Procedure
<1> QED BY <1>1, <1>2, <1>3, <1>4
        DEF OrderInv, HandlerKnows, OneVersion, TwoVersions, Procedure, Upgrading

\* Every step keeps the invariant of the order.
LEMMA OrderStep ==
  ASSUME Patient, StatusInv, OrderInv, [Next]_vars
  PROVE  OrderInv'
<1>0. TypeOK /\ AppliedIsInstalled
  BY DEF StatusInv
<1>a. /\ {spec, handled, body, mspec} \subseteq Specs /\ pc \in Steps
      /\ installed \in [Service -> Contents] /\ turn \in Nat
  BY <1>0 DEF TypeOK
<1>b. /\ Len(Order) \in Nat /\ \A i \in InOrder : Order[i] \in Service
      /\ \A i, j \in InOrder : Order[i] = Order[j] => i = j
  BY DeploymentAssumption DEF InOrder
<1>c. \A i \in InOrder : At(i) \in Nat
  BY <1>a, <1>b DEF At, Version, Contents, Specs
<1>d. spec.version \in Nat /\ handled.version \in Nat
  BY <1>a DEF Specs
<1> USE DEF OrderInv, HandlerKnows, OneVersion, TwoVersions, Procedure, Upgrading
<1>1. CASE EditVersion \/ EditOther
  <2>1. UNCHANGED <<handled, pc, event, old, body, mspec, turn, status>> /\ \A i : At(i)' = At(i)
    BY <1>0, <1>1, EditKinds DEF handlerVars, At, Version
  <2>2. CASE UNCHANGED Fields
    BY <2>1, <2>2 DEF Fields
  <2>3. CASE Rests /\ spec'.version = spec.version
    BY <2>1, <2>3 DEF Rests
  <2>4. CASE /\ Rests /\ status.state = "APPLIED" /\ ~spec.draft /\ ~spec.restore
             /\ spec'.version = spec.version + 1
             /\ spec'.draft = spec.draft /\ spec'.restore = spec.restore
    <3>1. handled = spec /\ ~Upgrading /\ pc = "idle"
      BY <2>4 DEF Rests
    <3>2. \A i \in InOrder : At(i) = status.of.spec.version
      BY <1>0, <1>b, <2>4 DEF AppliedIsInstalled, At, Version
    <3>3. \A i \in InOrder : At(i) = spec.version
      BY <1>0, <2>4, <3>1, <3>2 DEF TypeOK, Contents, Specs
    <3>4. handled # NoSpec
      BY <3>1 DEF NoSpec
    <3> QED BY <1>c, <1>d, <2>1, <2>4, <3>1, <3>3, <3>4
  <2> QED BY <1>0, <1>1, <2>2, <2>3, <2>4, EditKinds
<1>2. CASE Dispatch
  <2>1. /\ UNCHANGED <<spec, handled, turn, status>> /\ pc' = "called" /\ old' = handled
        /\ body' = spec /\ (event' = "create" <=> handled = NoSpec)
    BY <1>2 DEF Dispatch
  <2>2. \A i : At(i)' = At(i)
    BY <1>2 DEF Dispatch, At, Version
  <2> QED BY <1>2, <2>1, <2>2
<1>3. CASE Handled /\ (SkipDraft \/ CheckRefused \/ ApplyFailed \/ Return)
  <2>1. installed' = installed
    BY <1>3 DEF Handled
  <2>2. pc # "idle" /\ (Upgrading => pc \in {"apply", "applied"})
    BY <1>3 DEF SkipDraft, CheckRefused, ApplyFailed, Return, HandlingAllowed
  <2> QED BY <1>0, <1>3, <2>1, <2>2, HandledInOrder
<1>4. CASE HandlerError \/ Crash \/ ControllerUpgrade
  <2>1. pc' = "idle" /\ UNCHANGED <<spec, handled, status>>
    BY <1>4 DEF HandlerError, Crash, ControllerUpgrade, Replaced, Idle
  <2>2. \A i : At(i)' = At(i)
    BY <1>4 DEF HandlerError, Crash, ControllerUpgrade, Replaced, At, Version
  <2> QED BY <2>1, <2>2
<1>5. CASE ReadSpec \/ SetApplying \/ LockPresent \/ CheckPassed
  <2>1. /\ UNCHANGED <<spec, handled, event, old, body, turn>>
        /\ pc \in {"called", "read", "lock", "check"}
        /\ pc' \in {"read", "lock", "check", "prepare"}
        /\ pc = "called" => mspec' = spec
        /\ pc # "called" => mspec' = mspec
        /\ status' = status \/ status'.state = "APPLYING"
    BY <1>5 DEF ReadSpec, SetApplying, LockPresent, CheckPassed
  <2>2. \A i : At(i)' = At(i)
    BY <1>5 DEF ReadSpec, SetApplying, LockPresent, CheckPassed, At, Version
  <2> QED BY <2>1, <2>2
<1>6. CASE Prepare
  <2>1. /\ UNCHANGED <<spec, handled, event, old, body, mspec, status>>
        /\ pc = "prepare" /\ turn' = 1
        /\ pc' = IF VersionChanged /\ Order # <<>> THEN "upgrade" ELSE "apply"
    BY <1>6 DEF Prepare
  <2>2. \A i : At(i)' = At(i)
    BY <1>6 DEF Prepare, At, Version
  <2>3. VersionChanged <=> Upgrading
    BY <2>1 DEF VersionChanged
  <2>4. Order # <<>> => 1 \in InOrder
    BY DeploymentAssumption DEF InOrder
  <2>5. Order = <<>> => InOrder = {}
    BY DEF InOrder
  <2>6. \A i \in InOrder : ~(i < 1)
    BY DEF InOrder
  <2> QED BY <2>1, <2>2, <2>3, <2>4, <2>5, <2>6
<1>7. CASE UpgradeApply
  <2>1. /\ UNCHANGED <<spec, handled, event, old, body, mspec, turn, status>>
        /\ pc = "upgrade" /\ pc' = "upgraded"
        /\ installed' = [installed EXCEPT ![Order[turn]] = Wanted]
    BY <1>7 DEF UpgradeApply, Install
  <2>2. turn \in InOrder
    BY <2>1
  <2>3. \A i \in InOrder : At(i)' = IF i = turn THEN spec.version ELSE At(i)
    BY <1>a, <1>b, <2>1, <2>2 DEF At, Version, Wanted
  <2> QED BY <2>1, <2>2, <2>3 DEF InOrder
<1>8. CASE UpgradeDone \/ UpgradeRetry
  <2>1. /\ UNCHANGED <<spec, handled, event, old, body, mspec, status>>
        /\ pc = "upgraded"
        /\ \/ pc' = "upgrade" /\ turn' = turn
           \/ pc' = "upgrade" /\ turn' = turn + 1 /\ turn < Len(Order)
           \/ pc' = "apply" /\ ~(turn < Len(Order))
    BY <1>8 DEF UpgradeDone, UpgradeRetry
  <2>2. \A i : At(i)' = At(i)
    BY <1>8 DEF UpgradeDone, UpgradeRetry, At, Version
  <2>3. \A i \in InOrder : i <= turn => At(i) = spec.version
    BY <2>1 DEF InOrder
  <2> QED BY <1>b, <2>1, <2>2, <2>3 DEF InOrder
<1>9. ASSUME NEW s \in Service, Apply(s) PROVE OrderInv'
  <2>1. /\ UNCHANGED <<spec, handled, pc, event, old, body, mspec, status>> /\ pc = "apply"
        /\ installed' = [installed EXCEPT ![s] = Wanted]
    BY <1>9 DEF Apply, Install
  <2>2. \A i \in InOrder : At(i)' \in {At(i), spec.version}
    BY <1>a, <1>b, <2>1 DEF At, Version, Wanted
  <2> QED BY <2>1, <2>2
<1>10. ASSUME NEW s \in Service, ApplyPermanent(s) \/ BecomeHealthy(s) PROVE OrderInv'
  BY <1>10 DEF ApplyPermanent, BecomeHealthy, handlerVars, At, Version
<1>11. CASE SetApplied
  <2>1. /\ UNCHANGED <<spec, handled, event, old, body, mspec>>
        /\ pc = "apply" /\ pc' = "applied" /\ status'.of.spec = mspec
    BY <1>11 DEF SetApplied, Wanted
  <2>2. \A i : At(i)' = At(i)
    BY <1>11 DEF SetApplied, At, Version
  <2> QED BY <2>1, <2>2
<1>12. CASE UNCHANGED vars
  BY <1>12 DEF vars, handlerVars, At, Version
<1> QED
  BY <1>1, <1>2, <1>3, <1>4, <1>5, <1>6, <1>7, <1>8, <1>9, <1>10, <1>11, <1>12
  DEF Next, Handler, Errors, Environment, SkipDraft, CheckRefused, ApplyFailed, Return

\* No service has a version at first.
LEMMA OrderInit == Init => OrderInv
<1> SUFFICES ASSUME Init PROVE OrderInv
  OBVIOUS
<1>1. spec.version = 1 /\ handled = NoSpec /\ pc = "idle" /\ status.state = "none"
  BY DEF Init, NoSpec
<1>2. \A i \in InOrder : At(i) = 0
  <2>1. \A i \in InOrder : Order[i] \in Service
    BY DeploymentAssumption DEF InOrder
  <2> QED BY <2>1 DEF Init, At, Version, Nothing, NoSpec
<1> QED BY <1>1, <1>2
        DEF OrderInv, HandlerKnows, OneVersion, TwoVersions, Procedure, Upgrading

\* The invariant says more than the order.
LEMMA OrderInvImplies == TypeOK /\ OrderInv => UpgradeInOrder
<1> SUFFICES ASSUME TypeOK, OrderInv, NEW i \in InOrder, NEW j \in InOrder, i < j, At(i) > 0
             PROVE  At(j) <= At(i)
  BY DEF UpgradeInOrder, At, InOrder
<1>1. spec.version \in Nat /\ handled.version \in Nat
  BY DEF TypeOK, Specs
<1> QED BY <1>1 DEF OrderInv, OneVersion, TwoVersions

\* Services are upgraded in their order, for every order and every number of
\* them: an upgrade that crashed or failed on the way is taken up again by the
\* procedure and not by applying all services at once, provided that users
\* change version, draft and restore while the handler rests.
THEOREM OrderIsKept ==
  ASSUME Patient PROVE Spec => []UpgradeInOrder
<1>1. StatusInv /\ OrderInv /\ [Next]_vars => OrderInv'
  BY OrderStep
<1>2. StatusInv /\ OrderInv => UpgradeInOrder
  BY OrderInvImplies DEF StatusInv
<1> QED BY <1>1, <1>2, OrderInit, StatusInit, StatusStep, PTL DEF Spec
-----------------------------------------------------------------------------
(* The composition *)

\* The change handler runs only for a request that exists, and a lock is
\* released only for one.
LockInv == LockTakenBack /\ (cpc # "idle" => cmr # "none")

CmrStep == CmrHandler \/ HealthTimeout \/ CreateCmr \/ DeleteCmr \/ CmrCrash

-----------------------------------------------------------------------------
\* A step of the composition is one of Deployment or one of the handler of
\* the request and its environment, or changes nothing.
LEMMA StepKinds ==
  ASSUME [ClusterNext]_cvars
  PROVE  \/ Next /\ UNCHANGED cmrVars
         \/ ControllerUpgrade /\ CmrReplaced
         \/ CmrStep
         \/ UNCHANGED cvars
BY DEF ClusterNext, CmrStep, Next, Environment

\* The handlers of the cluster maintenance request change of the variables of
\* Deployment only the lock and the count of errors or crashes.
LEMMA CmrFrame ==
  ASSUME CmrStep
  PROVE  UNCHANGED <<spec, handled, resume, release, pc, event, old, body,
                     mspec, turn, tasks, failed, installed, healthy, status>>
BY DEF CmrStep, CmrHandler, HealthTimeout, CreateCmr, DeleteCmr, CmrCrash,
       ReadStatus, Defer, AlreadyReleased, CheckRelease, SeeHealthy, Release,
       CmrDelete, DeploymentUnchanged, CmrReplaced, handlerVars

\* They keep the type of the lock and of the counters.
LEMMA CmrTypes ==
  ASSUME TypeOK, CmrStep
  PROVE  /\ lock' \in [state : {"none", "active", "inactive"}, release : Nat]
         /\ {crashes', errors', permanents'} \subseteq Nat
<1>1. CASE Release \/ CmrDelete
  BY <1>1 DEF TypeOK, Release, CmrDelete, DeploymentUnchanged, boundVars
<1>2. CASE HealthTimeout \/ CmrCrash
  BY <1>2 DEF TypeOK, HealthTimeout, CmrCrash, CmrIdle, CmrReplaced
<1>3. CASE UNCHANGED lock /\ DeploymentUnchanged
  BY <1>3 DEF TypeOK, DeploymentUnchanged, boundVars
<1> QED
  BY <1>1, <1>2, <1>3
  DEF CmrStep, CmrHandler, CreateCmr, DeleteCmr, ReadStatus, Defer,
      AlreadyReleased, CheckRelease, SeeHealthy

\* The inductive invariant of Deployment is one of the composition.
LEMMA ClusterStatusStep == StatusInv /\ [ClusterNext]_cvars => StatusInv'
<1> SUFFICES ASSUME StatusInv, [ClusterNext]_cvars PROVE StatusInv'
  OBVIOUS
<1>1. CASE Next
  BY <1>1, StatusStep
<1>2. CASE ControllerUpgrade
  BY <1>2, StatusStep DEF Next, Environment
<1>3. CASE CmrStep
  BY <1>3, CmrFrame, CmrTypes
  DEF StatusInv, TypeOK, ShowsApplying, TasksComplete, DoneIsInstalled,
      AppliedIsInstalled, Wanted
<1>4. CASE UNCHANGED cvars
  BY <1>4, StatusStep DEF cvars
<1> QED BY <1>1, <1>2, <1>3, <1>4, StepKinds

\* The composition starts in a state of the invariant.
LEMMA ClusterStatusInit == ClusterInit => StatusInv
BY StatusInit DEF ClusterInit

\* The status that the handler of the request reads is true: APPLIED means
\* that every service is installed from what the status names.
THEOREM ClusterAppliedIsTrue == ClusterSpec => []AppliedIsInstalled
<1>1. StatusInv => AppliedIsInstalled
  BY DEF StatusInv
<1> QED BY <1>1, ClusterStatusInit, ClusterStatusStep, PTL DEF ClusterSpec

\* So does the order of upgrade: the handlers of the request touch neither the
\* versions nor the handler of the deployment.
THEOREM ClusterOrderIsKept ==
  ASSUME Patient PROVE ClusterSpec => []UpgradeInOrder
<1>1. ASSUME StatusInv, OrderInv, [ClusterNext]_cvars PROVE OrderInv'
  <2>1. CASE Next \/ UNCHANGED vars
    BY <1>1, <2>1, OrderStep
  <2>2. CASE ControllerUpgrade
    BY <1>1, <2>2, OrderStep DEF Next, Environment
  <2>3. CASE CmrStep
    BY <1>1, <2>3, CmrFrame
    DEF OrderInv, HandlerKnows, OneVersion, TwoVersions, Procedure, Upgrading, At,
        Version
  <2> QED BY <1>1, <2>1, <2>2, <2>3, StepKinds DEF cvars
<1>2. StatusInv /\ OrderInv => UpgradeInOrder
  BY OrderInvImplies DEF StatusInv
<1>3. ClusterInit => OrderInv
  BY OrderInit DEF ClusterInit
<1> QED BY <1>1, <1>2, <1>3, ClusterStatusInit, ClusterStatusStep, PTL
        DEF ClusterSpec

-----------------------------------------------------------------------------
\* No step of the OpenStackDeployment handler or of its environment releases
\* the lock; cwl.present() makes it active or leaves it as it is.
LEMMA DeploymentKeepsLock ==
  ASSUME Next
  PROVE  lock' = lock \/ lock'.state = "active"
BY DEF Next, Handler, Errors, Environment, EditVersion, EditOther, Edit,
       Dispatch, SkipDraft, Handled, HandlerError, ReadSpec, SetApplying,
       LockPresent, CheckRefused, CheckPassed, Prepare, UpgradeApply,
       UpgradeDone, UpgradeRetry, Apply, ApplyPermanent, ApplyFailed,
       SetApplied, Return, Crash, ControllerUpgrade, Replaced, BecomeHealthy

\* A request that is gone has given the lock back, for every number of
\* services, requests, crashes and upgrades of the controller.
THEOREM LockComesBack == ClusterSpec => []LockTakenBack
<1>1. ClusterInit => LockInv
  BY DEF ClusterInit, Init, LockInv, LockTakenBack
<1>2. TypeOK /\ LockInv /\ [ClusterNext]_cvars => LockInv'
  <2> SUFFICES ASSUME TypeOK, LockInv, [ClusterNext]_cvars PROVE LockInv'
    OBVIOUS
  <2> USE DEF LockInv, LockTakenBack
  <2>1. CASE Next /\ UNCHANGED cmrVars
    BY <2>1, DeploymentKeepsLock DEF cmrVars
  <2>2. CASE ControllerUpgrade /\ CmrReplaced
    BY <2>2 DEF ControllerUpgrade, Replaced, CmrReplaced
  <2>3. CASE ReadStatus \/ CheckRelease \/ \E s \in Service : SeeHealthy(s)
    BY <2>3 DEF ReadStatus, CheckRelease, SeeHealthy
  <2>4. CASE Defer \/ AlreadyReleased \/ HealthTimeout
    BY <2>4 DEF Defer, AlreadyReleased, HealthTimeout, CmrIdle
  <2>5. CASE Release
    BY <2>5 DEF Release, CmrIdle
  <2>6. CASE CmrDelete
    BY <2>6 DEF CmrDelete, TypeOK
  <2>7. CASE CreateCmr \/ DeleteCmr
    BY <2>7 DEF CreateCmr, DeleteCmr
  <2>8. CASE CmrCrash
    BY <2>8 DEF CmrCrash, CmrReplaced
  <2>9. CASE UNCHANGED cvars
    BY <2>9 DEF cvars, vars, cmrVars
  <2> QED
    BY <2>1, <2>2, <2>3, <2>4, <2>5, <2>6, <2>7, <2>8, <2>9, StepKinds
    DEF CmrStep, CmrHandler
<1>3. LockInv => LockTakenBack
  BY DEF LockInv
<1>4. StatusInv => TypeOK
  BY DEF StatusInv
<1> QED BY <1>1, <1>2, <1>3, <1>4, ClusterStatusInit, ClusterStatusStep, PTL
        DEF ClusterSpec
=============================================================================
