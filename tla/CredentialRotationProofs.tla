---------------------- MODULE CredentialRotationProofs ----------------------
(***************************************************************************)
(* Proofs about CredentialRotation, for every deployment: any services,    *)
(* features, requests, restarts and orders in which services are tried.    *)
(***************************************************************************)
EXTENDS CredentialRotation, TLAPS

-----------------------------------------------------------------------------
(* Pairs of secrets *)

Pair == [Slot -> [password : Nat, key : Nat, priority : Nat]]

\* k8s_secrets finds both: priorities are the numbers of rotations, and no two
\* rotations of an owner have the same.
Distinct(pair) == pair[1].priority = pair[2].priority => pair[1].priority = 0

\* One is active, the other is the backup.
LEMMA PairOrder ==
  ASSUME NEW pair \in Pair, Distinct(pair)
  PROVE  /\ active(pair) \in Slot /\ backup(pair) \in Slot
         /\ active(pair) # backup(pair)
         /\ pair[backup(pair)].priority <= pair[active(pair)].priority
<1>1. pair[1].priority \in Nat /\ pair[2].priority \in Nat
  BY DEF Pair, Slot
<1>2. CASE pair[2].priority > pair[1].priority
  <2>1. k8s_secrets(pair) = <<2, 1>>
    BY <1>1, <1>2 DEF k8s_secrets
  <2> QED BY <1>1, <1>2, <2>1 DEF active, backup, Slot
<1>3. CASE ~(pair[2].priority > pair[1].priority)
  <2>1. k8s_secrets(pair) = <<1, 2>>
    BY <1>1, <1>3 DEF k8s_secrets, Distinct
  <2> QED BY <1>1, <1>3, <2>1 DEF active, backup, Slot
<1> QED BY <1>2, <1>3

\* The order is one of priorities only.
LEMMA SameOrder ==
  ASSUME NEW p \in Pair, NEW q \in Pair, \A i \in Slot : q[i].priority = p[i].priority
  PROVE  /\ active(q) = active(p) /\ backup(q) = backup(p)
         /\ Distinct(p) => Distinct(q)
<1>1. k8s_secrets(q) = k8s_secrets(p)
  BY DEF k8s_secrets, Slot
<1> QED BY <1>1 DEF active, backup, Distinct, Slot

\* A backup with new contents is still the backup.
LEMMA FilledPair ==
  ASSUME NEW p \in Pair, Distinct(p),
         NEW x \in [password : Nat, key : Nat, priority : Nat],
         x.priority = p[backup(p)].priority
  PROVE  LET q == [p EXCEPT ![backup(p)] = x]
         IN  /\ q \in Pair /\ Distinct(q)
             /\ active(q) = active(p) /\ backup(q) = backup(p)
             /\ q[active(p)] = p[active(p)] /\ q[backup(p)] = x
<1> DEFINE q == [p EXCEPT ![backup(p)] = x]
<1>1. backup(p) \in Slot /\ active(p) \in Slot /\ active(p) # backup(p)
  BY PairOrder
<1>2. q \in Pair /\ q[active(p)] = p[active(p)] /\ q[backup(p)] = x
  BY <1>1 DEF Pair
<1>3. \A i \in Slot : q[i].priority = p[i].priority
  BY <1>1 DEF Pair
<1> HIDE DEF q
<1>4. active(q) = active(p) /\ backup(q) = backup(p) /\ Distinct(q)
  BY <1>2, <1>3, SameOrder
<1> QED BY <1>2, <1>4 DEF q

\* A backup that gets a higher priority than the active one changes places
\* with it.
LEMMA PromotedPair ==
  ASSUME NEW p \in Pair, Distinct(p), NEW id \in Nat, p[active(p)].priority < id
  PROVE  LET q == [p EXCEPT ![backup(p)].priority = id]
         IN  /\ q \in Pair /\ Distinct(q)
             /\ active(q) = backup(p) /\ backup(q) = active(p)
             /\ q[active(p)] = p[active(p)]
             /\ q[backup(p)] = [p[backup(p)] EXCEPT !.priority = id]
             /\ q[backup(p)].priority = id
             /\ q[backup(p)].password = p[backup(p)].password
             /\ q[backup(p)].key = p[backup(p)].key
<1> DEFINE q == [p EXCEPT ![backup(p)].priority = id]
<1>1. backup(p) \in Slot /\ active(p) \in Slot /\ active(p) # backup(p)
  BY PairOrder
<1>2. /\ q \in Pair /\ q[active(p)] = p[active(p)]
      /\ q[backup(p)] = [p[backup(p)] EXCEPT !.priority = id]
      /\ q[backup(p)].priority = id
      /\ q[backup(p)].password = p[backup(p)].password
      /\ q[backup(p)].key = p[backup(p)].key
  BY <1>1 DEF Pair
<1> HIDE DEF q
<1>3. q[1].priority \in Nat /\ q[2].priority \in Nat
  BY <1>2 DEF Pair, Slot
<1>4. q[active(p)].priority < q[backup(p)].priority
  BY <1>2
<1>5. \/ active(p) = 1 /\ backup(p) = 2 /\ q[1].priority < q[2].priority
      \/ active(p) = 2 /\ backup(p) = 1 /\ q[2].priority < q[1].priority
  BY <1>1, <1>4 DEF Slot
<1>6. Distinct(q)
  BY <1>3, <1>5 DEF Distinct
<1>7. active(q) = backup(p) /\ backup(q) = active(p)
  <2>1. /\ active(q) \in Slot /\ backup(q) \in Slot /\ active(q) # backup(q)
        /\ q[backup(q)].priority <= q[active(q)].priority
    BY <1>2, <1>6, PairOrder
  <2> QED BY <1>3, <1>5, <2>1 DEF Slot
<1> QED BY <1>2, <1>6, <1>7 DEF q

\* A new pair.
LEMMA NewPair ==
  /\ create \in Pair /\ Distinct(create)
  /\ \A n \in Nat : /\ [create EXCEPT ![1].priority = n] \in Pair
                    /\ Distinct([create EXCEPT ![1].priority = n])
<1>1. create \in Pair /\ Distinct(create)
  BY DEF create, Pair, Slot, Distinct
<1>2. ASSUME NEW n \in Nat
      PROVE  /\ [create EXCEPT ![1].priority = n] \in Pair
             /\ Distinct([create EXCEPT ![1].priority = n])
  BY <1>1 DEF create, Pair, Slot, Distinct
<1> QED BY <1>1, <1>2

-----------------------------------------------------------------------------
(* What an apply makes *)

\* An attempt only adds secrets, whether it ends or stops at a wait.
LEMMA OutcomeGrows ==
  ASSUME NEW s, NEW d, NEW h, NEW outcome \in Outcomes(s, d, h)
  PROVE  h \subseteq outcome.have
<1>1. \A steps, g : g \subseteq Outcome(steps, g).have
  BY DEF Outcome
<1>2. CASE s = "tempest"
  <2> DEFINE others == d.services \ {"tempest", "redis"}
             own == Outcome(OpenStackArgs("tempest", d), h).have
             made(T) == own \cup UNION {Outcome(template_args(t, d), own).have : t \in T}
             all == \A t \in others : Outcome(template_args(t, d), made(others)).ok
  <2>1. TempestOutcomes(d, h) =
          IF all THEN {[ok |-> TRUE, have |-> made(others)]}
                 ELSE {[ok |-> FALSE, have |-> made(T)] : T \in SUBSET others}
    BY Zenon DEF TempestOutcomes
  <2>2. h \subseteq own
    BY <1>1
  <2> HIDE DEF own, all
  <2>3. \A T : h \subseteq made(T)
    BY <2>2
  <2>4. outcome \in TempestOutcomes(d, h)
    BY <1>2 DEF Outcomes
  <2> HIDE DEF made
  <2> QED BY <2>1, <2>3, <2>4
<1>3. CASE s # "tempest"
  BY <1>1, <1>3 DEF Outcomes
<1> QED BY <1>2, <1>3
-----------------------------------------------------------------------------
(* Types, and the rotation of one owner *)

Calls == [services : SUBSET STRING, ids : [Group -> Nat]]

UserOK ==
  /\ spec \in Deployed /\ Members \subseteq Service
  /\ requested \in [Group -> Nat] /\ handled \in Calls /\ want \in Calls

HandlerOK ==
  /\ pc \in {"idle", "admin", "database", "service", "apply"}
  /\ todo \subseteq Owner \ {"admin"}
  /\ DOMAIN task # {} => pc \in {"database", "apply"}
  /\ pc # "idle" => "admin" \in have

SecretsOK == sec \in [Owners -> Pair] /\ \A o \in Owners : Distinct(sec[o])

\* Between the two calls of a rotation the backup has its new contents, with
\* the key of the active secret, and a priority that is lower than the
\* request's.
DoingOK ==
  doing # "none" =>
    /\ doing \in Owners /\ pc \in Group /\ (pc = "admin" <=> doing = "admin")
    /\ pc = "service" => doing \in todo
    /\ sec[doing][active(sec[doing])].priority < want.ids[pc]
    /\ doing \in Keyed =>
         sec[doing][backup(sec[doing])].key = sec[doing][active(sec[doing])].key

RotationInv == UserOK /\ HandlerOK /\ SecretsOK /\ DoingOK

\* The names of owners, of secrets that others make and of no owner at all
\* are different.
LEMMA Names ==
  /\ Secrets \cap Owner = {} /\ "none" \notin Owner /\ "admin" \notin Keyed
  /\ "admin" \in Owner /\ "admin" \notin Service
<1>1. \A o \in Owner : o \in OSServices \/ o = "dynamic-resource-balancer" \/ o = "admin"
  BY DEF Owner, HasSecret
<1>2. \A o \in Secrets : o \notin OSServices /\ o # "dynamic-resource-balancer" /\ o # "admin"
  BY DEF Secrets, OSServices
<1>3. "none" \notin OSServices
  BY DEF OSServices
<1>4. "admin" \in Owner /\ "admin" \notin Keyed
  BY DEF Owner, Keyed
<1> QED BY <1>1, <1>2, <1>3, <1>4, RotationAssumption

\* A step that keeps the secrets there are and adds new pairs.
Adds ==
  /\ Owners \subseteq Owners' /\ sec' \in [Owners' -> Pair]
  /\ \A o \in Owners : sec'[o] = sec[o]
  /\ \A o \in Owners' : o \notin Owners => sec'[o] = create

\* ensure leaves a pair that exists alone and creates the missing ones.
LEMMA SecretsAdded ==
  ASSUME SecretsOK, have \subseteq have', sec' = SecretsOf(have')
  PROVE  Adds /\ SecretsOK'
BY NewPair DEF SecretsOK, SecretsOf, Owners, Adds

\* A step that leaves secrets and owners alone is one of those.
LEMMA SecretsSame ==
  ASSUME SecretsOK, Owners' = Owners, sec' = sec
  PROVE  Adds /\ SecretsOK'
BY DEF SecretsOK, Adds

\* The step of one owner's rotation, for the group the handler is at.
At(g, o) ==
  pc = g /\ o \in Owner /\ (o = "admin" <=> g = "admin") /\ (g = "service" => o \in todo)

SaveStep == \E g \in Group, o \in Owner : At(g, o) /\ Save(o, want.ids[g])
PromoteStep ==
  \E g \in Group, o \in Owner :
    /\ At(g, o) /\ doing = o
    /\ sec' = [sec EXCEPT ![o][backup(sec[o])].priority = want.ids[g]]
    /\ doing' = "none" /\ UNCHANGED <<user, have, handled, want, cluster, crashes>>
    /\ \/ pc' = pc /\ todo' \subseteq todo /\ UNCHANGED task
       \/ pc' = "database" /\ Tasks({"database"}) /\ UNCHANGED todo

\* The steps of a rotation, and the others, which change neither the
\* contents of a secret nor its priority.
LEMMA SecretSteps ==
  ASSUME RotationInv, [Next]_vars
  PROVE  (Adds /\ SecretsOK') \/ SaveStep \/ PromoteStep
<1> USE DEF RotationInv, HandlerOK
<1>1. CASE Start
  BY <1>1, SecretsAdded DEF Start
<1>2. CASE \E s \in DOMAIN task : Attempt(s)
  <2>1. PICK s \in DOMAIN task : Attempt(s)
    BY <1>2
  <2>2. have \subseteq have' /\ sec' = SecretsOf(have')
    BY <2>1, OutcomeGrows DEF Attempt
  <2> QED BY <2>2, SecretsAdded
<1>3. CASE \E n \in spec.external : Provide(n)
  <2>1. Owners' = Owners
    BY <1>3, Names DEF Provide, Owners, UserOK, Deployed
  <2> QED BY <1>3, <2>1, SecretsSame DEF Provide
<1>4. CASE RotateAdmin
  <2>1. At("admin", "admin") /\ "admin" \in Group
    BY <1>4, Names DEF RotateAdmin, At, Group
  <2>2. CASE RotateFails("admin", want.ids["admin"])
    BY <2>2, SecretsSame DEF RotateFails, Owners
  <2>3. CASE Save("admin", want.ids["admin"])
    BY <2>1, <2>3, Names DEF SaveStep
  <2>4. CASE AdminDone /\ doing = "admin"
    BY <2>1, <2>4, Names DEF AdminDone, Promoted, PromoteStep
  <2>5. CASE AdminDone /\ doing # "admin"
    BY <2>5, SecretsSame DEF AdminDone, Promoted, Owners
  <2> QED BY <1>4, <2>2, <2>3, <2>4, <2>5 DEF RotateAdmin
<1>5. ASSUME NEW o \in todo, RotateService(o)
      PROVE  (Adds /\ SecretsOK') \/ SaveStep \/ PromoteStep
  <2>1. At("service", o) /\ "service" \in Group
    BY <1>5 DEF RotateService, At, Group
  <2>2. CASE RotateFails(o, want.ids["service"])
    BY <2>2, SecretsSame DEF RotateFails, Owners
  <2>3. CASE Save(o, want.ids["service"])
    BY <2>1, <2>3 DEF SaveStep
  <2>4. CASE Promoted(o, want.ids["service"]) /\ todo' = todo \ {o} /\ UNCHANGED <<pc, task>>
             /\ doing = o
    BY <2>1, <2>4, Names DEF Promoted, PromoteStep
  <2>5. CASE Promoted(o, want.ids["service"]) /\ doing # o
    BY <2>5, SecretsSame DEF Promoted, Owners
  <2> QED BY <1>5, <2>2, <2>3, <2>4, <2>5 DEF RotateService
<1>6. CASE UNCHANGED <<have, sec>>
  BY <1>6, SecretsSame DEF Owners
<1> QED BY <1>1, <1>2, <1>3, <1>4, <1>5, <1>6
        DEF Next, vars, Handler, RotationDone, NextRound, DatabaseDone, Applied, Crash,
            Rotate, EnableService

\* What a rotation does to the pair of its owner.
LEMMA SaveEffect ==
  ASSUME RotationInv, NEW g \in Group, NEW o \in Owner, At(g, o), Save(o, want.ids[g])
  PROVE  /\ o \in Owners /\ Owners' = Owners /\ SecretsOK'
         /\ \A p \in Owners : p # o => sec'[p] = sec[p]
         /\ active(sec'[o]) = active(sec[o]) /\ backup(sec'[o]) = backup(sec[o])
         /\ sec'[o][active(sec[o])] = sec[o][active(sec[o])]
         /\ o \in Keyed => sec'[o][backup(sec[o])].key = sec[o][active(sec[o])].key
<1> DEFINE x == Filled(o)
           p == sec[o]
<1>1. o \in Owners /\ p \in Pair /\ Distinct(p)
  BY DEF Save, RotationInv, SecretsOK
<1>2. backup(p) \in Slot /\ active(p) \in Slot
  BY <1>1, PairOrder
<1>3. generate_password(p) \in Nat
  BY <1>1 DEF generate_password, Pair, Slot
<1>4. /\ x \in [password : Nat, key : Nat, priority : Nat]
      /\ x.priority = p[backup(p)].priority
      /\ o \in Keyed => x.key = p[active(p)].key
  <2>1. p[backup(p)] \in [password : Nat, key : Nat, priority : Nat] /\ p[active(p)].key \in Nat
    BY <1>1, <1>2 DEF Pair
  <2> QED BY <1>3, <2>1 DEF Filled
<1>5. sec' = [sec EXCEPT ![o] = [p EXCEPT ![backup(p)] = x]] /\ Owners' = Owners
  BY DEF Save, Owners
<1> DEFINE q == [p EXCEPT ![backup(p)] = x]
<1> HIDE DEF x
<1>6. /\ q \in Pair /\ Distinct(q)
      /\ active(q) = active(p) /\ backup(q) = backup(p)
      /\ q[active(p)] = p[active(p)] /\ q[backup(p)] = x
  BY <1>1, <1>4, FilledPair
<1> HIDE DEF q
<1>7. sec' = [sec EXCEPT ![o] = q]
  BY <1>5 DEF q
<1>8. sec'[o] = q /\ \A r \in Owners : r # o => sec'[r] = sec[r]
  BY <1>1, <1>7 DEF RotationInv, SecretsOK
<1>9. SecretsOK'
  BY <1>5, <1>6, <1>7, <1>8 DEF RotationInv, SecretsOK
<1> QED BY <1>1, <1>4, <1>5, <1>6, <1>8, <1>9

\* The second call changes active and backup of its owner, with the contents
\* of both as they were.
LEMMA PromoteEffect ==
  ASSUME RotationInv, NEW g \in Group, NEW o \in Owner, At(g, o), doing = o,
         sec' = [sec EXCEPT ![o][backup(sec[o])].priority = want.ids[g]], have' = have
  PROVE  /\ o \in Owners /\ Owners' = Owners /\ SecretsOK'
         /\ \A p \in Owners : p # o => sec'[p] = sec[p]
         /\ active(sec'[o]) = backup(sec[o]) /\ backup(sec'[o]) = active(sec[o])
         /\ sec'[o][active(sec[o])] = sec[o][active(sec[o])]
         /\ sec'[o][backup(sec[o])].key = sec[o][backup(sec[o])].key
         /\ sec'[o][backup(sec[o])].password = sec[o][backup(sec[o])].password
         /\ sec'[o][backup(sec[o])].priority = want.ids[g]
<1> DEFINE p == sec[o]
           id == want.ids[g]
<1>1. /\ o \in Owners /\ p \in Pair /\ Distinct(p) /\ id \in Nat /\ p[active(p)].priority < id
  BY Names DEF RotationInv, SecretsOK, DoingOK, At, UserOK, Calls
<1>2. sec' = [sec EXCEPT ![o] = [p EXCEPT ![backup(p)].priority = id]] /\ Owners' = Owners
  BY DEF Owners
<1> DEFINE q == [p EXCEPT ![backup(p)].priority = id]
<1>3. /\ q \in Pair /\ Distinct(q)
      /\ active(q) = backup(p) /\ backup(q) = active(p)
      /\ q[active(p)] = p[active(p)]
      /\ q[backup(p)].priority = id
      /\ q[backup(p)].password = p[backup(p)].password
      /\ q[backup(p)].key = p[backup(p)].key
  BY <1>1, PromotedPair
<1> HIDE DEF q
<1>4. sec' = [sec EXCEPT ![o] = q]
  BY <1>2 DEF q
<1>5. sec'[o] = q /\ \A r \in Owners : r # o => sec'[r] = sec[r]
  BY <1>1, <1>4 DEF RotationInv, SecretsOK
<1>6. SecretsOK'
  BY <1>2, <1>3, <1>4, <1>5 DEF RotationInv, SecretsOK
<1> QED BY <1>1, <1>2, <1>3, <1>5, <1>6

\* The deployment, the requests and what kopf knows of them keep their types.
LEMMA UserStep == ASSUME UserOK, [Next]_vars PROVE UserOK' /\ Members' = Members
<1> USE DEF UserOK
<1>1. CASE Start
  BY <1>1 DEF Start, user, Observed, Calls, Deployed, Members
<1>2. CASE Applied
  BY <1>2 DEF Applied, user, Members
<1>3. ASSUME NEW g \in Group, Rotate(g) PROVE UserOK' /\ Members' = Members
  BY <1>3 DEF Rotate, Members
<1>4. ASSUME NEW s \in spec.later, EnableService(s) PROVE UserOK' /\ Members' = Members
  <2>1. spec' \in Deployed
    BY <1>4 DEF EnableService, Deployed
  <2>2. spec'.services = spec.services \cup {s} /\ spec'.later = spec.later \ {s}
    BY <1>4 DEF EnableService, Deployed
  <2>3. Members' = Members
    BY <1>4, <2>2 DEF Members
  <2> QED BY <1>4, <2>1, <2>3 DEF EnableService
<1>5. CASE UNCHANGED <<spec, requested, handled, want>>
  BY <1>5 DEF Members
<1> QED BY <1>1, <1>2, <1>3, <1>4, <1>5
        DEF Next, vars, Handler, RotateAdmin, RotateService, RotateFails, Save, Promoted,
            AdminDone, RotationDone, NextRound, DatabaseDone, Attempt, Crash, Provide, user

\* Where the handler is, and the services it has tasks for.
LEMMA HandlerStep == ASSUME RotationInv, [Next]_vars PROVE HandlerOK'
<1> USE DEF HandlerOK, RotationInv
<1>0. have \subseteq have'
  <2>1. CASE \E s \in DOMAIN task : Attempt(s)
    BY <2>1, OutcomeGrows DEF Attempt
  <2>2. CASE ~\E s \in DOMAIN task : Attempt(s)
    BY <2>2 DEF Next, vars, Handler, Start, RotateAdmin, RotateService, RotateFails, Save,
        Promoted, AdminDone, RotationDone, NextRound, DatabaseDone, Applied, Crash, Rotate,
        EnableService, Provide
  <2> QED BY <2>1, <2>2
<1>1. CASE Start
  <2>1. spec.services \cap Owner \subseteq Owner \ {"admin"}
    BY RotationAssumption DEF UserOK, Members
  <2> QED BY <1>1, <2>1 DEF Start
<1>2. CASE RotateAdmin
  BY <1>0, <1>2 DEF RotateAdmin, RotateFails, Save, AdminDone, Promoted, Tasks
<1>3. ASSUME NEW o \in todo, RotateService(o) PROVE HandlerOK'
  BY <1>0, <1>3 DEF RotateService, RotateFails, Save, Promoted
<1>4. CASE RotationDone \/ NextRound \/ DatabaseDone \/ Applied \/ Crash
  BY <1>0, <1>4 DEF RotationDone, NextRound, DatabaseDone, Applied, Crash, NoTasks, Tasks
<1>5. ASSUME NEW s \in DOMAIN task, Attempt(s) PROVE HandlerOK'
  BY <1>0, <1>5 DEF Attempt
<1>6. CASE UNCHANGED <<pc, todo, task>>
  BY <1>0, <1>6
<1> QED BY <1>1, <1>2, <1>3, <1>4, <1>5, <1>6
        DEF Next, vars, Handler, Rotate, EnableService, Provide

\* Which of the two calls of a rotation comes next.
LEMMA DoingStep == ASSUME RotationInv, [Next]_vars PROVE DoingOK'
<1>1. CASE SaveStep
  <2>1. PICK g \in Group, o \in Owner : At(g, o) /\ Save(o, want.ids[g])
    BY <1>1 DEF SaveStep
  <2>2. /\ doing' = o /\ UNCHANGED <<pc, want, todo>>
        /\ sec[o][active(sec[o])].priority < want.ids[g]
    BY <2>1 DEF Save
  <2>3. pc = g /\ (o = "admin" <=> g = "admin") /\ (g = "service" => o \in todo)
    BY <2>1 DEF At
  <2> QED BY <2>1, <2>2, <2>3, SaveEffect DEF DoingOK
<1>2. CASE doing' = "none"
  BY <1>2 DEF DoingOK
<1>3. CASE UNCHANGED <<doing, pc, want, todo>> /\ Adds
  BY <1>3 DEF DoingOK, RotationInv, Adds
<1>4. doing # "none" => pc \in {"admin", "service"} /\ (pc = "service" => doing \in todo)
  BY DEF RotationInv, DoingOK, Group
<1>5. CASE PromoteStep
  BY <1>2, <1>5 DEF PromoteStep
<1>6. CASE ~SaveStep /\ ~PromoteStep
  <2>1. Adds
    BY <1>6, SecretSteps
  <2>2. CASE Start \/ Applied \/ DatabaseDone \/ RotationDone
    BY <1>2, <1>4, <2>2 DEF Start, Applied, DatabaseDone, RotationDone
  <2>3. CASE NextRound \/ \E s \in DOMAIN task : Attempt(s)
    <3>1. DOMAIN task # {}
      BY <2>3 DEF NextRound
    <3>2. doing = "none"
      BY <1>4, <3>1 DEF RotationInv, HandlerOK
    <3> QED BY <1>2, <2>3, <3>2 DEF NextRound, Attempt
  <2>4. CASE RotateAdmin
    <3>1. ~Save("admin", want.ids["admin"])
      BY <1>6, <2>4, Names DEF SaveStep, RotateAdmin, At, Group
    <3> QED BY <1>2, <2>4, <3>1 DEF RotateAdmin, RotateFails, AdminDone, Promoted
  <2>5. ASSUME NEW o \in todo, RotateService(o) PROVE DoingOK'
    <3>1. o \in Owner /\ o # "admin"
      BY DEF RotationInv, HandlerOK
    <3>2. ~Save(o, want.ids["service"])
      BY <1>6, <2>5, <3>1 DEF SaveStep, RotateService, At, Group
    <3> QED BY <1>2, <2>5, <3>2 DEF RotateService, RotateFails, Promoted
  <2>6. CASE Crash
    BY <1>2, <2>6 DEF Crash
  <2>7. CASE UNCHANGED <<doing, pc, want, todo>>
    BY <1>3, <2>1, <2>7
  <2> QED BY <2>2, <2>3, <2>4, <2>5, <2>6, <2>7
          DEF Next, vars, Handler, Rotate, EnableService, Provide
<1> QED BY <1>1, <1>5, <1>6

\* The inductive invariant of rotations.
LEMMA RotationStep == RotationInv /\ [Next]_vars => RotationInv'
<1> SUFFICES ASSUME RotationInv, [Next]_vars PROVE RotationInv'
  OBVIOUS
<1>1. SecretsOK'
  <2>1. CASE SaveStep
    BY <2>1, SaveEffect DEF SaveStep
  <2>2. CASE PromoteStep
    <3>1. PICK g \in Group, o \in Owner :
            /\ At(g, o) /\ doing = o
            /\ sec' = [sec EXCEPT ![o][backup(sec[o])].priority = want.ids[g]]
            /\ have' = have
      BY <2>2 DEF PromoteStep
    <3> QED BY <3>1, PromoteEffect
  <2> QED BY <2>1, <2>2, SecretSteps
<1> QED BY <1>1, UserStep, HandlerStep, DoingStep DEF RotationInv

\* Before the first call there are no secrets, or those of a deleted
\* deployment of the same name.
LEMMA RotationInit == Init => RotationInv
<1> SUFFICES ASSUME Init PROVE RotationInv
  OBVIOUS
<1>1. spec \in Deployed /\ Members \subseteq Service
  BY RotationAssumption DEF Init, Members, Service
<1>2. UserOK
  BY <1>1 DEF Init, UserOK, Calls
<1>3. HandlerOK
  BY DEF Init, HandlerOK, NoTasks
<1>4. SecretsOK
  <2>1. spec.former \in Nat
    BY <1>1 DEF Deployed
  <2> DEFINE p == [create EXCEPT ![1].priority = spec.former]
  <2>2. p \in Pair /\ Distinct(p)
    BY <2>1, NewPair
  <2>3. sec = [o \in Owners |-> p]
    BY DEF Init
  <2> HIDE DEF p
  <2> QED BY <2>2, <2>3 DEF SecretsOK
<1> QED BY <1>2, <1>3, <1>4 DEF Init, RotationInv, DoingOK

\* The types of the secrets and of the handler's state, and that a rotation of
\* one owner is never mixed up with that of another.
THEOREM RotationCorrect == Spec => []RotationInv
BY RotationInit, RotationStep, PTL DEF Spec

\* No rotation, restart or repeated request changes the key of an active
\* secret: what barbican has encrypted stays readable.
THEOREM KeyStays == Spec => KeyKept
<1>1. ASSUME RotationInv, [Next]_vars, NEW o \in Owners \cap Keyed
      PROVE  sec[o][active(sec[o])].key = sec'[o][active(sec'[o])].key
  <2>1. CASE Adds
    BY <2>1 DEF Adds
  <2>2. CASE SaveStep
    <3>1. PICK g \in Group, p \in Owner : At(g, p) /\ Save(p, want.ids[g])
      BY <2>2 DEF SaveStep
    <3> QED BY <1>1, <3>1, SaveEffect
  <2>3. CASE PromoteStep
    <3>1. PICK g \in Group, p \in Owner :
            /\ At(g, p) /\ doing = p
            /\ sec' = [sec EXCEPT ![p][backup(sec[p])].priority = want.ids[g]]
            /\ have' = have
      BY <2>3 DEF PromoteStep
    <3>2. p \in Keyed => sec[p][backup(sec[p])].key = sec[p][active(sec[p])].key
      BY <1>1, <3>1, Names DEF RotationInv, DoingOK
    <3>3. /\ \A r \in Owners : r # p => sec'[r] = sec[r]
          /\ active(sec'[p]) = backup(sec[p])
          /\ sec'[p][backup(sec[p])].key = sec[p][backup(sec[p])].key
      BY <1>1, <3>1, PromoteEffect
    <3> QED BY <1>1, <3>2, <3>3
  <2> QED BY <1>1, <2>1, <2>2, <2>3, SecretSteps
<1>2. RotationInv /\ [Next]_vars =>
        [\A o \in Owners \cap Keyed :
           (sec[o][active(sec[o])].key = sec'[o][active(sec'[o])].key)]_vars
  BY <1>1
<1> QED BY <1>2, RotationCorrect, PTL DEF Spec, KeyKept
-----------------------------------------------------------------------------
(* The administrator of the database *)

AdminPassword == get(sec["admin"]).password

\* The requests only grow, and the handler is called with the ones of some
\* moment before.
IdsInOrder == \A g \in Group : handled.ids[g] <= want.ids[g] /\ want.ids[g] <= requested[g]

\* The database has another password than the active secret only from the
\* rotation of the secret until the database is installed.  When that is cut
\* short the request counts as new for the next call.
AdminInv ==
  /\ IdsInOrder
  /\ root # 0 => "admin" \in have
  /\ pc \in {"admin", "database"} => handled.ids["admin"] # requested["admin"]
  /\ pc = "database" =>
       DOMAIN task = {"database"} /\ (task["database"] = "done" => root = AdminPassword)
  /\ pc \in {"service", "apply"} /\ root # 0 => root = AdminPassword
  /\ pc = "idle" /\ root # 0 /\ root # AdminPassword =>
       handled.ids["admin"] # requested["admin"]

\* The active secret of the administrator changes in one step only.
LEMMA AdminSecret ==
  ASSUME RotationInv, [Next]_vars, "admin" \in have
  PROVE  get(sec'["admin"]) = get(sec["admin"]) \/ (PromoteStep /\ doing = "admin")
<1>0. "admin" \in Owners
  BY Names DEF Owners
<1>1. CASE Adds
  BY <1>0, <1>1 DEF Adds
<1>2. CASE SaveStep
  <2>1. PICK g \in Group, p \in Owner : At(g, p) /\ Save(p, want.ids[g])
    BY <1>2 DEF SaveStep
  <2>2. /\ \A r \in Owners : r # p => sec'[r] = sec[r]
        /\ active(sec'[p]) = active(sec[p])
        /\ sec'[p][active(sec[p])] = sec[p][active(sec[p])]
    BY <2>1, SaveEffect
  <2> QED BY <1>0, <2>2 DEF get
<1>3. CASE PromoteStep
  <2>1. PICK g \in Group, p \in Owner :
          /\ At(g, p) /\ doing = p
          /\ sec' = [sec EXCEPT ![p][backup(sec[p])].priority = want.ids[g]]
          /\ have' = have
    BY <1>3 DEF PromoteStep
  <2>2. \A r \in Owners : r # p => sec'[r] = sec[r]
    BY <2>1, PromoteEffect
  <2> QED BY <1>0, <1>3, <2>1, <2>2
<1> QED BY <1>1, <1>2, <1>3, SecretSteps

\* No step makes a request smaller or a call newer than the requests.
LEMMA IdsStep == ASSUME UserOK, IdsInOrder, [Next]_vars PROVE IdsInOrder'
<1> USE DEF UserOK, IdsInOrder, Calls
<1>1. CASE Start
  BY <1>1 DEF Start, Observed, user
<1>2. CASE Applied
  BY <1>2 DEF Applied, user
<1>3. ASSUME NEW g \in Group, Rotate(g) PROVE IdsInOrder'
  BY <1>3 DEF Rotate
<1>4. CASE UNCHANGED <<requested, handled, want>>
  BY <1>4
<1> QED BY <1>1, <1>2, <1>3, <1>4
        DEF Next, vars, Handler, RotateAdmin, RotateService, RotateFails, Save, Promoted,
            AdminDone, RotationDone, NextRound, DatabaseDone, Attempt, Crash, EnableService,
            Provide, user

\* A step leaves the password of the administrator alone, or it is the second
\* call of its rotation.
LEMMA AdminStep == RotationInv /\ AdminInv /\ [Next]_vars => AdminInv'
<1> SUFFICES ASSUME RotationInv, AdminInv, [Next]_vars PROVE AdminInv'
  OBVIOUS
<1>1. IdsInOrder'
  BY IdsStep DEF RotationInv, AdminInv
<1>2. "admin" \in have /\ doing # "admin" => AdminPassword' = AdminPassword
  BY AdminSecret DEF AdminPassword
<1>3. doing = "admin" => pc = "admin"
  BY DEF RotationInv, DoingOK
<1>4. pc # "idle" => "admin" \in have
  BY DEF RotationInv, HandlerOK
<1>5. root # 0 => "admin" \in have
  BY DEF AdminInv
<1> USE DEF AdminInv
<1>6. CASE Start
  <2>1. /\ pc = "idle" /\ UNCHANGED <<root, handled, requested, task>> /\ have \subseteq have'
        /\ pc' \in {"idle", "admin", "service"}
        /\ pc' = "admin" => Asked("admin")
        /\ pc' = "service" => ~Asked("admin")
    BY <1>6 DEF Start, cluster, user
  <2> QED BY <1>1, <1>2, <1>3, <1>5, <2>1 DEF Asked
<1>7. CASE RotateAdmin
  <2>1. /\ pc = "admin" /\ UNCHANGED <<root, handled, requested, have>>
        /\ \/ pc' \in {"idle", "admin"}
           \/ pc' = "database" /\ task' = [s \in {"database"} |-> "run"]
    BY <1>7 DEF RotateAdmin, RotateFails, Save, AdminDone, Promoted, Tasks, cluster, user
  <2> QED BY <1>1, <1>5, <2>1
<1>8. ASSUME NEW o \in todo, RotateService(o) PROVE AdminInv'
  <2>1. /\ pc = "service" /\ UNCHANGED <<root, handled, requested, have>>
        /\ pc' \in {"idle", "service"}
    BY <1>8 DEF RotateService, RotateFails, Save, Promoted, cluster, user
  <2>2. AdminPassword' = AdminPassword
    BY <1>2, <1>3, <1>4, <2>1
  <2> QED BY <1>1, <1>5, <2>1, <2>2
<1>9. CASE RotationDone \/ DatabaseDone \/ Applied
  <2>1. /\ UNCHANGED <<root, requested, have>> /\ pc \in {"service", "database", "apply"}
        /\ pc' \in {"idle", "service", "apply"} /\ (pc # "apply" => handled' = handled)
        /\ pc = "database" => TasksDone
    BY <1>9 DEF RotationDone, DatabaseDone, Applied, cluster, user
  <2>2. AdminPassword' = AdminPassword
    BY <1>2, <1>3, <1>4, <2>1
  <2>3. root # 0 => root = AdminPassword
    BY <2>1 DEF TasksDone
  <2> QED BY <1>1, <1>5, <2>1, <2>2, <2>3
<1>10. CASE NextRound
  <2>1. /\ UNCHANGED <<root, handled, requested, have, pc>>
        /\ \E s \in DOMAIN task : task[s] = "failed"
        /\ task' = [s \in {t \in DOMAIN task : task[t] = "failed"} |-> "run"]
    BY <1>10 DEF NextRound, cluster, user
  <2>2. pc \in {"database", "apply"}
    BY <2>1 DEF RotationInv, HandlerOK
  <2>3. AdminPassword' = AdminPassword
    BY <1>2, <1>3, <1>4, <2>2
  <2>4. pc = "database" => DOMAIN task' = {"database"} /\ task'["database"] = "run"
    BY <2>1
  <2> QED BY <1>1, <1>5, <2>1, <2>2, <2>3, <2>4
<1>11. ASSUME NEW s \in DOMAIN task, Attempt(s) PROVE AdminInv'
  <2>1. pc \in {"database", "apply"}
    BY DEF RotationInv, HandlerOK
  <2>2. AdminPassword' = AdminPassword /\ "admin" \in have
    BY <1>2, <1>3, <1>4, <2>1
  <2>3. UNCHANGED <<handled, requested, pc>> /\ have \subseteq have'
    BY <1>11, OutcomeGrows DEF Attempt, user
  <2>4. PICK ok \in BOOLEAN :
          /\ task' = [task EXCEPT ![s] = IF ok THEN "done" ELSE "failed"]
          /\ ok /\ s = "database" => root' = AdminPassword'
          /\ ~ok \/ s # "database" => root' = root
    <3>1. PICK outcome \in Outcomes(s, Deployment, have) :
            /\ task' = [task EXCEPT ![s] = IF outcome.ok THEN "done" ELSE "failed"]
            /\ IF outcome.ok THEN Install(s, sec') ELSE UNCHANGED cluster
      BY <1>11 DEF Attempt
    <3>2. CASE outcome.ok
      BY <3>1, <3>2 DEF Install, AdminPassword
    <3>3. CASE ~outcome.ok
      BY <3>1, <3>3 DEF cluster
    <3> QED BY <3>2, <3>3
  <2>5. CASE pc = "database"
    BY <1>1, <2>2, <2>3, <2>4, <2>5
  <2>6. CASE pc = "apply"
    BY <1>1, <2>2, <2>3, <2>4, <2>6
  <2> QED BY <2>1, <2>5, <2>6
<1>12. CASE Crash
  <2>1. pc # "idle" /\ pc' = "idle" /\ UNCHANGED <<root, handled, requested, have, sec>>
    BY <1>12 DEF Crash, cluster, user
  <2> QED BY <1>1, <2>1 DEF AdminPassword, RotationInv, HandlerOK
<1>13. ASSUME NEW g \in Group, Rotate(g) PROVE AdminInv'
  <2>1. UNCHANGED <<root, handled, have, sec, pc, task>>
    BY <1>13 DEF Rotate, cluster
  <2>2. requested'["admin"] = requested["admin"] \/ handled.ids["admin"] # requested'["admin"]
    BY <1>13 DEF Rotate, RotationInv, UserOK, Calls, IdsInOrder, Group
  <2> QED BY <1>1, <2>1, <2>2 DEF AdminPassword
<1>14. ASSUME NEW s \in spec.later, EnableService(s) PROVE AdminInv'
  BY <1>1, <1>14 DEF EnableService, cluster, AdminPassword
<1>15. ASSUME NEW n \in spec.external, Provide(n) PROVE AdminInv'
  BY <1>1, <1>15 DEF Provide, cluster, user, AdminPassword
<1>16. CASE UNCHANGED vars
  BY <1>1, <1>16 DEF vars, AdminPassword
<1> QED BY <1>6, <1>7, <1>8, <1>9, <1>10, <1>11, <1>12, <1>13, <1>14, <1>15, <1>16
        DEF Next, Handler

\* The services are applied with the password that the database knows, however
\* often the rotation of the administrator is cut short and asked for again.
THEOREM AdminIsAccepted == Spec => []AdminAccepted
<1>1. Init => AdminInv
  BY DEF Init, AdminInv, IdsInOrder
<1>2. AdminInv => AdminAccepted
  BY DEF AdminInv, AdminAccepted, AdminPassword
<1> QED BY <1>1, <1>2, AdminStep, RotationCorrect, PTL DEF Spec

-----------------------------------------------------------------------------
(* The credentials that services run with *)

UsesOK ==
  /\ DOMAIN uses = Members
  /\ \A s \in Members :
       /\ DOMAIN uses[s] \subseteq Owners \ {"admin"}
       /\ \A o \in DOMAIN uses[s] : uses[s][o].slot \in Slot
       /\ s \notin spec.services => DOMAIN uses[s] = {}
  /\ accounts \in [Owner -> [Slot -> Nat]] /\ rabbit \in [Owner -> [Slot -> Nat]]

CallsOK ==
  /\ want.services \subseteq spec.services
  /\ DOMAIN task \subseteq spec.services \cup {"database"}
  /\ requested["service"] <= spec.rotations
  /\ spec.careful /\ pc # "idle" => want = Observed /\ handled # Observed

Current(s) == \A o \in DOMAIN uses[s] : uses[s][o].slot = active(sec[o])

\* A secret gets new contents only when nobody runs with it.
NotRefilled ==
  \A s \in Members : \A o \in DOMAIN uses[s] :
    /\ uses[s][o].password = sec[o][uses[s][o].slot].password
    /\ sec[o][active(sec[o])].priority < requested["service"] =>
         uses[s][o].slot = active(sec[o])

\* After a request is applied, and before the first one, everybody runs with
\* the active secrets; while services are applied, those without a task do.
AllCurrent ==
  /\ (spec.careful /\ handled = Observed) \/ requested["service"] = 0 =>
       \A s \in Members : Current(s)
  /\ spec.careful /\ pc = "apply" =>
       \A s \in Members : (s \in DOMAIN task /\ task[s] \in {"run", "failed"}) \/ Current(s)

AccessInv == UsesOK /\ CallsOK /\ (Waits => NotRefilled /\ AllCurrent)

\* Nobody needs the account of the administrator.
LEMMA NoAdminAccount ==
  ASSUME NEW s, NEW d PROVE "admin" \notin required_accounts(s, d)
BY DEF required_accounts, IronicAccounts, NeutronAccounts, NovaAccounts, ManilaAccounts

\* The database has no account of its own and needs none.
LEMMA DatabaseUses ==
  ASSUME NEW d PROVE Owner \cap ({"database"} \cup required_accounts("database", d)) = {}
<1>1. required_accounts("database", d) = {}
  BY DEF required_accounts
<1>2. "database" \notin Owner
  BY DEF Owner, HasSecret, OSServices
<1> QED BY <1>1, <1>2

\* Only an attempt that succeeds changes what services run with and what the
\* database and RabbitMQ accept.
Installed(s) ==
  /\ DOMAIN uses' = DOMAIN uses /\ s \in DOMAIN task
  /\ \A t \in Members : t # s => uses'[t] = uses[t]
  /\ s \in Members =>
       /\ DOMAIN uses'[s] \subseteq Owners' \ {"admin"}
       /\ s \notin spec.services => DOMAIN uses'[s] = {}
       /\ \A o \in DOMAIN uses'[s] : uses'[s][o] = get(sec'[o])
  /\ accounts' \in [Owner -> [Slot -> Nat]] /\ rabbit' \in [Owner -> [Slot -> Nat]]
  /\ \A o \in Owner, i \in Slot :
       accounts'[o][i] # accounts[o][i] =>
         o \in Owners' /\ i = active(sec'[o]) /\ accounts'[o][i] = sec'[o][i].password
  /\ \A o \in Owner, i \in Slot :
       rabbit'[o][i] # rabbit[o][i] =>
         o \in Owners' /\ rabbit'[o][i] = sec'[o][i].password

\* An attempt fails and leaves them alone, or its service is installed.
LEMMA AttemptEffect ==
  ASSUME RotationInv, UsesOK, CallsOK, NEW s \in DOMAIN task, Attempt(s), SecretsOK'
  PROVE  \/ task' = [task EXCEPT ![s] = "failed"] /\ UNCHANGED <<uses, accounts, rabbit>>
         \/ task' = [task EXCEPT ![s] = "done"] /\ Installed(s)
<1>1. PICK outcome \in Outcomes(s, Deployment, have) :
        /\ task' = [task EXCEPT ![s] = IF outcome.ok THEN "done" ELSE "failed"]
        /\ IF outcome.ok THEN Install(s, sec') ELSE UNCHANGED cluster
  BY DEF Attempt
<1>2. CASE ~outcome.ok
  BY <1>1, <1>2 DEF cluster
<1>3. CASE outcome.ok
  <2>1. Install(s, sec')
    BY <1>1, <1>3
  <2>2. /\ sec' \in [Owners' -> Pair] /\ Owners' \subseteq Owner
        /\ \A o \in Owners' : active(sec'[o]) \in Slot
        /\ \A o \in Owners', i \in Slot : sec'[o][i].password \in Nat
    <3>1. sec' \in [Owners' -> Pair] /\ \A o \in Owners' : Distinct(sec'[o])
      BY DEF SecretsOK
    <3>2. \A o \in Owners' : active(sec'[o]) \in Slot
      BY <3>1, PairOrder
    <3>3. Owners' \subseteq Owner
      BY DEF Owners
    <3> QED BY <3>1, <3>2, <3>3 DEF Pair
  <2> DEFINE names == (DOMAIN sec') \cap ({s} \cup required_accounts(s, Deployment))
  <2>3. uses' = [uses EXCEPT ![s] = [o \in names |-> get(sec'[o])]]
    BY <2>1 DEF Install
  <2>4. names \subseteq Owners' \ {"admin"}
    <3>1. s # "admin"
      BY Names DEF CallsOK, RotationInv, UserOK, Members
    <3> QED BY <2>2, <3>1, NoAdminAccount
  <2>5. s \notin spec.services => names = {}
    <3>1. s \notin spec.services => s = "database"
      BY DEF CallsOK
    <3> QED BY <2>2, <3>1, DatabaseUses
  <2> HIDE DEF names
  <2>6. /\ DOMAIN uses' = DOMAIN uses
        /\ \A t \in Members : t # s => uses'[t] = uses[t]
        /\ s \in Members =>
             /\ DOMAIN uses'[s] \subseteq Owners' \ {"admin"}
             /\ s \notin spec.services => DOMAIN uses'[s] = {}
             /\ \A o \in DOMAIN uses'[s] : uses'[s][o] = get(sec'[o])
    BY <2>3, <2>4, <2>5 DEF UsesOK
  <2>7. /\ accounts' \in [Owner -> [Slot -> Nat]]
        /\ \A o \in Owner, i \in Slot :
             accounts'[o][i] # accounts[o][i] =>
               o \in Owners' /\ i = active(sec'[o]) /\ accounts'[o][i] = sec'[o][i].password
    <3>1. accounts' = [o \in Owner |->
             IF o = s /\ s \in Owners'
             THEN [accounts[s] EXCEPT ![active(sec'[s])] = get(sec'[s]).password]
             ELSE accounts[o]]
      BY <2>1, <2>2 DEF Install
    <3>2. s \in Owners' => get(sec'[s]).password = sec'[s][active(sec'[s])].password
      BY DEF get
    <3>3. s \in Owners' => get(sec'[s]).password \in Nat
      BY <2>2, <3>2
    <3> QED BY <2>2, <3>1, <3>2, <3>3 DEF UsesOK
  <2>8. /\ rabbit' \in [Owner -> [Slot -> Nat]]
        /\ \A o \in Owner, i \in Slot :
             rabbit'[o][i] # rabbit[o][i] =>
               o \in Owners' /\ rabbit'[o][i] = sec'[o][i].password
    <3>1. rabbit' = [o \in Owner |->
             IF s = "messaging" /\ o \in Owners' \cap want.services
             THEN [i \in Slot |-> sec'[o][i].password]
             ELSE rabbit[o]]
      BY <2>1, <2>2 DEF Install
    <3> QED BY <2>2, <3>1 DEF UsesOK
  <2>9. task' = [task EXCEPT ![s] = "done"]
    BY <1>1, <1>3
  <2> QED BY <2>6, <2>7, <2>8, <2>9 DEF Installed
<1> QED BY <1>2, <1>3

\* No other step changes them.
LEMMA ClusterFrame ==
  ASSUME [Next]_vars, ~\E s \in DOMAIN task : Attempt(s)
  PROVE  UNCHANGED <<uses, accounts, rabbit>>
BY DEF Next, vars, Handler, Start, RotateAdmin, RotateService, RotateFails, Save, Promoted,
       AdminDone, RotationDone, NextRound, DatabaseDone, Applied, Crash, Rotate,
       EnableService, Provide, cluster

\* Owners are never forgotten.
LEMMA OwnersGrow == ASSUME RotationInv, [Next]_vars PROVE Owners \subseteq Owners'
<1>1. CASE SaveStep
  BY <1>1 DEF SaveStep, Save, Owners
<1>2. CASE PromoteStep
  BY <1>2 DEF PromoteStep, Owners
<1>3. CASE Adds
  BY <1>3 DEF Adds
<1> QED BY <1>1, <1>2, <1>3, SecretSteps

\* What users do: services are only added, requests only grow, and those who
\* wait for APPLIED change nothing while the handler runs.
LEMMA UserKinds ==
  ASSUME UserOK, [Next]_vars
  PROVE  /\ spec'.careful = spec.careful /\ spec'.rotations = spec.rotations
         /\ spec.services \subseteq spec'.services
         /\ \/ UNCHANGED <<spec, requested>>
            \/ /\ UserMayChange
               /\ UNCHANGED <<have, sec, handled, pc, want, todo, doing, task, cluster>>
               /\ \/ requested' = requested
                  \/ /\ spec' = spec
                     /\ requested["service"] < spec.rotations
                     /\ requested'["service"] = requested["service"] + 1
                  \/ spec' = spec /\ requested'["service"] = requested["service"]
<1>1. ASSUME NEW g \in Group, Rotate(g)
      PROVE  /\ spec' = spec /\ UserMayChange
             /\ UNCHANGED <<have, sec, handled, pc, want, todo, doing, task, cluster>>
             /\ \/ /\ requested["service"] < spec.rotations
                   /\ requested'["service"] = requested["service"] + 1
                \/ requested'["service"] = requested["service"]
  BY <1>1 DEF Rotate, UserOK, Group
<1>2. ASSUME NEW s \in spec.later, EnableService(s)
      PROVE  /\ spec'.careful = spec.careful /\ spec'.rotations = spec.rotations
             /\ spec.services \subseteq spec'.services
             /\ UserMayChange /\ requested' = requested
             /\ UNCHANGED <<have, sec, handled, pc, want, todo, doing, task, cluster>>
  BY <1>2 DEF EnableService, UserOK, Deployed
<1>3. CASE UNCHANGED <<spec, requested>>
  BY <1>3
<1> QED BY <1>1, <1>2, <1>3
        DEF Next, vars, Handler, Start, RotateAdmin, RotateService, RotateFails, Save,
            Promoted, AdminDone, RotationDone, NextRound, DatabaseDone, Applied, Attempt,
            Crash, Provide, user

\* The services of a call, and those of its tasks, are enabled ones; users who
\* wait for APPLIED leave the call they wait for the latest.
LEMMA CallsStep == ASSUME RotationInv, CallsOK, [Next]_vars PROVE CallsOK'
<1> USE DEF CallsOK
<1>1. CASE ~UNCHANGED <<spec, requested>>
  <2>1. /\ UserMayChange /\ UNCHANGED <<handled, pc, want, task>>
        /\ spec'.careful = spec.careful /\ spec'.rotations = spec.rotations
        /\ spec.services \subseteq spec'.services
        /\ requested'["service"] = requested["service"] \/
             (requested["service"] < spec.rotations
              /\ requested'["service"] = requested["service"] + 1)
    BY <1>1, UserKinds DEF RotationInv
  <2>2. requested["service"] \in Nat /\ spec.rotations \in Nat
    BY DEF RotationInv, UserOK, Group, Deployed
  <2> QED BY <2>1, <2>2 DEF UserMayChange
<1>2. CASE UNCHANGED <<spec, requested>>
  <2>0. Observed' = Observed
    BY <1>2 DEF Observed
  <2>1. CASE Start
    BY <1>2, <2>0, <2>1 DEF Start, Observed, RotationInv, HandlerOK
  <2>2. CASE RotateAdmin
    BY <1>2, <2>0, <2>2 DEF RotateAdmin, RotateFails, Save, AdminDone, Promoted, Tasks
  <2>3. ASSUME NEW o \in todo, RotateService(o) PROVE CallsOK'
    BY <1>2, <2>0, <2>3 DEF RotateService, RotateFails, Save, Promoted
  <2>4. CASE RotationDone \/ DatabaseDone \/ Applied \/ Crash
    BY <1>2, <2>0, <2>4 DEF RotationDone, DatabaseDone, Applied, Crash, NoTasks, Tasks
  <2>5. CASE NextRound
    BY <1>2, <2>0, <2>5 DEF NextRound
  <2>6. ASSUME NEW s \in DOMAIN task, Attempt(s) PROVE CallsOK'
    BY <1>2, <2>0, <2>6 DEF Attempt
  <2>7. CASE UNCHANGED <<handled, pc, want, task>>
    BY <1>2, <2>0, <2>7
  <2> QED BY <2>1, <2>2, <2>3, <2>4, <2>5, <2>6, <2>7
          DEF Next, vars, Handler, Rotate, EnableService, Provide
<1> QED BY <1>1, <1>2

\* Services run with accounts of owners, never of the administrator.
LEMMA UsesStep == ASSUME RotationInv, UsesOK, CallsOK, [Next]_vars PROVE UsesOK'
<1>1. /\ Members' = Members /\ Owners \subseteq Owners' /\ spec.services \subseteq spec'.services
      /\ SecretsOK'
  BY UserStep, OwnersGrow, UserKinds, RotationStep DEF RotationInv
<1>2. CASE UNCHANGED <<uses, accounts, rabbit>>
  BY <1>1, <1>2 DEF UsesOK
<1>3. ASSUME NEW s, Installed(s) PROVE UsesOK'
  <2>1. \A o \in Owners' : get(sec'[o]).slot \in Slot
    BY <1>1, PairOrder DEF SecretsOK, get
  <2> QED BY <1>1, <1>3, <2>1 DEF UsesOK, Installed
<1> QED BY <1>1, <1>2, <1>3, AttemptEffect, ClusterFrame

\* Secrets and what services run with never change together, but for new
\* secrets that an attempt makes.
LEMMA StepKinds ==
  ASSUME RotationInv, UsesOK, CallsOK, [Next]_vars
  PROVE  \/ Adds /\ UNCHANGED <<uses, accounts, rabbit>>
         \/ /\ Adds
            /\ \E s \in DOMAIN task : Installed(s) /\ task' = [task EXCEPT ![s] = "done"]
         \/ SaveStep \/ PromoteStep
<1>1. SecretsOK'
  BY RotationStep DEF RotationInv
<1>2. CASE \E s \in DOMAIN task : Attempt(s)
  <2>1. pc \notin Group
    BY <1>2 DEF RotationInv, HandlerOK, Group
  <2>2. ~SaveStep /\ ~PromoteStep
    BY <2>1 DEF SaveStep, PromoteStep, At
  <2>3. Adds
    BY <2>2, SecretSteps
  <2> QED BY <1>1, <1>2, <2>3, AttemptEffect
<1>3. CASE ~\E s \in DOMAIN task : Attempt(s)
  BY <1>3, ClusterFrame, SecretSteps
<1> QED BY <1>2, <1>3

\* A service that runs with active secrets does so until the rotation of one
\* of them ends.
LEMMA CurrentKept ==
  ASSUME RotationInv, UsesOK, CallsOK, [Next]_vars, NEW s \in Members, Current(s),
         PromoteStep => doing = "admin"
  PROVE  Current(s)'
<1>0. DOMAIN uses[s] \subseteq Owners \ {"admin"}
  BY DEF UsesOK
<1>1. CASE Adds /\ UNCHANGED uses
  BY <1>0, <1>1 DEF Adds, Current
<1>2. CASE Adds /\ \E t \in DOMAIN task : Installed(t)
  <2>1. PICK t \in DOMAIN task : Installed(t)
    BY <1>2
  <2>2. CASE t = s
    <3>1. \A o \in DOMAIN uses'[s] : uses'[s][o] = get(sec'[o])
      BY <2>1, <2>2 DEF Installed
    <3>2. \A o : get(sec'[o]).slot = active(sec'[o])
      BY DEF get
    <3> QED BY <3>1, <3>2 DEF Current
  <2>3. CASE t # s
    BY <1>0, <1>2, <2>1, <2>3 DEF Installed, Current, Adds
  <2> QED BY <2>2, <2>3
<1>3. CASE SaveStep
  <2>1. PICK g \in Group, p \in Owner : At(g, p) /\ Save(p, want.ids[g])
    BY <1>3 DEF SaveStep
  <2>2. \A r \in Owners : active(sec'[r]) = active(sec[r])
    BY <2>1, SaveEffect
  <2>3. uses' = uses
    BY <2>1 DEF Save, cluster
  <2> QED BY <1>0, <2>2, <2>3 DEF Current
<1>4. CASE PromoteStep
  <2>1. PICK g \in Group, p \in Owner :
          /\ At(g, p) /\ doing = p
          /\ sec' = [sec EXCEPT ![p][backup(sec[p])].priority = want.ids[g]]
          /\ have' = have /\ uses' = uses
    BY <1>4 DEF PromoteStep, cluster
  <2>2. \A r \in Owners : r # "admin" => sec'[r] = sec[r]
    BY <1>4, <2>1, PromoteEffect
  <2> QED BY <1>0, <2>1, <2>2 DEF Current
<1> QED BY <1>1, <1>2, <1>3, <1>4, StepKinds

\* No password is changed under a service that runs with it.
LEMMA NotRefilledStep ==
  ASSUME RotationInv, IdsInOrder, UsesOK, CallsOK, Waits, NotRefilled, AllCurrent,
         [Next]_vars
  PROVE  NotRefilled'
<1>0. /\ Members' = Members
      /\ \A s \in Members : DOMAIN uses[s] \subseteq Owners \ {"admin"}
      /\ requested["service"] \in Nat /\ want.ids["service"] \in Nat
      /\ spec.rotations \in Nat /\ requested["service"] <= spec.rotations
      /\ want.ids["service"] <= requested["service"]
  BY UserStep DEF UsesOK, RotationInv, UserOK, Calls, Group, Deployed, CallsOK, IdsInOrder
<1>1. CASE requested'["service"] # requested["service"]
  <2>1. /\ UserMayChange /\ UNCHANGED <<sec, uses>>
        /\ requested["service"] < spec.rotations
    BY <1>1, UserKinds DEF RotationInv, cluster
  <2>2. (spec.careful /\ handled = Observed) \/ requested["service"] = 0
    BY <1>0, <2>1 DEF UserMayChange, Waits
  <2>3. \A s \in Members : Current(s)
    BY <2>2 DEF AllCurrent
  <2> QED BY <1>0, <2>1, <2>3 DEF NotRefilled, Current
<1> SUFFICES ASSUME requested'["service"] = requested["service"] PROVE NotRefilled'
  BY <1>1
<1>2. CASE Adds /\ UNCHANGED uses
  BY <1>0, <1>2 DEF Adds, NotRefilled
<1>3. ASSUME NEW t \in DOMAIN task, Adds, Installed(t) PROVE NotRefilled'
  <2> SUFFICES ASSUME NEW s \in Members, NEW o \in DOMAIN uses'[s]
               PROVE  /\ uses'[s][o].password = sec'[o][uses'[s][o].slot].password
                      /\ sec'[o][active(sec'[o])].priority < requested'["service"] =>
                           uses'[s][o].slot = active(sec'[o])
    BY <1>0 DEF NotRefilled
  <2>1. CASE s = t
    <3>1. uses'[s][o] = get(sec'[o])
      BY <1>3, <2>1 DEF Installed
    <3> QED BY <3>1 DEF get
  <2>2. CASE s # t
    <3>1. uses'[s] = uses[s] /\ o \in Owners /\ sec'[o] = sec[o]
      BY <1>0, <1>3, <2>2 DEF Installed, Adds
    <3> QED BY <3>1 DEF NotRefilled
  <2> QED BY <2>1, <2>2
<1>4. CASE SaveStep
  <2>1. PICK g \in Group, p \in Owner : At(g, p) /\ Save(p, want.ids[g])
    BY <1>4 DEF SaveStep
  <2>2. /\ \A r \in Owners : r # p => sec'[r] = sec[r]
        /\ active(sec'[p]) = active(sec[p])
        /\ sec'[p][active(sec[p])] = sec[p][active(sec[p])]
    BY <2>1, SaveEffect
  <2>3. uses' = uses /\ sec[p][active(sec[p])].priority < want.ids[g]
    BY <2>1 DEF Save, cluster
  <2>4. p # "admin" => g = "service"
    BY <2>1 DEF At, Group
  <2>5. p \in Owners => sec[p][active(sec[p])].priority \in Nat
    BY PairOrder DEF RotationInv, SecretsOK, Pair
  <2> SUFFICES ASSUME NEW s \in Members, NEW o \in DOMAIN uses[s]
               PROVE  /\ uses[s][o].password = sec'[o][uses[s][o].slot].password
                      /\ sec'[o][active(sec'[o])].priority < requested["service"] =>
                           uses[s][o].slot = active(sec'[o])
    BY <1>0, <2>3 DEF NotRefilled
  <2>6. CASE o # p
    BY <1>0, <2>2, <2>6 DEF NotRefilled
  <2>7. CASE o = p
    <3>1. sec[p][active(sec[p])].priority < requested["service"]
      BY <1>0, <2>3, <2>4, <2>5, <2>7
    <3>2. uses[s][o].slot = active(sec[o])
      BY <2>7, <3>1 DEF NotRefilled
    <3> QED BY <2>2, <2>7, <3>2 DEF NotRefilled
  <2> QED BY <2>6, <2>7
<1>5. CASE PromoteStep
  <2>1. PICK g \in Group, p \in Owner :
          /\ At(g, p) /\ doing = p
          /\ sec' = [sec EXCEPT ![p][backup(sec[p])].priority = want.ids[g]]
          /\ have' = have /\ uses' = uses
    BY <1>5 DEF PromoteStep, cluster
  <2>2. /\ p \in Owners /\ \A r \in Owners : r # p => sec'[r] = sec[r]
        /\ active(sec'[p]) = backup(sec[p])
        /\ sec'[p][active(sec[p])] = sec[p][active(sec[p])]
        /\ sec'[p][backup(sec[p])].password = sec[p][backup(sec[p])].password
        /\ sec'[p][backup(sec[p])].priority = want.ids[g]
    BY <2>1, PromoteEffect
  <2>3. p # "admin" => g = "service" /\ pc = "service" /\ doing # "none"
    BY <2>1, Names DEF At, Group
  <2>4. p # "admin" => want.ids["service"] = requested["service"]
    <3>1. sec[p][active(sec[p])].priority \in Nat
      BY <2>2, PairOrder DEF RotationInv, SecretsOK, Pair
    <3>2. p # "admin" => sec[p][active(sec[p])].priority < want.ids["service"]
      BY <2>1, <2>3 DEF RotationInv, DoingOK
    <3>3. p # "admin" /\ spec.careful => want.ids = requested
      BY <2>3 DEF CallsOK, Observed
    <3> QED BY <1>0, <3>1, <3>2, <3>3 DEF Waits
  <2>5. \A i \in Slot : sec'[p][i].password = sec[p][i].password
    <3>1. /\ active(sec[p]) \in Slot /\ backup(sec[p]) \in Slot
          /\ active(sec[p]) # backup(sec[p])
      BY <2>2, PairOrder DEF RotationInv, SecretsOK
    <3> QED BY <2>2, <3>1 DEF Slot
  <2> SUFFICES ASSUME NEW s \in Members, NEW o \in DOMAIN uses[s]
               PROVE  /\ uses[s][o].password = sec'[o][uses[s][o].slot].password
                      /\ sec'[o][active(sec'[o])].priority < requested["service"] =>
                           uses[s][o].slot = active(sec'[o])
    BY <1>0, <2>1 DEF NotRefilled
  <2>6. CASE o # p
    BY <1>0, <2>2, <2>6 DEF NotRefilled
  <2>7. CASE o = p
    <3>1. uses[s][o].slot \in Slot /\ o # "admin"
      BY <1>0 DEF UsesOK
    <3>2. uses[s][o].password = sec'[o][uses[s][o].slot].password
      BY <2>5, <2>7, <3>1 DEF NotRefilled
    <3>3. ~(sec'[o][active(sec'[o])].priority < requested["service"])
      BY <1>0, <2>2, <2>3, <2>4, <2>7, <3>1
    <3> QED BY <3>2, <3>3
  <2> QED BY <2>6, <2>7
<1> QED BY <1>2, <1>3, <1>4, <1>5, StepKinds

\* Who runs with active secrets.
LEMMA AllCurrentStep ==
  ASSUME RotationInv, IdsInOrder, UsesOK, CallsOK, AllCurrent, [Next]_vars
  PROVE  AllCurrent'
<1>0. /\ Members' = Members /\ requested["service"] \in Nat
      /\ requested'["service"] \in Nat /\ want.ids["service"] \in Nat
      /\ want.ids["service"] <= requested["service"]
      /\ requested["service"] <= requested'["service"]
      /\ spec'.careful = spec.careful
  <2>1. /\ requested["service"] \in Nat /\ want.ids["service"] \in Nat
        /\ want.ids["service"] <= requested["service"]
    BY DEF RotationInv, UserOK, Calls, Group, IdsInOrder
  <2> QED BY <2>1, UserStep, UserKinds DEF RotationInv, UserOK, Group
<1>1. PromoteStep /\ doing # "admin" => pc = "service" /\ requested["service"] > 0
  <2> SUFFICES ASSUME PromoteStep, doing # "admin"
               PROVE  pc = "service" /\ requested["service"] > 0
    OBVIOUS
  <2>1. pc = "service" /\ doing \in Owners
    BY Names DEF PromoteStep, At, Group, RotationInv, DoingOK
  <2>2. sec[doing][active(sec[doing])].priority \in Nat
    BY <2>1, PairOrder DEF RotationInv, SecretsOK, Pair
  <2>3. sec[doing][active(sec[doing])].priority < want.ids["service"]
    BY <2>1, Names DEF RotationInv, DoingOK, Owners
  <2> QED BY <1>0, <2>1, <2>2, <2>3
<1>2. ASSUME requested'["service"] = 0, NEW s \in Members PROVE Current(s)'
  <2>1. requested["service"] = 0
    BY <1>0, <1>2
  <2>2. Current(s)
    BY <2>1 DEF AllCurrent
  <2> QED BY <1>0, <1>1, <2>1, <2>2, CurrentKept
<1>3. ASSUME spec.careful, handled' = Observed', NEW s \in Members PROVE Current(s)'
  <2>1. CASE Applied
    <3>1. pc = "apply" /\ TasksDone /\ UNCHANGED <<sec, uses>>
      BY <2>1 DEF Applied, cluster
    <3> QED BY <1>3, <3>1 DEF AllCurrent, TasksDone, Current
  <2>2. CASE ~Applied
    <3>1. handled' = handled
      BY <2>2 DEF Next, vars, Handler, Start, RotateAdmin, RotateService, RotateFails, Save,
          Promoted, AdminDone, RotationDone, NextRound, DatabaseDone, Attempt, Crash, Rotate,
          EnableService, Provide
    <3>2. handled = Observed
      <4>1. CASE UNCHANGED <<spec, requested>>
        BY <1>3, <3>1, <4>1 DEF Observed
      <4>2. CASE ~UNCHANGED <<spec, requested>>
        BY <1>3, <4>2, UserKinds DEF UserMayChange, RotationInv
      <4> QED BY <4>1, <4>2
    <3>3. pc = "idle"
      BY <1>3, <3>2 DEF CallsOK
    <3>4. Current(s)
      BY <1>3, <3>2 DEF AllCurrent
    <3> QED BY <1>1, <3>3, <3>4, CurrentKept
  <2> QED BY <2>1, <2>2
<1>4. ASSUME spec.careful, pc' = "apply", NEW s \in Members
      PROVE  (s \in DOMAIN task' /\ task'[s] \in {"run", "failed"}) \/ Current(s)'
  <2>1. CASE RotationDone
    <3>1. pc = "service" /\ task' = [t \in want.services |-> "run"] /\ UNCHANGED <<uses, sec>>
      BY <2>1 DEF RotationDone, Tasks, cluster
    <3>2. want.services = spec.services
      BY <1>4, <3>1 DEF CallsOK, Observed
    <3>3. s \notin spec.services => Current(s)'
      BY <3>1 DEF UsesOK, Current
    <3> QED BY <3>1, <3>2, <3>3
  <2>2. CASE NextRound
    <3>1. /\ pc = "apply" /\ UNCHANGED <<uses, sec>>
          /\ \A t \in DOMAIN task : task[t] # "run"
          /\ task' = [t \in {t \in DOMAIN task : task[t] = "failed"} |-> "run"]
      BY <1>4, <2>2 DEF NextRound, cluster
    <3>2. (s \in DOMAIN task /\ task[s] \in {"run", "failed"}) \/ Current(s)
      BY <1>4, <3>1 DEF AllCurrent
    <3>3. Current(s) => Current(s)'
      BY <3>1 DEF Current
    <3> QED BY <3>1, <3>2, <3>3
  <2>3. ASSUME NEW t \in DOMAIN task, Attempt(t)
        PROVE  (s \in DOMAIN task' /\ task'[s] \in {"run", "failed"}) \/ Current(s)'
    <3>1. pc = "apply" /\ SecretsOK'
      BY <1>4, <2>3, RotationStep DEF Attempt, RotationInv
    <3>2. (s \in DOMAIN task /\ task[s] \in {"run", "failed"}) \/ Current(s)
      BY <1>4, <3>1 DEF AllCurrent
    <3>3. Current(s) => Current(s)'
      BY <1>1, <3>1, CurrentKept
    <3>4. CASE t # s
      BY <2>3, <3>2, <3>3, <3>4 DEF Attempt
    <3>5. CASE t = s
      <4>1. task' = [task EXCEPT ![s] = "failed"] \/ Installed(s)
        BY <2>3, <3>1, <3>5, AttemptEffect
      <4>2. Installed(s) => Current(s)'
        <5>1. Installed(s) => \A o \in DOMAIN uses'[s] : uses'[s][o] = get(sec'[o])
          BY DEF Installed
        <5>2. \A o : get(sec'[o]).slot = active(sec'[o])
          BY DEF get
        <5> QED BY <5>1, <5>2 DEF Current
      <4> QED BY <2>3, <3>5, <4>1, <4>2
    <3> QED BY <3>4, <3>5
  <2>4. CASE UNCHANGED <<pc, task>>
    <3>1. (s \in DOMAIN task /\ task[s] \in {"run", "failed"}) \/ Current(s)
      BY <1>4, <2>4 DEF AllCurrent
    <3>2. Current(s) => Current(s)'
      BY <1>1, <1>4, <2>4, CurrentKept
    <3> QED BY <2>4, <3>1, <3>2
  <2>5. CASE RotateAdmin
    BY <1>4, <2>5 DEF RotateAdmin, RotateFails, Save, AdminDone
  <2>6. ASSUME NEW o \in todo, RotateService(o) PROVE FALSE
    BY <1>4, <2>6 DEF RotateService, RotateFails, Save
  <2>7. CASE Start \/ Applied \/ DatabaseDone \/ Crash
    BY <1>4, <2>7 DEF Start, Applied, DatabaseDone, Crash
  <2> QED BY <2>1, <2>2, <2>3, <2>4, <2>5, <2>6, <2>7
          DEF Next, vars, Handler, Rotate, EnableService, Provide
<1> QED BY <1>0, <1>2, <1>3, <1>4 DEF AllCurrent

\* The inductive invariant of what services run with.
LEMMA AccessStep == RotationInv /\ AdminInv /\ AccessInv /\ [Next]_vars => AccessInv'
<1> SUFFICES ASSUME RotationInv, AdminInv, AccessInv, [Next]_vars PROVE AccessInv'
  OBVIOUS
<1>1. UsesOK' /\ CallsOK'
  BY UsesStep, CallsStep DEF AccessInv
<1>2. Waits' <=> Waits
  BY UserKinds DEF Waits, RotationInv
<1>3. Waits => NotRefilled' /\ AllCurrent'
  BY NotRefilledStep, AllCurrentStep DEF AccessInv, AdminInv
<1> QED BY <1>1, <1>2, <1>3 DEF AccessInv

\* Nothing runs before the first install.
LEMMA AccessInit == Init => AccessInv
<1> SUFFICES ASSUME Init PROVE AccessInv
  OBVIOUS
<1>1. spec \in Deployed
  BY RotationAssumption DEF Init
<1>2. DOMAIN uses = Members /\ \A s \in Members : DOMAIN uses[s] = {}
  BY DEF Init
<1>3. accounts \in [Owner -> [Slot -> Nat]] /\ rabbit \in [Owner -> [Slot -> Nat]]
  BY DEF Init
<1>4. UsesOK /\ NotRefilled /\ AllCurrent
  BY <1>2, <1>3 DEF UsesOK, NotRefilled, AllCurrent, Current
<1>5. CallsOK
  BY <1>1 DEF Init, CallsOK, NoTasks, Group, Deployed
<1> QED BY <1>4, <1>5 DEF AccessInv

\* As long as users wait for APPLIED between two requests, or make one only,
\* no rotation, restart, failed attempt or order of the tasks locks out a
\* service that runs.
THEOREM AccessStays == Spec => KeepsAccess
<1> DEFINE A == Waits => \A s \in Members : uses'[s] = uses[s] =>
                  \A o \in DOMAIN uses[s] :
                    /\ Accepts(o, uses[s][o]) => Accepts(o, uses[s][o])'
                    /\ RabbitAccepts(o, uses[s][o]) => RabbitAccepts(o, uses[s][o])'
<1>1. ASSUME RotationInv, AccessInv, [Next]_vars, Waits,
             NEW s \in Members, uses'[s] = uses[s], NEW o \in DOMAIN uses[s]
      PROVE  /\ Accepts(o, uses[s][o]) => Accepts(o, uses[s][o])'
             /\ RabbitAccepts(o, uses[s][o]) => RabbitAccepts(o, uses[s][o])'
  <2>1. UsesOK /\ CallsOK /\ NotRefilled
    BY <1>1 DEF AccessInv
  <2>2. /\ o \in Owners /\ o \in Owner /\ uses[s][o].slot \in Slot
        /\ uses[s][o].password = sec[o][uses[s][o].slot].password
    BY <2>1 DEF UsesOK, NotRefilled, Owners
  <2>3. CASE UNCHANGED <<accounts, rabbit>>
    BY <1>1, <2>3 DEF Accepts, RabbitAccepts
  <2>4. ASSUME NEW t \in DOMAIN task, Adds, Installed(t)
        PROVE  LET i == uses[s][o].slot
               IN  /\ accounts'[o][i] = accounts[o][i]
                        \/ accounts'[o][i] = uses[s][o].password
                   /\ rabbit'[o][i] = rabbit[o][i] \/ rabbit'[o][i] = uses[s][o].password
    <3>1. sec'[o] = sec[o]
      BY <2>2, <2>4 DEF Adds
    <3> QED BY <2>2, <2>4, <3>1 DEF Installed
  <2>5. SaveStep \/ PromoteStep => UNCHANGED <<accounts, rabbit>>
    BY DEF SaveStep, PromoteStep, Save, cluster
  <2>6. CASE \E t \in DOMAIN task : Adds /\ Installed(t)
    BY <1>1, <2>4, <2>6 DEF Accepts, RabbitAccepts
  <2> QED BY <1>1, <2>1, <2>3, <2>5, <2>6, StepKinds
<1>2. RotationInv /\ AccessInv /\ [Next]_vars => [A]_vars
  BY <1>1
<1>3. KeepsAccess <=> [][A]_vars
  BY DEF KeepsAccess
<1>4. Init => AdminInv
  BY DEF Init, AdminInv, IdsInOrder
<1> HIDE DEF A
<1> QED BY <1>2, <1>3, <1>4, AccessInit, AccessStep, AdminStep, RotationCorrect, PTL DEF Spec
=============================================================================
