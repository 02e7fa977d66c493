------------------------- MODULE CredentialRotation -------------------------
(***************************************************************************)
(* The secrets of a deployment over time.  _handle in the controller of    *)
(* the OpenStackDeployment rotates the credentials that the user asked for *)
(* and then applies the services, each of which needs secrets of others    *)
(* (ServiceSecrets).  Credentials are kept in two secrets (MultiSecret):   *)
(* the one with the higher priority is active.  A rotation gives the       *)
(* backup new passwords and promotes it, so that what still runs with the  *)
(* former one keeps its access until it is installed again.                *)
(***************************************************************************)
EXTENDS ServiceSecrets

CONSTANTS
  Deployments,   \* where the system may start; later: services enabled later,
                 \* external: secrets that others make for it,
                 \* rotations: bound on the requests of a group,
                 \* careful: users change it only when it is APPLIED,
                 \* former: last rotation of a deleted one of its name
  MaxCrashes     \* bound: restarts of the controller

Group == {"admin", "service"}
Slot == {1, 2}   \* <name> and <name>-1
Service == UNION {d.services \cup d.later : d \in Deployments}
Owner == {s \in Service : HasSecret(s)} \cup {"admin"}
Secrets == {"proxy", "oidc-ca", "ceph-keys", "rgw-urls", "tf-data"}

Deployed ==
  [services : SUBSET STRING, later : SUBSET STRING, options : SUBSET STRING,
   external : SUBSET Secrets, rotations : Nat, careful : BOOLEAN, former : Nat]

ASSUME RotationAssumption ==
  /\ Deployments \subseteq Deployed
  /\ "admin" \notin Service
  /\ MaxCrashes \in Nat

VARIABLES
  spec,       \* the deployment
  have,       \* names of the secrets that exist
  sec,        \* sec[o]: the pair of secrets of o
  requested,  \* status.credentials of the OpenStackDeployment
  handled,    \* what kopf has stored as handled last
  pc,         \* where the handler is
  want,       \* the services and rotation ids it was called with
  todo,       \* services whose secrets it still has to rotate
  doing,      \* the backup of this owner has new contents, no priority yet
  task,       \* the tasks of run_task
  uses,       \* uses[s][o]: the credentials of o that s runs with
  accounts,   \* accounts[o][i]: password of the account of secret i of o
  rabbit,     \* rabbit[o][i]: its password in RabbitMQ
  root,       \* the password of the administrator of the database
  crashes

cluster == <<uses, accounts, rabbit, root>>
user == <<spec, requested>>
vars == <<spec, have, sec, requested, handled, pc, want, todo, doing, task,
          uses, accounts, rabbit, root, crashes>>
-----------------------------------------------------------------------------
Members == spec.services \cup spec.later

(* MultiSecret *)

\* Owners with a field that outlives rotations: the key of barbican, the
\* metadata and ipsec secrets of neutron, the protected user names of aodh
\* and heat.
Keyed == {"key-manager", "networking", "alarming", "orchestration"}

\* A new pair: each has contents of its own, neither has a priority.  ensure
\* saves one after the other, and after a crash in between completes the pair
\* before anybody reads it; one step is enough.
create == [i \in Slot |-> [password |-> i, key |-> i, priority |-> 0]]

\* The highest priority first, those without at the end; of two with the
\* same priority only the last is found.
k8s_secrets(pair) ==
  CASE pair[1].priority = pair[2].priority /\ pair[1].priority # 0 -> <<2>>
    [] pair[2].priority > pair[1].priority -> <<2, 1>>
    [] OTHER -> <<1, 2>>

active(pair) == k8s_secrets(pair)[1]
backup(pair) == k8s_secrets(pair)[2]

\* The secrets have different user names: a slot stands for its account.
get(pair) == [slot |-> active(pair), password |-> pair[active(pair)].password]

generate_password(pair) ==
  1 + (IF pair[1].password > pair[2].password THEN pair[1].password
                                              ELSE pair[2].password)

\* Mutation: the fields to keep are those of the backup.
FilledKeepsBackup(o) ==
  [sec[o][backup(sec[o])] EXCEPT !.password = generate_password(sec[o])]

\* rotation_fields: new passwords, while the fields that must stay the same
\* are copied from the active secret.
Filled(o) ==
  LET pair == sec[o]
  IN  [pair[backup(pair)] EXCEPT
         !.password = generate_password(pair),
         !.key = IF o \in Keyed THEN pair[active(pair)].key ELSE @]

Owners == have \cap Owner

SecretsOf(names) ==
  [o \in names \cap Owner |-> IF o \in Owners THEN sec[o] ELSE create]

-----------------------------------------------------------------------------
(* The handler *)

Observed == [services |-> spec.services, ids |-> requested]

NoTasks == [s \in {} |-> "run"]
Tasks(S) == task' = [s \in S |-> "run"]

\* While the first install has not ended kopf passes no old state, and
\* rotate_credentials raises an error when an id is set.
Installing == handled.services = {}
Fails == Installing /\ \E g \in Group : requested[g] # 0
Asked(g) == requested[g] # handled.ids[g]

\* The admin secret is ensured first; the ids that differ are rotated.
Start ==
  /\ pc = "idle" /\ handled # Observed
  /\ have' = have \cup {"admin"} /\ sec' = SecretsOf(have')
  /\ want' = Observed
  /\ pc' = IF Fails THEN "idle" ELSE IF Asked("admin") THEN "admin" ELSE "service"
  /\ todo' = IF Asked("service") /\ ~Fails THEN spec.services \cap Owner ELSE {}
  /\ UNCHANGED <<user, handled, doing, task, cluster, crashes>>

\* kopf calls the handler again with the same difference.
RotateFails(o, id) ==
  /\ doing = "none"
  /\ o \in Owners => sec[o][active(sec[o])].priority > id
  /\ pc' = "idle" /\ todo' = {}
  /\ UNCHANGED <<user, have, sec, handled, want, doing, task, cluster, crashes>>

\* Mutation: a second call for the same request rotates again.
SaveAlways(o, id) ==
  /\ doing = "none" /\ o \in Owners /\ sec[o][active(sec[o])].priority <= id
  /\ sec' = [sec EXCEPT ![o][backup(sec[o])] = Filled(o)]
  /\ doing' = o
  /\ UNCHANGED <<user, have, handled, pc, want, todo, task, cluster, crashes>>

\* The backup gets its new contents ...
Save(o, id) ==
  /\ doing = "none" /\ o \in Owners /\ sec[o][active(sec[o])].priority < id
  /\ sec' = [sec EXCEPT ![o][backup(sec[o])] = Filled(o)]
  /\ doing' = o
  /\ UNCHANGED <<user, have, handled, pc, want, todo, task, cluster, crashes>>

\* ... and in a second call its priority; or it was rotated for this request.
Promoted(o, id) ==
  /\ \/ doing = o /\ sec' = [sec EXCEPT ![o][backup(sec[o])].priority = id]
     \/ /\ doing = "none" /\ o \in Owners
        /\ sec[o][active(sec[o])].priority = id /\ sec' = sec
  /\ doing' = "none"
  /\ UNCHANGED <<user, have, handled, want, cluster, crashes>>

\* Mutation: nothing is left to do when the secret is rotated already.
AdminDoneSkips ==
  /\ Promoted("admin", want.ids["admin"])
  /\ pc' = (IF doing = "none" THEN "service" ELSE "database")
  /\ (IF doing = "none" THEN UNCHANGED task ELSE Tasks({"database"}))
  /\ UNCHANGED todo

\* The database is applied on its own, whoever has rotated the secret.
AdminDone ==
  /\ Promoted("admin", want.ids["admin"])
  /\ pc' = "database" /\ Tasks({"database"}) /\ UNCHANGED todo

RotateAdmin ==
  /\ pc = "admin"
  /\ \/ RotateFails("admin", want.ids["admin"])
     \/ Save("admin", want.ids["admin"])
     \/ AdminDone

RotateService(o) ==
  /\ pc = "service" /\ o \in todo
  /\ \/ RotateFails(o, want.ids["service"])
     \/ Save(o, want.ids["service"])
     \/ Promoted(o, want.ids["service"]) /\ todo' = todo \ {o} /\ UNCHANGED <<pc, task>>

RotationDone ==
  /\ pc = "service" /\ todo = {}
  /\ pc' = "apply" /\ Tasks(want.services)
  /\ UNCHANGED <<user, have, sec, handled, want, todo, doing, cluster, crashes>>

-----------------------------------------------------------------------------
(* run_task *)

Deployment == [services |-> want.services, options |-> spec.options]

\* The release of s: its jobs set the password of the active account, its
\* pods use that and the active accounts of others.  RabbitMQ gets both
\* accounts of every service, the database the password of the admin.
Install(s, secrets) ==
  /\ uses' = [uses EXCEPT ![s] =
       [o \in (DOMAIN secrets) \cap ({s} \cup required_accounts(s, Deployment)) |->
          get(secrets[o])]]
  /\ accounts' = [o \in Owner |->
       IF o = s /\ s \in DOMAIN secrets
       THEN [accounts[s] EXCEPT ![active(secrets[s])] = get(secrets[s]).password]
       ELSE accounts[o]]
  /\ rabbit' = [o \in Owner |->
       IF s = "messaging" /\ o \in (DOMAIN secrets) \cap want.services
       THEN [i \in Slot |-> secrets[o][i].password]
       ELSE rabbit[o]]
  /\ root' = IF s = "database" THEN get(secrets["admin"]).password ELSE root

\* One attempt of a task: nothing is awaited before the values are rendered.
Attempt(s) ==
  /\ s \in DOMAIN task /\ task[s] = "run"
  /\ \E outcome \in Outcomes(s, Deployment, have) :
       /\ have' = outcome.have /\ sec' = SecretsOf(have')
       /\ task' = [task EXCEPT ![s] = IF outcome.ok THEN "done" ELSE "failed"]
       /\ IF outcome.ok THEN Install(s, sec') ELSE UNCHANGED cluster
  /\ UNCHANGED <<user, handled, pc, want, todo, doing, crashes>>

\* asyncio.wait returns when all tasks have ended; the failed ones start again.
NextRound ==
  /\ \A s \in DOMAIN task : task[s] # "run"
  /\ \E s \in DOMAIN task : task[s] = "failed"
  /\ task' = [s \in {t \in DOMAIN task : task[t] = "failed"} |-> "run"]
  /\ UNCHANGED <<user, have, sec, handled, pc, want, todo, doing, cluster, crashes>>

TasksDone == \A s \in DOMAIN task : task[s] = "done"

DatabaseDone ==
  /\ pc = "database" /\ TasksDone
  /\ pc' = "service" /\ task' = NoTasks
  /\ UNCHANGED <<user, have, sec, handled, want, todo, doing, cluster, crashes>>

\* APPLIED: kopf stores what the handler was called with.
Applied ==
  /\ pc = "apply" /\ TasksDone
  /\ pc' = "idle" /\ task' = NoTasks /\ handled' = want
  /\ UNCHANGED <<user, have, sec, want, todo, doing, cluster, crashes>>

Handler ==
  \/ Start \/ RotateAdmin \/ RotationDone \/ NextRound \/ DatabaseDone \/ Applied
  \/ \E o \in todo : RotateService(o)
  \/ \E s \in DOMAIN task : Attempt(s)

-----------------------------------------------------------------------------
(* Users, other operators, restarts *)

UserMayChange == spec.careful => handled = Observed

\* osctl credentials rotate: one more than the id in the status.
Rotate(g) ==
  /\ UserMayChange /\ requested[g] < spec.rotations
  /\ requested' = [requested EXCEPT ![g] = @ + 1]
  /\ UNCHANGED <<spec, have, sec, handled, pc, want, todo, doing, task, cluster,
                 crashes>>

EnableService(s) ==
  /\ UserMayChange /\ s \in spec.later
  /\ spec' = [spec EXCEPT !.services = @ \cup {s}, !.later = @ \ {s}]
  /\ UNCHANGED <<have, sec, requested, handled, pc, want, todo, doing, task,
                 cluster, crashes>>

\* Secrets of others: Ceph and Tungsten Fabric answer what was shared.
Provide(name) ==
  /\ name \notin have
  /\ name = "rgw-urls" => {"rgw-creds", "ceph-keys"} \subseteq have
  /\ name = "tf-data" => "tf" \in have
  /\ have' = have \cup {name}
  /\ UNCHANGED <<user, sec, handled, pc, want, todo, doing, task, cluster, crashes>>

\* The process ends where it is; kopf calls the handler of the new one.
Crash ==
  /\ pc # "idle" /\ crashes < MaxCrashes
  /\ crashes' = crashes + 1
  /\ pc' = "idle" /\ todo' = {} /\ doing' = "none" /\ task' = NoTasks
  /\ UNCHANGED <<user, have, sec, handled, want, cluster>>

Init ==
  /\ spec \in Deployments
  /\ have = IF spec.former = 0 THEN {} ELSE {"admin"} \cup (spec.services \cap Owner)
  /\ sec = [o \in Owners |-> [create EXCEPT ![1].priority = spec.former]]
  /\ requested = [g \in Group |-> 0]
  /\ handled = [services |-> {}, ids |-> [g \in Group |-> 0]]
  /\ pc = "idle" /\ want = handled /\ todo = {} /\ doing = "none"
  /\ task = NoTasks
  /\ uses = [s \in Members |-> [o \in {} |-> 0]]
  /\ accounts = [o \in Owner |-> [i \in Slot |-> 0]]
  /\ rabbit = accounts /\ root = 0
  /\ crashes = 0

Next ==
  \/ Handler \/ Crash
  \/ \E g \in Group : Rotate(g)
  \/ \E s \in spec.later : EnableService(s)
  \/ \E n \in spec.external : Provide(n)

Spec == Init /\ [][Next]_vars

\* The handler runs on, and the other operators and users answer.
FairSpec ==
  /\ Spec /\ WF_vars(Handler)
  /\ \A n \in Secrets : WF_vars(n \in spec.external /\ Provide(n))
-----------------------------------------------------------------------------
(* Properties *)

Credentials == [slot : Slot, password : Nat]

Accepts(o, c) == accounts[o][c.slot] = c.password
RabbitAccepts(o, c) == rabbit[o][c.slot] = c.password

\* "please wait for OpenstackDeployment status becoming APPLIED": users do, or
\* they ask for one rotation only.  A second one before the first is applied
\* gives new passwords to secrets that services still run with.
Waits == spec.careful \/ spec.rotations <= 1

\* Nothing the controller does locks out a service that runs: as long as it
\* is not installed again, the credentials it was installed with stay valid
\* in the database and in RabbitMQ (the point of the two secrets: rotate
\* changes the backup only, and a second call for the same id nothing).
KeepsAccess ==
  [][Waits => \A s \in Members : uses'[s] = uses[s] =>
       \A o \in DOMAIN uses[s] :
         /\ Accepts(o, uses[s][o]) => Accepts(o, uses[s][o])'
         /\ RabbitAccepts(o, uses[s][o]) => RabbitAccepts(o, uses[s][o])']_vars

\* What was encrypted or signed stays readable: the active secret keeps its
\* key whatever rotations it goes through (rotation_fields).
KeyKept ==
  [][\A o \in Owners \cap Keyed :
       (sec[o][active(sec[o])].key = sec'[o][active(sec'[o])].key)]_vars

\* When the services are applied the database knows the administrator they
\* log in as: a rotation of the admin is applied to it before anything else,
\* also if the controller restarts half way (_rotate_creds).
AdminAccepted ==
  pc = "apply" /\ root # 0 => root = get(sec["admin"]).password

\* Every request ends, with every service running on the active
\* credentials of itself and of those it depends on, whatever the order in
\* which the services are tried and wait for each other's secrets: if users
\* wait for the former request to end.
Settled ==
  /\ handled = Observed
  /\ \A s \in spec.services : \A o \in DOMAIN uses[s] :
       /\ uses[s][o] = get(sec[o])
       /\ Accepts(o, uses[s][o])
       /\ "messaging" \in spec.services => RabbitAccepts(o, uses[s][o])
Settles == spec.careful => <>[]Settled

=============================================================================
