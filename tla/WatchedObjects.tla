--------------------------- MODULE WatchedObjects ---------------------------
(***************************************************************************)
(* Secrets and config maps of others that the deployment depends on, and   *)
(* those it shares with others (controllers/secrets.py, ceph/secrets.py,   *)
(* tf/secrets.py, configmaps.py).  For the first a handler puts a hash of  *)
(* the object into status.watched of the deployment, and a change there    *)
(* makes kopf call the handler of the deployment, which renders every      *)
(* service from what it then reads.  For the second a handler copies.      *)
(* Handlers of different objects run in threads, in processes of their     *)
(* own; kopf calls a handler again until it has handled the last content.  *)
(*                                                                         *)
(* The content of an object is a version, 0 if it is not there, with a new *)
(* one for each change; of the RabbitMQ users it is the set of topics.     *)
(***************************************************************************)
EXTENDS Integers, FiniteSets

CONSTANTS
  Service,        \* services of the deployment
  Uses,           \* Uses[s]: the watched objects a service is rendered from
  Topics,         \* topics of external notifications
  MaxEvents       \* bound: changes of objects and of the deployment, restarts

Hashed == {"ceph", "values", "bgpvpn", "tfdata", "artifacts"}
TfWriters == {"neutron", "metadata"}
Passwords == {"pwA", "pwB"}
Sources == Hashed \cup TfWriters \cup Passwords \cup {"osclouds", "users"}
\* Handlers that kopf also calls when it starts, and, but one, for new objects.
Resumed == {"ceph", "osclouds"} \cup TfWriters \cup Passwords
NotOnCreate == {"ceph"}

ASSUME UsesAssumption ==
  /\ {"messaging", "networking"} \subseteq Service
  /\ \A s \in Service : Uses[s] \subseteq Hashed

VARIABLES
  data,           \* data[x]: content of the object
  going,          \* the config map is being deleted
  spec,           \* topics of the deployment; none if they are not enabled
  watched,        \* status.watched of the deployment
  done,           \* done[x]: content kopf has recorded as handled
  resume,         \* objects kopf has to call a handler for after a start
  run,            \* run[x]: the handler of the object
  dep,            \* the handler of the deployment
  depDone,        \* what kopf has recorded as handled of the deployment
  rendered,       \* rendered[s][x]: content the service was rendered from
  overtaken,      \* a service was rendered from a config map on its way out
  tf,             \* fields of the secret shared with Tungsten Fabric
  clouds,         \* copies of the credentials for the controller and users
  ext,            \* topics whose credentials are shared
  lb,             \* the external service of RabbitMQ has an address
  rotation,       \* status.credentials.rotation
  events

world == <<data, going, spec, lb, events>>
kopf == <<done, resume, run>>
deployment == <<dep, depDone, rendered, overtaken>>
copies == <<tf, clouds, ext, rotation>>
vars == <<data, going, spec, watched, done, resume, run, dep, depDone, rendered, overtaken,
          tf, clouds, ext, lb, rotation, events>>

Off == [at |-> "off"]
Body == [spec |-> spec, watched |-> watched]
Settled == dep = Off /\ depDone = Body
\* kopf has recorded nothing, or starts again and resumes.
Unhandled == [spec |-> {}, watched |-> [x \in {} |-> 0]]
Fields == TfWriters \cup {"networking"}
TfExists == \E f \in Fields : tf[f] # 0
Active == CHOOSE p \in Passwords : \A q \in Passwords : data[p] >= data[q]
-----------------------------------------------------------------------------
(* What changes *)

Changed ==
  /\ events < MaxEvents /\ events' = events + 1
  /\ UNCHANGED <<lb, watched, kopf, deployment, copies>>

\* Objects others keep, and objects of the charts.  The secret of Ceph is left
\* alone until kopf has seen that it was made.
ChangeObject(x) ==
  /\ x \in Sources \ (Passwords \cup {"users"}) /\ ~(x = "artifacts" /\ going)
  /\ x \in NotOnCreate => (done[x] = 0 <=> data[x] = 0)
  /\ data' = [data EXCEPT ![x] = events + 2]
  /\ Changed /\ UNCHANGED <<going, spec>>

\* kopf keeps the config map until its handler has returned.  It is deleted
\* from a deployment that has been handled.
DeleteArtifacts ==
  /\ data["artifacts"] # 0 /\ ~going /\ going' = TRUE
  /\ Settled /\ watched["artifacts"] = data["artifacts"]
  /\ Changed /\ UNCHANGED <<data, spec>>

\* rotate: the backup gets a greater priority than the active secret.
Rotate ==
  /\ data' = [data EXCEPT ![CHOOSE p \in Passwords : p # Active] = events + 2]
  /\ Changed /\ UNCHANGED <<going, spec>>

\* Topics are changed when the deployment and the users of before have been
\* handled.
Edit ==
  /\ Settled /\ done["users"] = data["users"]
  /\ spec' \in SUBSET Topics \ {spec}
  /\ Changed /\ UNCHANGED <<data, going>>

\* The external service is part of a release with topics.
LbReady ==
  /\ ~lb /\ data["users"] # {} /\ lb' = TRUE
  /\ UNCHANGED <<data, going, spec, events, watched, kopf, deployment, copies>>
-----------------------------------------------------------------------------
(* Handlers of objects *)

Frame == UNCHANGED <<world, deployment>>
Return(x) ==
  /\ run' = [run EXCEPT ![x] = Off]
  /\ done' = [done EXCEPT ![x] = run[x].body]
\* kopf calls the handler again, with the content of then.
Retry(x) == run' = [run EXCEPT ![x] = Off] /\ UNCHANGED done
Step(x, r) == run' = [run EXCEPT ![x] = r] /\ UNCHANGED done

\* A handler is called with what the object holds.
Begin(x) ==
  /\ run[x] = Off
  /\ data[x] # done[x] \/ x \in resume \/ (x = "artifacts" /\ going)
  /\ LET missed == x \in NotOnCreate /\ done[x] = 0 /\ x \notin resume
     IN  IF missed THEN done' = [done EXCEPT ![x] = data[x]] /\ UNCHANGED run
         ELSE Step(x, [at |-> "begun", body |-> data[x], old |-> done[x],
                       deleted |-> x = "artifacts" /\ going])
  /\ resume' = resume \ {x}
  /\ Frame /\ UNCHANGED <<watched, copies>>

\* The hash of the content the handler was called with.
PatchHash(x) ==
  /\ run[x].at = "begun" /\ ~run[x].deleted
  /\ watched' = [watched EXCEPT ![x] = run[x].body] /\ Return(x)
  /\ Frame /\ UNCHANGED <<resume, copies>>

handle_ceph_shared_secret == PatchHash("ceph")
handle_tf_shared_secrets == PatchHash("tfdata")
handle_bgpvpnsecret == PatchHash("bgpvpn")
handle_substitution_secrets == PatchHash("values")
handle_watch_configmap == PatchHash("artifacts")

\* Mutation: a deleted config map stays in the status.
DeleteKeepsHash ==
  /\ run["artifacts"].at = "begun" /\ run["artifacts"].deleted
  /\ Step("artifacts", [run["artifacts"] EXCEPT !.at = "gone"])
  /\ Frame /\ UNCHANGED <<watched, resume, copies>>

handle_delete_watch_configmap ==
  /\ run["artifacts"].at = "begun" /\ run["artifacts"].deleted
  /\ watched' = [watched EXCEPT !["artifacts"] = 0]
  /\ Step("artifacts", [run["artifacts"] EXCEPT !.at = "gone"])
  /\ Frame /\ UNCHANGED <<resume, copies>>

\* kopf removes its finalizer.
ArtifactsGone ==
  /\ run["artifacts"].at = "gone"
  /\ run' = [run EXCEPT !["artifacts"] = Off] /\ done' = [done EXCEPT !["artifacts"] = 0]
  /\ data' = [data EXCEPT !["artifacts"] = 0] /\ going' = FALSE
  /\ UNCHANGED <<spec, lb, events, deployment, watched, resume, copies>>

\* Mutation: the secret is written as a whole.
SaveReplaces(f, v, found) ==
  IF found THEN [g \in Fields |-> IF g = f THEN v ELSE 0] ELSE [tf EXCEPT ![f] = v]
\* save_secret_data: an update is a patch that keeps other fields.
Save(f, v, found) == [tf EXCEPT ![f] = v]

\* save_secret_data looks for the secret before it creates or updates it.
FindTf(x) ==
  /\ run[x].at = "begun"
  /\ Step(x, [run[x] EXCEPT !.at = IF TfExists THEN "update" ELSE "create"])
  /\ Frame /\ UNCHANGED <<watched, resume, copies>>

\* Mutation: a secret that exists is taken for done.
SaveTfGivesUp(x) ==
  /\ run[x].at \in {"create", "update"}
  /\ IF run[x].at = "create" /\ TfExists THEN Return(x) /\ UNCHANGED tf
     ELSE tf' = Save(x, run[x].body, run[x].at = "update") /\ Return(x)
  /\ Frame /\ UNCHANGED <<watched, resume, clouds, ext, rotation>>

\* The secret may have been created meanwhile.
SaveTf(x) ==
  /\ run[x].at \in {"create", "update"}
  /\ IF run[x].at = "create" /\ TfExists THEN Retry(x) /\ UNCHANGED tf
     ELSE tf' = Save(x, run[x].body, run[x].at = "update") /\ Return(x)
  /\ Frame /\ UNCHANGED <<watched, resume, clouds, ext, rotation>>

handle_neutron_secret == FindTf("neutron") \/ SaveTf("neutron")
handle_neutron_configmap_secret == FindTf("metadata") \/ SaveTf("metadata")

\* handle_keystone_osclouds_secret: one copy and then the other.
SaveClouds ==
  /\ run["osclouds"].at \in {"begun", "second"}
  /\ IF run["osclouds"].at = "begun"
     THEN /\ clouds' = [clouds EXCEPT !.controller = run["osclouds"].body]
          /\ Step("osclouds", [run["osclouds"] EXCEPT !.at = "second"])
     ELSE /\ clouds' = [clouds EXCEPT !.external = run["osclouds"].body]
          /\ Return("osclouds")
  /\ Frame /\ UNCHANGED <<watched, resume, tf, ext, rotation>>

\* _handle_credentials_rotation, for the secret that is active by then.
SetRotation(p) ==
  /\ run[p].at = "begun"
  /\ rotation' = IF p = Active /\ (run[p].body # run[p].old \/ rotation = 0)
                 THEN data[Active] ELSE rotation
  /\ Return(p)
  /\ Frame /\ UNCHANGED <<watched, resume, tf, clouds, ext>>

\* The two secrets of the service users; handle_admin_users_secret does the
\* same for the administrator.
handle_identity_passwords_secret(p) == SetRotation(p)

\* handle_rabbitmq_external_secret: what is shared is listed, the topics are
\* those of the deployment, which may be ahead of the users.
UsersStart ==
  LET r == run["users"]
  IN  /\ r.at = "begun"
      /\ IF spec = {} THEN ext' = {} /\ Return("users")
         ELSE IF ~lb THEN Retry("users") /\ UNCHANGED ext
         ELSE /\ Step("users", [at |-> "save", body |-> r.body, existent |-> ext, todo |-> spec \cap r.body])
              /\ UNCHANGED ext
      /\ Frame /\ UNCHANGED <<watched, resume, tf, clouds, rotation>>

UsersSave ==
  LET r == run["users"]
  IN  /\ r.at = "save"
      /\ IF r.todo = {} THEN ext' = ext \ r.existent /\ Return("users")
         ELSE \E t \in r.todo :
                /\ ext' = ext \cup {t}
                /\ Step("users", [r EXCEPT !.todo = @ \ {t}, !.existent = @ \ {t}])
      /\ Frame /\ UNCHANGED <<watched, resume, tf, clouds, rotation>>
-----------------------------------------------------------------------------
(* The handler of the deployment *)

\* kopf calls it for a change of the specification or of status.watched.
DepStart ==
  /\ dep = Off /\ depDone # Body
  /\ dep' = [at |-> "begun", body |-> Body]
  /\ UNCHANGED <<depDone, rendered, overtaken, world, watched, kopf, copies>>

\* mspec: the specification with the values that secrets hold for it.
DepRead ==
  /\ dep.at = "begun"
  /\ dep' = [at |-> "render", body |-> dep.body, spec |-> spec, values |-> data["values"],
             todo |-> Service, tf |-> "find"]
  /\ UNCHANGED <<depDone, rendered, overtaken, world, watched, kopf, copies>>

\* Neutron.apply shares its part with Tungsten Fabric before it renders.
RenderTf ==
  /\ dep.at = "render" /\ "networking" \in dep.todo /\ dep.tf # "saved"
  /\ IF dep.tf = "find"
     THEN dep' = [dep EXCEPT !.tf = IF TfExists THEN "update" ELSE "create"] /\ UNCHANGED tf
     ELSE IF dep.tf = "create" /\ TfExists
          THEN dep' = [dep EXCEPT !.tf = "find"] /\ UNCHANGED tf
          ELSE /\ tf' = Save("networking", 1, dep.tf = "update")
               /\ dep' = [dep EXCEPT !.tf = "saved"]
  /\ UNCHANGED <<depDone, rendered, overtaken, world, watched, kopf, clouds, ext, rotation>>

\* Other objects are read when the service is rendered; without the secret of
\* Ceph it fails and is tried again.  The users of RabbitMQ are part of its
\* release.
Render(s) ==
  /\ dep.at = "render" /\ s \in dep.todo
  /\ s = "networking" => dep.tf = "saved"
  /\ "ceph" \in Uses[s] => data["ceph"] # 0
  /\ rendered' = [rendered EXCEPT ![s] =
       [x \in Uses[s] |-> IF x = "values" THEN dep.values ELSE data[x]]]
  /\ data' = IF s = "messaging" THEN [data EXCEPT !["users"] = dep.spec] ELSE data
  /\ overtaken' = (overtaken \/ (going /\ "artifacts" \in Uses[s]))
  /\ dep' = [dep EXCEPT !.todo = @ \ {s}]
  /\ UNCHANGED <<depDone, going, spec, lb, events, watched, kopf, copies>>

DepEnd ==
  /\ dep.at = "render" /\ dep.todo = {}
  /\ dep' = Off /\ depDone' = dep.body
  /\ UNCHANGED <<rendered, overtaken, world, watched, kopf, copies>>

\* The process of the handlers ends; kopf starts again.
CrashSecrets ==
  /\ events < MaxEvents /\ events' = events + 1
  /\ run' = [x \in Sources |-> Off] /\ resume' = {x \in Resumed : data[x] # 0}
  /\ UNCHANGED <<done, data, going, spec, lb, watched, deployment, copies>>

CrashDeployment ==
  /\ dep # Off /\ events < MaxEvents /\ events' = events + 1
  /\ dep' = Off /\ depDone' = Unhandled
  /\ UNCHANGED <<rendered, overtaken, data, going, spec, lb, watched, kopf, copies>>
-----------------------------------------------------------------------------
\* A new deployment: kopf has handled the objects that were there before, and
\* nothing is shared with Tungsten Fabric or as a topic.  A deployment without
\* topics may be there before Ceph.
Present == {{"pwA", "ceph", "values", "osclouds"}, {"pwA", "values", "osclouds"}}
Init ==
  /\ \E there \in Present :
       /\ data = [x \in Sources |-> IF x = "users" THEN {} ELSE IF x \in there THEN 1 ELSE 0]
       /\ spec \in IF "ceph" \in there THEN {{}, Topics} ELSE {{}}
  /\ done = data /\ resume = {} /\ run = [x \in Sources |-> Off]
  /\ going = FALSE
  /\ watched = [x \in Hashed |-> data[x]]
  /\ dep = Off /\ depDone = Unhandled
  /\ rendered = [s \in Service |-> [x \in Uses[s] |-> 0]] /\ overtaken = FALSE
  /\ tf = [f \in Fields |-> 0] /\ clouds = [controller |-> 1, external |-> 1]
  /\ ext = {} /\ lb = FALSE /\ rotation = 1
  /\ events = 0

Handler(x) ==
  \/ Begin(x)
  \/ x = "ceph" /\ handle_ceph_shared_secret
  \/ x = "tfdata" /\ handle_tf_shared_secrets
  \/ x = "bgpvpn" /\ handle_bgpvpnsecret
  \/ x = "values" /\ handle_substitution_secrets
  \/ x = "artifacts" /\ (handle_watch_configmap \/ handle_delete_watch_configmap \/ ArtifactsGone)
  \/ x = "neutron" /\ handle_neutron_secret
  \/ x = "metadata" /\ handle_neutron_configmap_secret
  \/ x = "osclouds" /\ SaveClouds
  \/ x = "users" /\ (UsersStart \/ UsersSave)
  \/ x \in Passwords /\ handle_identity_passwords_secret(x)
Deploy == DepStart \/ DepRead \/ RenderTf \/ (\E s \in Service : Render(s)) \/ DepEnd

Next ==
  \/ \E x \in Sources : ChangeObject(x) \/ Handler(x)
  \/ DeleteArtifacts \/ Rotate \/ Edit \/ LbReady
  \/ Deploy \/ CrashSecrets \/ CrashDeployment

Spec == Init /\ [][Next]_vars

\* kopf calls handlers, threads run, the address is given in the end.
FairSpec ==
  /\ Spec /\ WF_vars(Deploy) /\ WF_vars(LbReady)
  /\ \A x \in Sources : WF_vars(Handler(x))
-----------------------------------------------------------------------------
(* Properties *)

\* In the end every service is rendered from the last content of each object
\* it depends on, whenever that changed: before or after it was rendered,
\* before or after its hash was taken, or across restarts; unless the secret
\* of Ceph is never made.  A config map that is rendered while it is on its way
\* out is left aside.
RenderedCurrent ==
  <>[](overtaken \/ data["ceph"] = 0 \/ \A s \in Service : \A x \in Uses[s] : rendered[s][x] = data[x])

\* In the end others hold the last content of what is shared with them: the
\* parts for Tungsten Fabric, both copies of the credentials, a secret for
\* each topic and for no other, and the time of the last rotation.
CopiesCurrent ==
  <>[](/\ \A x \in TfWriters : tf[x] = data[x]
       /\ clouds = [controller |-> data["osclouds"], external |-> data["osclouds"]]
       /\ ext = spec
       /\ rotation = data[Active])

\* Of three writers to the secret of Tungsten Fabric none takes away or turns
\* back what another has shared (save_secret_data).
TfFieldsKept == [][\A f \in Fields : tf'[f] >= tf[f]]_vars
=============================================================================
