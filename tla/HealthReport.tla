---------------------------- MODULE HealthReport ----------------------------
(***************************************************************************)
(* The health of the deployment's objects as its status shows it           *)
(* (health.py, batch_health.py, hooks.py, controllers/health.py).  An      *)
(* updater goes over all objects again and again and patches status.health *)
(* in several requests.  Handlers remove what is deleted, and compare the  *)
(* state of a daemon set with its last report to find out that a node was  *)
(* added.  Upgrades wait for the report.                                   *)
(*                                                                         *)
(* Names and labels of objects are sequences of words.  The daemon set Ds  *)
(* is modelled by its pods, of other objects only readiness matters.       *)
(***************************************************************************)
EXTENDS Integers, Sequences, FiniteSets

CONSTANTS
  Objects, Ds,        \* objects of the namespace, Ds one of them
  Meta,               \* Meta[o]: kind, name and labels
  Later,              \* objects that are not there at first
  Node, NewNode,      \* nodes, and those that are not there at first
  OnDelete,           \* update strategy of Ds
  MaxChanges,         \* bound: changes of objects and nodes
  MaxFaults           \* bound: requests and jobs that fail

OK == "Ready"
BAD == "Unhealthy"
Kinds == <<"Deployment", "DaemonSet", "StatefulSet">>

ASSUME ObjectAssumption ==
  /\ Ds \in Objects \ Later /\ NewNode \subseteq Node /\ Meta[Ds].kind = "DaemonSet"
  /\ \A o \in Objects : \E k \in DOMAIN Kinds : Meta[o].kind = Kinds[k]

VARIABLES
  obj,          \* obj[o]: "absent", OK, BAD
  going,        \* deleted objects that wait for their handler
  removed,      \* those whose handler has run
  nodes, up, old,  \* of Ds: nodes, those with a ready pod, with an old pod
  health,       \* status.health: the status of a component
  overall,      \* status.osdpl.health
  upd,          \* the updater: step, and what it has read
  alive, was,   \* objects there, and states had, since the pass began
  ds,           \* the handler of Ds
  pending,      \* the status of Ds has changed for kopf
  hook,         \* the component of Ds has the hook for "nova" or "octavia"
  job,          \* the job octavia-create-resources
  known,        \* nodes that nova, or octavia, has been set up for
  waiter,       \* a task that has changed an application and waits for it
  changes, faults

world == <<obj, going, removed, nodes, up, old, pending, changes>>
updater == <<upd, overall>>
history == <<alive, was>>
handler == <<ds, hook, job, known>>
vars == <<obj, going, removed, nodes, up, old, health, overall, upd, alive, was, ds,
          pending, hook, job, known, waiter, changes, faults>>
-----------------------------------------------------------------------------
(* Application and component of an object *)

\* Mutation: queues of services are not told from the main one.
IdentPlain(meta) ==
  LET app == meta.application
      at == {i \in 1..Len(meta.name) - Len(app) :
               SubSeq(meta.name, i, i + Len(app) - 1) = app}
      first == CHOOSE i \in at : \A j \in at : i <= j
  IN  <<app, IF at = {} THEN meta.name
             ELSE SubSeq(meta.name, first + Len(app), Len(meta.name))>>

\* Exporters and the queues of services are singled out; for the others the
\* component is what follows the application in the name.
ident(meta) ==
  LET app == meta.application
      at == {i \in 1..Len(meta.name) - Len(app) :
               SubSeq(meta.name, i, i + Len(app) - 1) = app}
      first == CHOOSE i \in at : \A j \in at : i <= j
  IN  CASE app[1] = "prometheus" /\ meta.component = <<"exporter">> ->
             <<<<"prometheus", "exporter">>,
               IF meta.name[3] = "rabbitmq" /\ meta.name[2] # "rabbitmq"
               THEN <<meta.name[2], "rabbitmq">> ELSE <<meta.name[2]>>>>
        [] app = <<"rabbitmq">> /\ meta.component = <<"server">> ->
             IF meta.name[2] # "rabbitmq" THEN <<<<meta.name[2]>>, <<"rabbitmq">>>>
             ELSE <<app, meta.component>>
        [] OTHER -> <<app, IF at = {} THEN meta.name
                           ELSE SubSeq(meta.name, first + Len(app), Len(meta.name))>>

Idents == [o \in Objects |-> ident(Meta[o])]
Id(o) == Idents[o]
Application(o) == Id(o)[1]
Applications(ids) == {i[1] : i \in ids}

\* DaemonSet.ready: old pods count as ready, not as updated.
DsReady(ns, u, ol) ==
  IF OnDelete THEN Cardinality(u) = Cardinality(ns)
  ELSE Cardinality(u) = Cardinality(ns \ ol)

\* health_status
Status(o) == IF o # Ds THEN obj[o] ELSE IF DsReady(nodes, up, old) THEN OK ELSE BAD
Present == {o \in Objects : obj[o] # "absent"}
-----------------------------------------------------------------------------
(* Objects, nodes and pods *)

\* What the rest of the system sees of a change of objects.
Observe ==
  /\ was' = IF upd.at = "wait" THEN {}
            ELSE was \cup {<<o, Status(o)'>> : o \in {p \in Objects : obj'[p] # "absent"}}
  /\ UNCHANGED <<health, updater, alive, handler, waiter, faults>>
Change == changes < MaxChanges /\ changes' = changes + 1

\* Objects are created and change; pods become ready in the end.
SetObj(o, s) ==
  /\ obj' = [obj EXCEPT ![o] = s]
  /\ UNCHANGED <<going, removed, nodes, up, old, pending>> /\ Observe
Create(o) == obj[o] = "absent" /\ Change /\ SetObj(o, BAD)
Break(o) == o # Ds /\ obj[o] = OK /\ Change /\ SetObj(o, BAD)
Recover(o) == o # Ds /\ obj[o] = BAD /\ UNCHANGED changes /\ SetObj(o, OK)

Delete(o) ==
  /\ obj[o] # "absent" /\ o \notin going /\ Change /\ going' = going \cup {o}
  /\ UNCHANGED <<obj, removed, nodes, up, old, pending>> /\ Observe

\* kopf keeps a deleted object until its handler has returned.
Gone(o) ==
  /\ o \in removed
  /\ obj' = [obj EXCEPT ![o] = "absent"]
  /\ going' = going \ {o} /\ removed' = removed \ {o}
  /\ alive' = alive \ {o}
  /\ UNCHANGED <<nodes, up, old, pending, changes, was, health, updater, handler, waiter, faults>>

SetPods(ns, u, ol) ==
  /\ obj[Ds] # "absent"
  /\ nodes' = ns /\ up' = u /\ old' = ol /\ pending' = TRUE
  /\ UNCHANGED <<obj, going, removed>> /\ Observe

AddNode(n) == n \notin nodes /\ Change /\ SetPods(nodes \cup {n}, up, old)
RemoveNode(n) ==
  n \in nodes /\ Change /\ SetPods(nodes \ {n}, up \ {n}, old \ {n})
Rollout == old = {} /\ up = nodes /\ Change /\ SetPods(nodes, up, nodes)
\* One pod after another.
Replace(n) ==
  n \in old /\ nodes \ {n} \subseteq up /\ UNCHANGED changes
            /\ SetPods(nodes, up \ {n}, old \ {n})
PodReady(n) == n \in nodes \ up /\ UNCHANGED changes /\ SetPods(nodes, up \cup {n}, old)
-----------------------------------------------------------------------------
(* batch_health_updater *)

\* A merge patch: keeps what it does not name.
patched(new, report) ==
  [i \in DOMAIN new \cup DOMAIN report |-> IF i \in DOMAIN new THEN new[i] ELSE report[i]]

Idle == [at |-> "wait", kind |-> 1, todo |-> {}, read |-> <<>>, stale |-> {}]
Quiet == UNCHANGED <<world, history, handler, waiter, faults>>

StartPass ==
  /\ upd.at = "wait"
  /\ upd' = [Idle EXCEPT !.at = "list", !.read = [i \in {} |-> OK]]
  /\ alive' = Present /\ was' = {<<o, Status(o)>> : o \in Present}
  /\ UNCHANGED <<world, handler, health, overall, waiter, faults>>

\* get_k8s_objects lists kind by kind ...
List ==
  /\ upd.at = "list" /\ upd.todo = {} /\ upd.kind \in DOMAIN Kinds
  /\ upd' = [upd EXCEPT !.todo = {o \in Present : Meta[o].kind = Kinds[upd.kind]},
                        !.kind = @ + 1]
  /\ Quiet /\ UNCHANGED <<health, overall>>

\* ... and calculate_status loads one object after the other again.
Read(o) ==
  /\ upd.at = "list" /\ o \in upd.todo \cap Present
  /\ upd' = [upd EXCEPT !.todo = @ \ {o},
                        !.read = patched([i \in {Id(o)} |-> Status(o)], @)]
  /\ Quiet /\ UNCHANGED <<health, overall>>

\* set_multi_application_health
SetHealth ==
  /\ upd.at = "list" /\ upd.todo = {} /\ upd.kind \notin DOMAIN Kinds
  /\ health' = patched(upd.read, health)
  /\ upd' = [upd EXCEPT !.at = "stale"]
  /\ Quiet /\ UNCHANGED overall

\* remove_stale_statuses reads the report again ...
FindStale ==
  /\ upd.at = "stale"
  /\ upd' = [upd EXCEPT !.at = "remove", !.stale = DOMAIN health \ DOMAIN upd.read]
  /\ Quiet /\ UNCHANGED <<health, overall>>

Without(ids) == [i \in DOMAIN health \ ids |-> health[i]]

\* Mutation: only applications are removed, not components.
RemoveStaleApplications ==
  /\ upd.at = "remove"
  /\ health' = Without({i \in upd.stale : i[1] \notin Applications(DOMAIN upd.read)})
  /\ upd' = [upd EXCEPT !.at = "overall"]
  /\ Quiet /\ UNCHANGED overall

\* ... and removes components, or applications with all they have by then.
RemoveStale ==
  /\ upd.at = "remove"
  /\ LET apps == Applications(upd.stale) \ Applications(DOMAIN upd.read)
     IN  health' = Without(upd.stale \cup {i \in DOMAIN health : i[1] \in apps})
  /\ upd' = [upd EXCEPT !.at = "overall"]
  /\ Quiet /\ UNCHANGED overall

get_overall_health(read) ==
  LET apps == Applications(DOMAIN read)
      bad == {a \in apps : \E i \in DOMAIN read : i[1] = a /\ read[i] = BAD}
  IN  [ready |-> Cardinality(apps) - Cardinality(bad), total |-> Cardinality(apps)]

EndPass == upd' = Idle /\ alive' = {} /\ was' = {}

SetOverall ==
  /\ upd.at = "overall"
  /\ overall' = get_overall_health(upd.read)
  /\ EndPass
  /\ UNCHANGED <<world, handler, waiter, faults, health>>

\* An object of the list is gone when it is loaded ...
ReadFails ==
  /\ upd.at = "list" /\ ~(upd.todo \subseteq Present)
  /\ EndPass
  /\ UNCHANGED <<world, handler, waiter, faults, health, overall>>

\* Mutation: an error that kopf takes for permanent ends the updater.
PassFailsForGood ==
  /\ upd.at # "wait" /\ faults < MaxFaults /\ faults' = faults + 1
  /\ upd' = [Idle EXCEPT !.at = "ended"] /\ alive' = {} /\ was' = {}
  /\ UNCHANGED <<world, handler, waiter, health, overall>>

\* ... or a request fails: kopf calls the updater again.
PassFails ==
  /\ upd.at # "wait" /\ faults < MaxFaults /\ faults' = faults + 1
  /\ EndPass
  /\ UNCHANGED <<world, handler, waiter, health, overall>>
-----------------------------------------------------------------------------
(* Handlers of deployments, stateful sets and daemon sets *)

\* remove_osdpl_service_health
DeleteHandler(o) ==
  /\ o \in going \ removed
  /\ health' = Without({Id(o)}) /\ removed' = removed \cup {o}
  /\ UNCHANGED <<obj, going, nodes, up, old, pending, changes, updater, history, handler, waiter, faults>>

DsFree == [at |-> "free", state |-> "", desired |-> 0]
DsOther == UNCHANGED <<obj, going, removed, nodes, up, old, changes, updater, health, history, hook, waiter>>

\* daemonsets: the state of Ds is read before its last report.
DsReadObject ==
  /\ pending /\ ds.at = "free" /\ obj[Ds] # "absent"
  /\ pending' = FALSE
  /\ ds' = [at |-> "report", state |-> Status(Ds), desired |-> Cardinality(nodes)]
  /\ UNCHANGED <<job, known, faults>> /\ DsOther

\* The report never holds a number of nodes to compare with: 0 it is.
new_node_added(desired) == desired > 0

DAEMONSET_HOOKS(prev, new) ==
  \/ hook = "nova" /\ <<prev, new>> = <<BAD, OK>>
  \/ hook = "octavia" /\ <<prev, new>> = <<OK, BAD>>

DsReadReport ==
  /\ ds.at = "report"
  /\ LET prev == IF Id(Ds) \in DOMAIN health THEN health[Id(Ds)] ELSE ""
         run == DAEMONSET_HOOKS(prev, ds.state) /\ new_node_added(ds.desired)
     IN  ds' = IF run THEN [ds EXCEPT !.at = hook] ELSE DsFree
  /\ UNCHANGED <<pending, job, known, faults>> /\ DsOther

\* run_nova_cell_setup: a job of the cron job, waited for.
run_nova_cell_setup ==
  /\ ds.at = "nova" /\ ds' = DsFree /\ known' = known \cup up
  /\ UNCHANGED <<pending, job, faults>> /\ DsOther

\* After a timeout kopf calls the handler, which compares anew.
CellSetupTimesOut ==
  /\ ds.at = "nova" /\ faults < MaxFaults /\ faults' = faults + 1
  /\ ds' = DsFree /\ pending' = TRUE
  /\ UNCHANGED <<job, known>> /\ DsOther

\* Job.rerun: a job that is not deleted in time is not created again.
rerun ==
  \/ job' = "running" /\ UNCHANGED faults
  \/ job' = "none" /\ faults < MaxFaults /\ faults' = faults + 1

\* Job.ready
job_ready == job = "done"

\* run_octavia_create_resources: only a job that is complete is run again.
run_octavia_create_resources ==
  /\ ds.at = "octavia" /\ ds' = DsFree
  /\ IF job_ready THEN rerun ELSE UNCHANGED <<job, faults>>
  /\ UNCHANGED <<pending, known>> /\ DsOther

JobEnds ==
  /\ job = "running" /\ job' = "done" /\ known' = known \cup nodes
  /\ UNCHANGED <<world, updater, health, history, ds, hook, waiter, faults>>
-----------------------------------------------------------------------------
(* wait_application_ready after a change *)

is_application_ready(a) ==
  LET ids == {i \in DOMAIN health : i[1] = a}
  IN  ids # {} /\ \A i \in ids : health[i] = OK

\* An application is applied: its objects, but Ds, start anew.
Apply(a) ==
  /\ waiter = <<>> /\ Change
  /\ waiter' = <<a>>
  /\ obj' = [o \in Objects |-> IF o \in Present \ {Ds} /\ Application(o) = a THEN BAD ELSE obj[o]]
  /\ UNCHANGED <<going, removed, nodes, up, old, pending, updater, alive, health, handler, faults>>
  /\ was' = IF upd.at = "wait" THEN {} ELSE was \cup {<<o, Status(o)'>> : o \in Present}

WaitEnds ==
  /\ waiter # <<>> /\ is_application_ready(waiter[1])
  /\ waiter' = <<>>
  /\ UNCHANGED <<world, updater, health, alive, was, handler, faults>>
-----------------------------------------------------------------------------
Init ==
  /\ obj = [o \in Objects |-> IF o \in Later THEN "absent" ELSE OK]
  /\ going = {} /\ removed = {}
  /\ nodes = Node \ NewNode /\ up = nodes /\ old = {}
  /\ health = [i \in {Id(o) : o \in Present} |-> OK]
  /\ overall = get_overall_health(health)
  /\ upd = Idle /\ alive = {} /\ was = {}
  /\ ds = DsFree /\ pending = FALSE
  /\ hook \in {"nova", "octavia"} /\ job = "done" /\ known = nodes
  /\ waiter = <<>> /\ changes = 0 /\ faults = 0

World ==
  \/ \E o \in Objects : Create(o) \/ Break(o) \/ Delete(o)
  \/ \E n \in Node : AddNode(n) \/ RemoveNode(n)
  \/ Rollout
  \/ \E a \in {Application(o) : o \in Objects} : Apply(a)
Settle ==
  \/ \E o \in Objects : Recover(o) \/ Gone(o)
  \/ \E n \in Node : Replace(n) \/ PodReady(n)
Updater ==
  \/ StartPass \/ List \/ (\E o \in Objects : Read(o)) \/ ReadFails
  \/ SetHealth \/ FindStale \/ RemoveStale \/ SetOverall
DsHandler == DsReadObject \/ DsReadReport \/ run_nova_cell_setup \/ run_octavia_create_resources

Next ==
  \/ World \/ Settle \/ Updater \/ PassFails
  \/ \E o \in Objects : DeleteHandler(o)
  \/ DsHandler \/ CellSetupTimesOut \/ JobEnds \/ WaitEnds

Spec == Init /\ [][Next]_vars

\* Threads run, jobs end, pods become ready.
FairSpec ==
  /\ Spec /\ WF_vars(Updater) /\ WF_vars(Settle) /\ WF_vars(DsHandler)
  /\ WF_vars(JobEnds) /\ WF_vars(WaitEnds)
  /\ \A o \in Objects : WF_vars(DeleteHandler(o))
-----------------------------------------------------------------------------
(* Properties *)

\* After a pass of the updater the report holds no component whose object was
\* gone before the pass began, and no status that the object did not have
\* during the pass, whatever was deleted, created or changed meanwhile
\* (update_health_statuses, handlers of deletions).
PassFresh ==
  upd.at = "overall" =>
    \A i \in DOMAIN health : \E o \in Objects : Id(o) = i /\ <<o, health[i]>> \in was

\* No two objects share a component, and after a pass an object that was there
\* from its start is reported, unless it is being deleted (ident).
AllReported ==
  upd.at = "overall" =>
    \A o \in alive \ going :
      Id(o) \in DOMAIN health /\ <<o, health[Id(o)]>> \in was

\* When objects rest the report comes to show them as they are, and so does
\* its summary; then nobody is left waiting for an application that is there
\* (update_health_statuses, wait_application_ready).
HealthCatchesUp ==
  <>[](/\ health = [i \in {Id(o) : o \in Present} |->
                      Status(CHOOSE o \in Present : Id(o) = i)]
       /\ overall = get_overall_health(health)
       /\ waiter # <<>> => waiter[1] \notin Applications({Id(o) : o \in Present}))
=============================================================================
