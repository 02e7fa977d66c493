------------------------ MODULE ServiceReleaseProofs ------------------------
(***************************************************************************)
(* Proofs about ServiceRelease, for any services, releases, versions and   *)
(* faults.                                                                 *)
(***************************************************************************)
EXTENDS ServiceRelease, TLAPS

Values == [Objects \cup {"hash"} -> Nat]
Commanding(s) == pc[s] \in {"lock", "start", "run"}
Runs(s, op) == Commanding(s) /\ cmd[s].op = op

Records == [state : {"none", "deployed", "pending", "late", "stuck"},
            values : Values, next : Values]
Object == [ver : Nat, state : {"none", "starting", "up", "down"}]

Shown == [state : {"none", "APPLYING", "APPLIED", "DELETING"}, ver : Nat]

TasksOK ==
  /\ upgradeMap \in UpgradeMaps /\ want \in Versions
  /\ DOMAIN pc = Services /\ DOMAIN cmd = Services
  /\ step \in [Services -> Nat \ {0}]
  /\ status \in [Services -> Shown]

ClusterOK ==
  /\ rel \in [Releases -> Records]
  /\ objs \in [Releases -> [Objects -> Object]]
  /\ late \subseteq [rel : Releases, values : Values]

\* A task works on the releases of its own service: its commands install what
\* is rendered and delete what is not active.
CommandOK(s) ==
  /\ Commanding(s) => /\ cmd[s].op \in {"set", "install", "delete"}
                      /\ cmd[s].rel \in Available[s] /\ cmd[s].values \in Values
  /\ Runs(s, "install") => /\ step[s] - 1 \in DOMAIN Bundle[s][want]
                           /\ cmd[s].rel = Bundle[s][want][step[s] - 1]
                           /\ cmd[s].values = All(want)
  /\ Runs(s, "delete") => cmd[s].rel \notin Active(s) /\ cmd[s].values = Off
  /\ pc[s] = "delete" => ~Wanted(s)
  /\ pc[s] = "run" =>
       rel[cmd[s].rel].state = "pending" /\ rel[cmd[s].rel].next = cmd[s].values
CommandsOK == \A s \in Services : CommandOK(s)

PhaseOK ==
  /\ phase = "idle" => \A s \in Services : pc[s] = "off"
  /\ \A s \in Services : status[s].ver <= want

\* The release is installed as rendered, and whatever is under way for it
\* leaves it so.
Current(r) ==
  /\ rel[r].values = All(want) /\ (Busy(r) => rel[r].next = All(want))
  /\ ~outlived => objs[r]["server"].ver = want /\ objs[r]["server"].state # "down"

ShownApplied(s) == status[s] = [state |-> "APPLIED", ver |-> want]

\* A service is installed release by release ...
Progress(s) ==
  /\ pc[s] = "install" =>
       \A k \in DOMAIN Bundle[s][want] : k < step[s] => Current(Bundle[s][want][k])
  /\ Runs(s, "install") =>
       \A k \in DOMAIN Bundle[s][want] : k < step[s] - 1 => Current(Bundle[s][want][k])
  /\ pc[s] = "prune" \/ (Runs(s, "delete") /\ Wanted(s)) =>
       \A r \in Active(s) : Current(r)

\* ... and only then shown as applied; what is enabled afterwards has the same
\* values.
Applied(s) ==
  ShownApplied(s) =>
    /\ \A r \in Active(s) : Current(r)
    /\ \A r \in Available[s] \ Active(s) : rel[r].state = "none"
    /\ pc[s] \notin {"cleanup", "install", "prune"}
    /\ Commanding(s) => /\ cmd[s].op = "set" /\ cmd[s].rel \in Active(s)
                        /\ cmd[s].values = All(want)

ServicesOK == \A s \in Services : Progress(s) /\ Applied(s)

InstallInv == TasksOK /\ ClusterOK /\ CommandsOK /\ PhaseOK /\ ServicesOK
-----------------------------------------------------------------------------
(* What the constants are *)

\* The releases of a service are its own.
LEMMA Own ==
  ASSUME want \in Versions, NEW s \in Services
  PROVE  /\ Available[s] \subseteq Releases /\ Active(s) \subseteq Available[s]
         /\ MainRelease[s] \in Available[s]
         /\ \A t \in Services : t # s => Available[s] \cap Available[t] = {}
         /\ Len(Bundle[s][want]) \in Nat
         /\ DOMAIN Bundle[s][want] = 1..Len(Bundle[s][want])
         /\ \A k \in DOMAIN Bundle[s][want] : Bundle[s][want][k] \in Active(s)
         /\ ~Wanted(s) => Active(s) = {}
<1>1. Bundle[s][want] \in Seq(Available[s])
  BY ReleaseAssumption
<1>2. /\ Len(Bundle[s][want]) \in Nat
      /\ DOMAIN Bundle[s][want] = 1..Len(Bundle[s][want])
      /\ \A k \in DOMAIN Bundle[s][want] : Bundle[s][want][k] \in Available[s]
  BY <1>1
<1>3. ~Wanted(s) => Active(s) = {}
  BY DEF Wanted, Active
<1>4. /\ Active(s) \subseteq Available[s]
      /\ \A k \in DOMAIN Bundle[s][want] : Bundle[s][want][k] \in Active(s)
  BY <1>2 DEF Active
<1>5. /\ Available[s] \subseteq Releases /\ MainRelease[s] \in Available[s]
      /\ \A t \in Services : t # s => Available[s] \cap Available[t] = {}
  BY ReleaseAssumption
<1> QED BY <1>2, <1>3, <1>4, <1>5

\* Values that a rendering gives.
LEMMA ValuesOf ==
  /\ Off \in Values /\ (want \in Versions => All(want) \in Values /\ want \in Nat /\ want > 0)
  /\ \A o \in Objects : Off[o] = 0 /\ All(want)[o] = want
  /\ "server" \in Objects /\ "server" \notin Jobs /\ Jobs \subseteq Objects
BY ReleaseAssumption DEF Off, All, Values, Versions, Objects, Jobs

\* What helm makes of the objects: those of the values, none of them stopped.
LEMMA PatchedObjects ==
  ASSUME ClusterOK, NEW r \in Releases, NEW v \in Values
  PROVE  /\ Patched(r, v) \in [Objects -> Object]
         /\ v["server"] = want /\ want > 0 /\ want \in Nat =>
              Patched(r, v)["server"].ver = want /\ Patched(r, v)["server"].state # "down"
<1>1. \A o \in Objects : v[o] \in Nat /\ objs[r][o] \in Object
  BY DEF ClusterOK, Values
<1>2. \A o \in Objects :
        /\ Patched(r, v)[o] \in Object
        /\ v[o] > 0 => Patched(r, v)[o].ver = v[o] /\ Patched(r, v)[o].state # "down"
  <2> SUFFICES ASSUME NEW o \in Objects
               PROVE  /\ Patched(r, v)[o] \in Object
                      /\ v[o] > 0 => /\ Patched(r, v)[o].ver = v[o]
                                     /\ Patched(r, v)[o].state # "down"
    OBVIOUS
  <2>1. CASE v[o] = 0
    <3>1. Patched(r, v)[o] = [ver |-> 0, state |-> "none"]
      BY <2>1 DEF Patched, Absent
    <3>2. ~(v[o] > 0)
      BY <2>1
    <3> QED BY <3>1, <3>2 DEF Object
  <2>2. CASE v[o] # 0 /\ v[o] = objs[r][o].ver /\ objs[r][o].state # "down"
    <3>1. Patched(r, v)[o] = objs[r][o]
      BY <2>2 DEF Patched
    <3> QED BY <1>1, <2>2, <3>1
  <2>3. CASE v[o] # 0 /\ ~(v[o] = objs[r][o].ver /\ objs[r][o].state # "down")
    <3>1. Patched(r, v)[o] = [ver |-> v[o], state |-> "starting"]
      BY <2>3 DEF Patched
    <3> QED BY <1>1, <3>1 DEF Object
  <2> QED BY <2>1, <2>2, <2>3
<1>3. Patched(r, v) = [o \in Objects |-> Patched(r, v)[o]]
  BY DEF Patched
<1>4. Patched(r, v) \in [Objects -> Object]
  BY <1>2, <1>3
<1> QED BY <1>2, <1>4, ValuesOf

\* What is removed are jobs.
LEMMA RemovedObjects ==
  ASSUME ClusterOK, NEW r \in Releases, NEW gone \in SUBSET Jobs
  PROVE  /\ Removed(r, gone) \in [Objects -> Object]
         /\ Removed(r, gone)["server"] = objs[r]["server"]
BY ValuesOf DEF ClusterOK, Removed, Absent, Object
-----------------------------------------------------------------------------
(* The effect of steps on releases *)

IsBusy(state) == state \in {"pending", "late", "stuck"}
ServerOK(y) == y["server"].ver = want /\ y["server"].state # "down"

\* A revision that has ended, well or not, has the values it had or new ones.
LEMMA RevisionIs ==
  ASSUME NEW record \in Records, NEW v \in Values
  PROVE  /\ Revision(record, v) \in Records /\ Revision(record, v).state = "deployed"
         /\ Revision(record, v).values \in {record.values, v}
         /\ ~IsBusy(Revision(record, v).state)
BY DEF Revision, Records, IsBusy

\* A step of the command of s: it writes to its release only, and a release
\* that is current stays so when the command has current values.
Commands(s) ==
  \E x \in Records, y \in [Objects -> Object] :
    LET r == cmd[s].rel
    IN  /\ rel' = [rel EXCEPT ![r] = x] /\ objs' = [objs EXCEPT ![r] = y]
        /\ late' \subseteq late \cup {[rel |-> r, values |-> cmd[s].values]}
        /\ outlived' = outlived
        /\ cmd[s].op # "delete" /\ cmd[s].values = All(want) /\ Current(r) =>
             /\ x.values = All(want) /\ (IsBusy(x.state) => x.next = All(want))
             /\ ~outlived => ServerOK(y)

\* The steps of a command, and its end by a timeout.
CommandStep(s) ==
  \/ Process(s) \/ Rollback(s) \/ Succeeds(s) \/ GuessAndDelete(s)
  \/ CmdFails(s) \/ CmdTimesOut(s) \/ (EnableTimesOut(s) /\ pc[s] = "run")

\* What a step of a command may do, action by action.
LEMMA CommandEffect ==
  ASSUME TasksOK, ClusterOK, CommandsOK, NEW s \in Services, CommandStep(s)
  PROVE  Commanding(s) /\ Commands(s)
<1> DEFINE r == cmd[s].rel
           v == cmd[s].values
<1>1. Commanding(s)
  BY DEF CommandStep, Process, Rollback, Succeeds, GuessAndDelete, CmdFails, CmdTimesOut,
         Commanding
<1>2. r \in Releases /\ v \in Values
  BY <1>1, Own DEF CommandsOK, CommandOK, TasksOK
<1>3. /\ rel[r] \in Records /\ objs[r] \in [Objects -> Object]
      /\ rel = [rel EXCEPT ![r] = rel[r]] /\ objs = [objs EXCEPT ![r] = objs[r]]
      /\ rel[r].values \in Values
  BY <1>2 DEF ClusterOK, Records
<1>4. want > 0 /\ want \in Nat /\ All(want)["server"] = want /\ Off \in Values
  BY ValuesOf DEF TasksOK
<1>5. Current(r) => /\ rel[r].values = All(want)
                    /\ IsBusy(rel[r].state) => rel[r].next = All(want)
                    /\ ~outlived => ServerOK(objs[r])
  BY DEF Current, Busy, IsBusy, ServerOK
<1>6. \A w \in Values : /\ Patched(r, w) \in [Objects -> Object]
                        /\ w = All(want) => ServerOK(Patched(r, w))
  BY <1>2, <1>4, PatchedObjects DEF ServerOK
<1> USE <1>1 DEF Commands
<1>7. CASE Process(s)
  <2> DEFINE x == [rel[r] EXCEPT !.state = "pending", !.next = v]
  <2>1. /\ rel' = [rel EXCEPT ![r] = x] /\ UNCHANGED <<objs, late, outlived>>
    BY <1>2, <1>3, <1>7 DEF Process, helm, ClusterOK
  <2>2. x \in Records /\ x.values = rel[r].values /\ x.next = v
    BY <1>2, <1>3 DEF Records
  <2> HIDE DEF x
  <2> QED BY <1>3, <1>5, <2>1, <2>2
<1>8. CASE Rollback(s)
  <2> DEFINE x == [rel[r] EXCEPT !.state = "deployed"]
  <2>1. /\ rel' = [rel EXCEPT ![r] = x] /\ UNCHANGED <<late, outlived>>
        /\ objs' = objs \/ objs' = [objs EXCEPT ![r] = Patched(r, rel[r].values)]
    BY <1>2, <1>3, <1>8 DEF Rollback, helm, ClusterOK
  <2>2. x \in Records /\ x.values = rel[r].values /\ x.state = "deployed"
    BY <1>3 DEF Records
  <2> HIDE DEF x
  <2>3. ~IsBusy(x.state)
    BY <2>2 DEF IsBusy
  <2>4. CASE objs' = objs
    BY <1>3, <1>5, <2>1, <2>2, <2>3, <2>4
  <2>5. CASE objs' = [objs EXCEPT ![r] = Patched(r, rel[r].values)]
    BY <1>3, <1>5, <1>6, <2>1, <2>2, <2>3, <2>5
  <2> QED BY <2>1, <2>4, <2>5
<1>9. CASE Succeeds(s)
  <2> DEFINE x == [state |-> IF cmd[s].op = "delete" THEN "none" ELSE "deployed",
                   values |-> v, next |-> Off]
  <2>1. /\ rel' = [rel EXCEPT ![r] = x] /\ UNCHANGED <<late, outlived>>
        /\ objs' = [objs EXCEPT ![r] = Patched(r, v)]
    BY <1>9 DEF Succeeds
  <2>2. x \in Records /\ x.values = v /\ ~IsBusy(x.state)
    BY <1>2, <1>4 DEF Records, IsBusy
  <2> HIDE DEF x
  <2> QED BY <1>2, <1>6, <2>1, <2>2
<1>10. CASE GuessAndDelete(s)
  <2> DEFINE x == Revision(rel[r], v)
             gone == InTheWay(r, v)
  <2>1. /\ rel' = [rel EXCEPT ![r] = x] /\ UNCHANGED <<late, outlived>>
        /\ objs' = [objs EXCEPT ![r] = Removed(r, gone)]
    BY <1>10 DEF GuessAndDelete, helm
  <2>2. x \in Records /\ x.values \in {rel[r].values, v} /\ ~IsBusy(x.state)
    BY <1>2, <1>3, RevisionIs
  <2>3. gone \in SUBSET Jobs
    BY DEF InTheWay
  <2> HIDE DEF x, gone
  <2>4. /\ Removed(r, gone) \in [Objects -> Object]
        /\ ServerOK(objs[r]) => ServerOK(Removed(r, gone))
    BY <1>2, <2>3, RemovedObjects DEF ServerOK
  <2> QED BY <1>5, <2>1, <2>2, <2>4
<1>11. CASE CmdFails(s)
  <2> DEFINE x == Revision(rel[r], v)
  <2>1. /\ rel' = [rel EXCEPT ![r] = x] /\ UNCHANGED <<late, outlived>>
        /\ objs' = objs \/ objs' = [objs EXCEPT ![r] = Patched(r, v)]
    BY <1>11 DEF CmdFails
  <2>2. x \in Records /\ x.values \in {rel[r].values, v} /\ ~IsBusy(x.state)
    BY <1>2, <1>3, RevisionIs
  <2> HIDE DEF x
  <2>3. CASE objs' = objs
    BY <1>3, <1>5, <2>1, <2>2, <2>3
  <2>4. CASE objs' = [objs EXCEPT ![r] = Patched(r, v)]
    BY <1>2, <1>5, <1>6, <2>1, <2>2, <2>4
  <2> QED BY <2>1, <2>3, <2>4
<1>12. CASE CmdTimesOut(s) \/ (EnableTimesOut(s) /\ pc[s] = "run")
  <2> DEFINE x == [rel[r] EXCEPT !.state = "late"]
  <2>1. /\ rel' = [rel EXCEPT ![r] = x] /\ UNCHANGED <<objs, outlived>>
        /\ late' = late \cup {[rel |-> r, values |-> v]} /\ pc[s] = "run"
    BY <1>2, <1>3, <1>12 DEF CmdTimesOut, EnableTimesOut, Outlive, ClusterOK
  <2>2. x \in Records /\ x.values = rel[r].values /\ x.next = v
    BY <1>3, <2>1 DEF Records, CommandsOK, CommandOK
  <2> HIDE DEF x
  <2> QED BY <1>3, <1>5, <2>1, <2>2
<1> QED BY <1>7, <1>8, <1>9, <1>10, <1>11, <1>12 DEF CommandStep

\* Steps that leave the releases alone.
Still == UNCHANGED <<rel, objs, late, outlived>>
\* Steps that remove jobs and nothing else.
RemovesJobs ==
  /\ objs' \in [Releases -> [Objects -> Object]] /\ UNCHANGED <<rel, late, outlived>>
  /\ \A r \in Releases : objs'[r]["server"] = objs[r]["server"]

\* What the steps of a task are for the releases.
LEMMA TaskKinds ==
  ASSUME NEW s \in Services, Task(s) \/ TaskFault(s)
  PROVE  Still \/ CommandStep(s) \/ Apply(s) \/ EnableNext(s) \/ CleanupImmutable(s)
<1>1. CASE \/ Acquire(s) \/ WaitHealthy(s) \/ EnableDone(s) \/ GetValues(s) \/ Check(s)
           \/ Install(s) \/ Prune(s) \/ UpgradeDone(s) \/ Delete(s) \/ HealthTimesOut(s)
  BY <1>1 DEF Acquire, WaitHealthy, EnableDone, GetValues, Check, Install, Prune,
              UpgradeDone, Delete, HealthTimesOut, Still, helm, cluster
<1>2. CASE EnableTimesOut(s) /\ pc[s] # "run"
  BY <1>2 DEF EnableTimesOut, Still
<1> QED BY <1>1, <1>2 DEF Task, TaskFault, CommandStep

\* Every step is one of these for the releases.
LEMMA StepKinds ==
  ASSUME [Next]_vars
  PROVE  \/ Still \/ Crash
         \/ \E s \in Services : CommandStep(s) \/ Apply(s)
         \/ \E s \in Services : EnableNext(s) \/ CleanupImmutable(s)
         \/ \E r \in Releases : Starts(r)
         \/ \E p \in late : LateFinishes(p)
<1>1. CASE UNCHANGED vars
  BY <1>1 DEF vars, Still
<1>2. CASE Change \/ OrphanAcquires
  BY <1>2 DEF Change, OrphanAcquires, Still, helm, cluster
<1>3. CASE Handler
  BY <1>3 DEF Handler, StartHandler, StartPhase, RetryRound, NextPhase, HandlerDone, Still,
              helm, cluster
<1>4. ASSUME NEW s \in Services, Task(s) \/ TaskFault(s)
      PROVE  Still \/ CommandStep(s) \/ Apply(s) \/ EnableNext(s) \/ CleanupImmutable(s)
  BY <1>4, TaskKinds
<1> QED BY <1>1, <1>2, <1>3, <1>4 DEF Next

\* What _upgrade enables, and what apply does before the rest.
LEMMA Lists ==
  ASSUME TasksOK, NEW s \in Services
  PROVE  /\ upgradeMap \in Seq(Enabled) /\ EnableList(s) \in Seq(Enabled)
         /\ phase = "upgrade" =>
              /\ Forced = upgradeMap /\ Len(EnableList(s)) >= Len(upgradeMap)
              /\ step[s] <= Len(upgradeMap) => EnableList(s)[step[s]] = upgradeMap[step[s]]
<1>1. upgradeMap \in Seq(Enabled)
  <2>1. \A o \in Objects : Kept(o) \in Enabled
    BY DEF Kept, Enabled
  <2>2. \A o \in Jobs : Purged(o) \in Enabled
    BY DEF Purged, Enabled
  <2>3. {"job", "contract"} \subseteq Jobs /\ {"job", "contract", "server"} \subseteq Objects
    BY DEF Jobs, Objects
  <2>4. /\ glance_upgrade \in Seq(Enabled) /\ keystone_upgrade \in Seq(Enabled)
        /\ cinder_upgrade \in Seq(Enabled) /\ heat_upgrade \in Seq(Enabled)
        /\ neutron_upgrade \in Seq(Enabled) /\ nova_upgrade \in Seq(Enabled)
    BY <2>1, <2>2, <2>3 DEF glance_upgrade, keystone_upgrade, cinder_upgrade, heat_upgrade,
                            neutron_upgrade, nova_upgrade
  <2> QED BY <2>4 DEF TasksOK, UpgradeMaps
<1>2. AgentsFirst[s] \in Seq(Enabled)
  BY ReleaseAssumption
<1>3. Forced \in Seq(Enabled) /\ (phase = "upgrade" => Forced = upgradeMap)
  BY <1>1 DEF Forced
<1>4. EnableList(s) \in Seq(Enabled) /\ Len(EnableList(s)) = Len(Forced) + Len(AgentsFirst[s])
  BY <1>2, <1>3 DEF EnableList
<1>5. ASSUME step[s] <= Len(Forced) PROVE EnableList(s)[step[s]] = Forced[step[s]]
  <2>1. step[s] \in 1..Len(Forced)
    BY <1>3, <1>5 DEF TasksOK
  <2> QED BY <1>2, <1>3, <2>1 DEF EnableList
<1>6. Len(Forced) \in Nat /\ Len(AgentsFirst[s]) \in Nat
  BY <1>2, <1>3
<1> QED BY <1>1, <1>3, <1>4, <1>5, <1>6

\* What apply and _upgrade enable: only jobs are removed before.
LEMMA OnlyJobs ==
  ASSUME TasksOK, NEW s \in Services, step[s] <= Len(EnableList(s))
  PROVE  Child(s).rel = MainRelease[s] /\ (Child(s).purge => Child(s).obj \in Jobs)
<1>1. EnableList(s) \in Seq(Enabled)
  BY Lists
<1>2. step[s] \in 1..Len(EnableList(s))
  BY <1>1 DEF TasksOK
<1>3. EnableList(s)[step[s]] \in Enabled
  BY <1>1, <1>2
<1> QED BY <1>3 DEF Child, Enabled

\* The removal of jobs by enable and by apply.
LEMMA JobsGo ==
  ASSUME TasksOK, ClusterOK, NEW s \in Services, EnableNext(s) \/ CleanupImmutable(s)
  PROVE  RemovesJobs
<1>1. CASE EnableNext(s)
  <2>1. CASE objs' = objs
    BY <1>1, <2>1 DEF EnableNext, RemovesJobs, ClusterOK, helm
  <2>2. CASE objs' # objs
    <3> DEFINE c == Child(s)
               y == Removed(c.rel, {c.obj})
    <3>1. /\ objs' = [objs EXCEPT ![c.rel] = y] /\ c.purge
          /\ UNCHANGED <<rel, late, outlived>>
      BY <1>1, <2>2 DEF EnableNext, helm
    <3>2. c.rel \in Releases /\ {c.obj} \in SUBSET Jobs
      <4>1. step[s] <= Len(EnableList(s)) /\ want \in Versions
        BY <1>1 DEF EnableNext, TasksOK
      <4>2. c.rel = MainRelease[s] /\ (c.purge => c.obj \in Jobs)
        BY <4>1, OnlyJobs
      <4>3. MainRelease[s] \in Releases
        BY <4>1, Own
      <4> QED BY <3>1, <4>2, <4>3
    <3>3. y \in [Objects -> Object] /\ y["server"] = objs[c.rel]["server"]
      BY <3>2, RemovedObjects
    <3> HIDE DEF c, y
    <3> QED BY <3>1, <3>2, <3>3 DEF RemovesJobs, ClusterOK
  <2> QED BY <2>1, <2>2
<1>2. CASE CleanupImmutable(s)
  <2>1. PICK g \in [Releases -> SUBSET Jobs] :
          objs' = [r \in Releases |-> Removed(r, g[r])]
    <3> DEFINE known == {k \in DOMAIN Bundle[s][want] :
                           \A j \in 1..k : Bundle[s][want][j] \in Listed}
               gone(r) == {o \in Jobs : /\ \E k \in known : Bundle[s][want][k] = r
                                        /\ HashChanged(r) \/ ImageChanged(r, o)}
               g == [r \in Releases |-> gone(r)]
    <3>1. objs' = [r \in Releases |-> Removed(r, gone(r))]
      BY <1>2 DEF CleanupImmutable
    <3>2. g \in [Releases -> SUBSET Jobs]
      OBVIOUS
    <3>3. \A r \in Releases : g[r] = gone(r)
      OBVIOUS
    <3> HIDE DEF gone, g
    <3>4. objs' = [r \in Releases |-> Removed(r, g[r])]
      BY <3>1, <3>3
    <3> QED BY <3>2, <3>4
  <2>2. UNCHANGED <<rel, late, outlived>>
    BY <1>2 DEF CleanupImmutable, helm
  <2>3. \A r \in Releases : /\ Removed(r, g[r]) \in [Objects -> Object]
                            /\ Removed(r, g[r])["server"] = objs[r]["server"]
    BY RemovedObjects
  <2> QED BY <2>1, <2>2, <2>3 DEF RemovesJobs
<1> QED BY <1>1, <1>2

\* The end of a late process: it completes its own revision, or has outlived it.
LEMMA LateEffect ==
  ASSUME TasksOK, ClusterOK, NEW p \in late, LateFinishes(p)
  PROVE  \E x \in Records, y \in [Objects -> Object] :
           /\ p.rel \in Releases
           /\ rel' = [rel EXCEPT ![p.rel] = x] /\ objs' = [objs EXCEPT ![p.rel] = y]
           /\ late' \subseteq late /\ (~outlived' => ~outlived)
           /\ rel[p.rel].state # "late" => x = rel[p.rel]
           /\ Current(p.rel) => /\ x.values = All(want)
                                /\ IsBusy(x.state) => x.next = All(want)
                                /\ ~outlived' => ServerOK(y)
<1> DEFINE r == p.rel
           mine == rel[r].state = "late" /\ rel[r].next = p.values
           fails == ImmutableChange(r, p.values)
<1>1. r \in Releases /\ p.values \in Values
  BY DEF ClusterOK
<1>2. /\ rel[r] \in Records /\ objs[r] \in [Objects -> Object]
      /\ rel = [rel EXCEPT ![r] = rel[r]] /\ objs = [objs EXCEPT ![r] = objs[r]]
      /\ rel[r].values \in Values
  BY <1>1 DEF ClusterOK, Records
<1>3. Current(r) => /\ rel[r].values = All(want)
                    /\ IsBusy(rel[r].state) => rel[r].next = All(want)
                    /\ ~outlived => ServerOK(objs[r])
  BY DEF Current, Busy, IsBusy, ServerOK
<1>4. want > 0 /\ want \in Nat /\ All(want)["server"] = want
  BY ValuesOf DEF TasksOK
<1>5. /\ Patched(r, p.values) \in [Objects -> Object]
      /\ p.values = All(want) => ServerOK(Patched(r, p.values))
  BY <1>1, <1>4, PatchedObjects DEF ServerOK
<1>6. /\ late' \subseteq late /\ outlived' = (outlived \/ ~mine)
      /\ ~mine => rel' = rel
      /\ fails => objs' = objs
      /\ ~fails => objs' = [objs EXCEPT ![r] = Patched(r, p.values)]
  BY DEF LateFinishes
<1>7. mine /\ Current(r) => p.values = All(want)
  BY <1>3 DEF IsBusy
<1>8. PICK y \in [Objects -> Object] :
        /\ objs' = [objs EXCEPT ![r] = y]
        /\ mine /\ Current(r) /\ ~outlived => ServerOK(y)
  <2>1. CASE fails
    BY <1>2, <1>3, <1>6, <2>1
  <2>2. CASE ~fails
    BY <1>5, <1>6, <1>7, <2>2
  <2> QED BY <2>1, <2>2
<1>9. CASE mine
  <2> DEFINE x == IF p.values = Off THEN NoRelease ELSE Revision(rel[r], p.values)
  <2>1. rel' = [rel EXCEPT ![r] = x]
    BY <1>9 DEF LateFinishes
  <2>2. /\ x \in Records /\ ~IsBusy(x.state)
        /\ x.values = rel[r].values \/ x.values = p.values
    BY <1>1, <1>2, RevisionIs, ValuesOf DEF NoRelease, Records, IsBusy
  <2> HIDE DEF x, fails
  <2>3. ~IsBusy(x.state)
    BY <2>2
  <2>4. rel[r].state = "late"
    BY <1>9
  <2>5. Current(r) => x.values = All(want)
    BY <1>3, <1>7, <1>9, <2>2
  <2> HIDE DEF mine
  <2> QED BY <1>1, <1>6, <1>8, <1>9, <2>1, <2>2, <2>3, <2>4, <2>5
<1>10. CASE ~mine
  <2> HIDE DEF mine, fails
  <2> QED BY <1>1, <1>2, <1>3, <1>6, <1>8, <1>10
<1> QED BY <1>9, <1>10

\* Pods that start.
LEMMA StartEffect ==
  ASSUME ClusterOK, NEW r \in Releases, Starts(r)
  PROVE  \E y \in [Objects -> Object] :
           /\ objs' = [objs EXCEPT ![r] = y] /\ UNCHANGED <<rel, late, outlived>>
           /\ ServerOK(objs[r]) => ServerOK(y)
<1> DEFINE started == {o \in Objects : objs[r][o].state = "starting"}
           y == [o \in Objects |-> IF o \in started THEN [objs[r][o] EXCEPT !.state = "up"]
                                                   ELSE objs[r][o]]
<1>1. objs' = [objs EXCEPT ![r] = y] /\ UNCHANGED <<rel, late, outlived>>
  BY DEF Starts, helm, ClusterOK
<1>2. \A o \in Objects : /\ objs[r][o] \in Object /\ y[o] \in Object
                         /\ y[o].ver = objs[r][o].ver
                         /\ y[o].state \in {"up", objs[r][o].state}
  BY DEF ClusterOK, Object
<1>3. y \in [Objects -> Object]
  BY <1>2
<1> HIDE DEF y
<1>4. ServerOK(objs[r]) => ServerOK(y)
  BY <1>2, ValuesOf DEF ServerOK
<1> QED BY <1>1, <1>3, <1>4

\* Redis is stopped: only states of servers change.
LEMMA ApplyEffect ==
  ASSUME ClusterOK, NEW s \in Services, Apply(s)
  PROVE  /\ objs' \in [Releases -> [Objects -> Object]] /\ UNCHANGED <<rel, late, outlived>>
         /\ \A r \in Releases \ Active(s) : objs'[r] = objs[r]
<1>1. /\ UNCHANGED <<rel, late, outlived>>
      /\ objs' = [r \in Releases |-> IF r \in Stopped(s)
                                     THEN [objs[r] EXCEPT !["server"].state = "down"]
                                     ELSE objs[r]]
  BY DEF Apply, helm
<1>2. \A r \in Releases : /\ objs[r] \in [Objects -> Object]
                          /\ [objs[r] EXCEPT !["server"].state = "down"]
                               \in [Objects -> Object]
  <2> SUFFICES ASSUME NEW r \in Releases
               PROVE  /\ objs[r] \in [Objects -> Object]
                      /\ [objs[r] EXCEPT !["server"].state = "down"] \in [Objects -> Object]
    OBVIOUS
  <2>1. objs[r] \in [Objects -> Object] /\ objs[r]["server"] \in Object
    BY ValuesOf DEF ClusterOK
  <2>2. [objs[r]["server"] EXCEPT !.state = "down"] \in Object
    BY <2>1 DEF Object
  <2> QED BY <2>1, <2>2
<1>3. Stopped(s) \subseteq Active(s)
  BY DEF Stopped
<1> QED BY <1>1, <1>2, <1>3

\* The releases keep their types.
LEMMA ClusterStep ==
  ASSUME TasksOK, ClusterOK, CommandsOK, [Next]_vars
  PROVE  ClusterOK'
<1>1. CASE Still
  BY <1>1 DEF Still, ClusterOK
<1>2. CASE Crash
  <2>1. /\ objs' = objs /\ late' = {}
        /\ rel' = [r \in Releases |-> IF Busy(r) THEN [rel[r] EXCEPT !.state = "stuck"]
                                                ELSE rel[r]]
    BY <1>2 DEF Crash
  <2>2. \A r \in Releases : rel[r] \in Records /\ [rel[r] EXCEPT !.state = "stuck"] \in Records
    BY DEF ClusterOK, Records
  <2>3. rel' \in [Releases -> Records]
    BY <2>1, <2>2
  <2> QED BY <2>1, <2>3 DEF ClusterOK
<1>3. ASSUME NEW s \in Services, CommandStep(s)
      PROVE  ClusterOK'
  <2>1. Commanding(s) /\ Commands(s)
    BY <1>3, CommandEffect
  <2>2. cmd[s].rel \in Releases /\ cmd[s].values \in Values
    BY <2>1, Own DEF CommandsOK, CommandOK, TasksOK
  <2>3. PICK x \in Records, y \in [Objects -> Object] :
          /\ rel' = [rel EXCEPT ![cmd[s].rel] = x]
          /\ objs' = [objs EXCEPT ![cmd[s].rel] = y]
          /\ late' \subseteq late \cup {[rel |-> cmd[s].rel, values |-> cmd[s].values]}
    BY <2>1 DEF Commands
  <2>4. [rel |-> cmd[s].rel, values |-> cmd[s].values] \in [rel : Releases, values : Values]
    BY <2>2
  <2> QED BY <2>2, <2>3, <2>4 DEF ClusterOK
<1>4. ASSUME NEW s \in Services, Apply(s)
      PROVE  ClusterOK'
  BY <1>4, ApplyEffect DEF ClusterOK
<1>5. ASSUME NEW s \in Services, EnableNext(s) \/ CleanupImmutable(s)
      PROVE  ClusterOK'
  <2>1. RemovesJobs
    BY <1>5, JobsGo
  <2> QED BY <2>1 DEF RemovesJobs, ClusterOK
<1>6. ASSUME NEW r \in Releases, Starts(r)
      PROVE  ClusterOK'
  <2>1. PICK y \in [Objects -> Object] :
          objs' = [objs EXCEPT ![r] = y] /\ UNCHANGED <<rel, late, outlived>>
    BY <1>6, StartEffect
  <2> QED BY <2>1 DEF ClusterOK
<1>7. ASSUME NEW p \in late, LateFinishes(p)
      PROVE  ClusterOK'
  <2>1. PICK x \in Records, y \in [Objects -> Object] :
          /\ p.rel \in Releases /\ late' \subseteq late
          /\ rel' = [rel EXCEPT ![p.rel] = x] /\ objs' = [objs EXCEPT ![p.rel] = y]
    BY <1>7, LateEffect
  <2> QED BY <2>1 DEF ClusterOK
<1> QED BY <1>1, <1>2, <1>3, <1>4, <1>5, <1>6, <1>7, StepKinds
-----------------------------------------------------------------------------
(* Releases that no command is about *)

\* What a step may do to a release that its service has no command for: it
\* stays current, does not come back, and is not taken from its command.
Quiet(r) ==
  /\ Current(r) => Current(r)'
  /\ rel[r].state = "none" => rel'[r].state = "none"
  /\ rel[r].state = "pending" /\ ~Crash => rel'[r] = rel[r]

\* Current(r) in terms of the record and the objects of the release.
LEMMA CurrentIs ==
  ASSUME NEW r \in Releases
  PROVE  Current(r) <=> /\ rel[r].values = All(want)
                        /\ IsBusy(rel[r].state) => rel[r].next = All(want)
                        /\ ~outlived => ServerOK(objs[r])
BY DEF Current, Busy, IsBusy, ServerOK

\* The same after a step that does not change the deployment.
LEMMA CurrentNext ==
  ASSUME NEW r \in Releases, want' = want
  PROVE  Current(r)' <=> /\ rel'[r].values = All(want)
                         /\ IsBusy(rel'[r].state) => rel'[r].next = All(want)
                         /\ ~outlived' => ServerOK(objs'[r])
BY DEF Current, Busy, IsBusy, ServerOK, All

\* Whatever the other services do, and whatever else happens.
Elsewhere(s, r) ==
  \/ Still \/ Crash
  \/ CommandStep(s) /\ cmd[s].rel # r
  \/ \E t \in Services \ {s} : CommandStep(t) \/ Apply(t)
  \/ \E t \in Services : EnableNext(t) \/ CleanupImmutable(t)
  \/ \E q \in Releases : Starts(q)
  \/ \E p \in late : LateFinishes(p)

\* None of that disturbs a release of the service.
LEMMA QuietStep ==
  ASSUME TasksOK, ClusterOK, CommandsOK, want' = want,
         NEW s \in Services, NEW r \in Available[s], Elsewhere(s, r)
  PROVE  Quiet(r)
<1>1. r \in Releases /\ \A t \in Services : t # s => r \notin Available[t]
  BY Own DEF TasksOK
<1>2. CASE Still
  BY <1>1, <1>2 DEF Still, Quiet, Current, Busy, All
<1>3. CASE Crash
  <2>1. /\ UNCHANGED <<objs, outlived>>
        /\ rel'[r] = IF Busy(r) THEN [rel[r] EXCEPT !.state = "stuck"] ELSE rel[r]
    BY <1>1, <1>3 DEF Crash
  <2>2. rel[r] \in Records
    BY <1>1 DEF ClusterOK
  <2>3. CASE Busy(r)
    <3>1. /\ rel'[r].values = rel[r].values /\ rel'[r].next = rel[r].next
          /\ rel[r].state # "none" /\ IsBusy(rel[r].state)
      BY <2>1, <2>2, <2>3 DEF Records, Busy, IsBusy
    <3> QED BY <1>1, <1>3, <2>1, <3>1, CurrentIs, CurrentNext DEF Quiet
  <2>4. CASE ~Busy(r)
    BY <1>1, <1>3, <2>1, <2>4, CurrentIs, CurrentNext DEF Quiet
  <2> QED BY <2>3, <2>4
<1>4. ASSUME NEW t \in Services, CommandStep(t), t # s \/ cmd[t].rel # r
      PROVE  Quiet(r)
  <2>1. Commanding(t) /\ Commands(t)
    BY <1>4, CommandEffect
  <2>2. cmd[t].rel \in Releases /\ cmd[t].rel # r
    <3>1. cmd[t].rel \in Available[t]
      BY <2>1 DEF CommandsOK, CommandOK
    <3>2. Available[t] \subseteq Releases
      BY Own DEF TasksOK
    <3> QED BY <1>1, <1>4, <3>1, <3>2
  <2>3. rel'[r] = rel[r] /\ objs'[r] = objs[r] /\ outlived' = outlived
    BY <1>1, <2>1, <2>2 DEF Commands, ClusterOK
  <2> QED BY <1>1, <2>3, CurrentIs, CurrentNext DEF Quiet
<1>5. ASSUME NEW t \in Services \ {s}, Apply(t)
      PROVE  Quiet(r)
  <2>1. r \notin Active(t)
    BY <1>1, <1>5, Own DEF TasksOK
  <2>2. objs'[r] = objs[r] /\ UNCHANGED <<rel, outlived>>
    BY <1>1, <1>5, <2>1, ApplyEffect
  <2> QED BY <1>1, <2>2, CurrentIs, CurrentNext DEF Quiet
<1>6. ASSUME NEW t \in Services, EnableNext(t) \/ CleanupImmutable(t)
      PROVE  Quiet(r)
  <2>1. RemovesJobs
    BY <1>6, JobsGo
  <2>2. objs'[r]["server"] = objs[r]["server"] /\ UNCHANGED <<rel, outlived>>
    BY <1>1, <2>1 DEF RemovesJobs
  <2> QED BY <1>1, <2>2, CurrentIs, CurrentNext DEF Quiet, ServerOK
<1>7. ASSUME NEW q \in Releases, Starts(q)
      PROVE  Quiet(r)
  <2>1. PICK y \in [Objects -> Object] :
          /\ objs' = [objs EXCEPT ![q] = y] /\ UNCHANGED <<rel, late, outlived>>
          /\ ServerOK(objs[q]) => ServerOK(y)
    BY <1>7, StartEffect
  <2>2. ServerOK(objs[r]) => ServerOK(objs'[r])
    BY <1>1, <2>1 DEF ClusterOK
  <2> QED BY <1>1, <2>1, <2>2, CurrentIs, CurrentNext DEF Quiet
<1>8. ASSUME NEW p \in late, LateFinishes(p)
      PROVE  Quiet(r)
  <2>1. PICK x \in Records, y \in [Objects -> Object] :
           /\ p.rel \in Releases
           /\ rel' = [rel EXCEPT ![p.rel] = x] /\ objs' = [objs EXCEPT ![p.rel] = y]
           /\ late' \subseteq late /\ (~outlived' => ~outlived)
           /\ rel[p.rel].state # "late" => x = rel[p.rel]
           /\ Current(p.rel) => /\ x.values = All(want)
                                /\ IsBusy(x.state) => x.next = All(want)
                                /\ ~outlived' => ServerOK(y)
    BY <1>8, LateEffect
  <2>2. CASE p.rel = r
    <3>1. rel'[r] = x /\ objs'[r] = y
      BY <1>1, <2>1, <2>2 DEF ClusterOK
    <3> QED BY <1>1, <2>1, <2>2, <3>1, CurrentNext DEF Quiet
  <2>3. CASE p.rel # r
    <3>1. rel'[r] = rel[r] /\ objs'[r] = objs[r]
      BY <1>1, <2>1, <2>3 DEF ClusterOK
    <3> QED BY <1>1, <2>1, <3>1, CurrentIs, CurrentNext DEF Quiet
  <2> QED BY <2>2, <2>3
<1> QED BY <1>2, <1>3, <1>4, <1>5, <1>6, <1>7, <1>8 DEF Elsewhere

\* A command with the rendered values leaves a current release current.
LEMMA OwnCommand ==
  ASSUME TasksOK, ClusterOK, CommandsOK, want' = want, NEW s \in Services, CommandStep(s),
         NEW r \in Releases, r = cmd[s].rel, Current(r),
         cmd[s].op # "delete", cmd[s].values = All(want)
  PROVE  Current(r)'
<1>1. Commands(s)
  BY CommandEffect
<1>2. PICK x \in Records, y \in [Objects -> Object] :
        /\ rel' = [rel EXCEPT ![r] = x] /\ objs' = [objs EXCEPT ![r] = y]
        /\ outlived' = outlived /\ x.values = All(want)
        /\ IsBusy(x.state) => x.next = All(want)
        /\ ~outlived => ServerOK(y)
  BY <1>1 DEF Commands
<1>3. rel'[r] = x /\ objs'[r] = y
  BY <1>2 DEF ClusterOK
<1> QED BY <1>2, <1>3, CurrentNext
-----------------------------------------------------------------------------
(* Tasks *)

\* A step leaves the task of the service alone.
Rests(s) ==
  pc'[s] = pc[s] /\ cmd'[s] = cmd[s] /\ step'[s] = step[s] /\ status'[s] = status[s]

\* A step of a task is the task's own.
LEMMA TaskFrame ==
  ASSUME TasksOK, NEW s \in Services, Task(s) \/ TaskFault(s)
  PROVE  /\ UNCHANGED handler /\ TasksOK' /\ pc[s] # "off"
         /\ status'[s].ver \in {status[s].ver, 0, want}
         /\ \A t \in Services : t # s => Rests(t)
<1> USE DEF Goto, Failed
<1> DEFINE Goal == /\ UNCHANGED handler /\ TasksOK' /\ pc[s] # "off"
                   /\ status'[s].ver \in {status[s].ver, 0, want}
                   /\ \A t \in Services : t # s => Rests(t)
<1>0. want \in Nat
  BY ValuesOf DEF TasksOK
<1>1. CASE Acquire(s) \/ WaitHealthy(s) \/ EnableDone(s) \/ UpgradeDone(s) \/ HealthTimesOut(s)
  BY <1>1 DEF Acquire, WaitHealthy, EnableDone, UpgradeDone, HealthTimesOut, TasksOK, Rests,
              handler
<1>2. CASE Process(s) \/ Rollback(s) \/ Succeeds(s) \/ GuessAndDelete(s)
  BY <1>2 DEF Process, Rollback, Succeeds, GuessAndDelete, TasksOK, Rests, handler, task
<1>3. CASE CmdFails(s) \/ CmdTimesOut(s) \/ EnableTimesOut(s)
  BY <1>3 DEF CmdFails, CmdTimesOut, EnableTimesOut, Enabling, TasksOK, Rests, handler
<1>4. CASE EnableNext(s)
  <2>1. /\ UNCHANGED <<handler, cmd, status>> /\ pc[s] = "enable"
        /\ \/ step' = [step EXCEPT ![s] = @ + 1] /\ pc' = pc
           \/ step' = step /\ pc' = [pc EXCEPT ![s] = "get"]
    BY <1>4 DEF EnableNext
  <2> QED BY <2>1 DEF TasksOK, Rests, handler
<1>5. CASE Check(s)
  <2>1. /\ UNCHANGED <<handler, cmd, status>> /\ pc[s] = "check"
        /\ \/ step' = [step EXCEPT ![s] = @ + 1] /\ pc' = [pc EXCEPT ![s] = "enable"]
           \/ step' = step /\ pc' = [pc EXCEPT ![s] = "get"]
    BY <1>5 DEF Check
  <2> QED BY <2>1 DEF TasksOK, Rests, handler
<1>6. CASE GetValues(s)
  <2>1. /\ UNCHANGED <<handler, step, status>> /\ pc[s] = "get"
        /\ \/ cmd' = cmd /\ pc' = [pc EXCEPT ![s] = "failed"]
           \/ \E c : cmd' = [cmd EXCEPT ![s] = c] /\ pc' = [pc EXCEPT ![s] = "lock"]
    BY <1>6 DEF GetValues, RunCmd
  <2> QED BY <2>1 DEF TasksOK, Rests, handler
<1>7. CASE Install(s)
  <2>1. /\ UNCHANGED <<handler, status>> /\ pc[s] = "install"
        /\ \/ /\ \E c : cmd' = [cmd EXCEPT ![s] = c]
              /\ step' = [step EXCEPT ![s] = @ + 1] /\ pc' = [pc EXCEPT ![s] = "lock"]
           \/ UNCHANGED <<step, cmd>> /\ pc' = [pc EXCEPT ![s] = "prune"]
    BY <1>7 DEF Install, RunCmd
  <2> QED BY <2>1 DEF TasksOK, Rests, handler
<1>8. CASE Apply(s)
  <2>1. /\ UNCHANGED <<handler, step, cmd>> /\ pc[s] = "apply"
        /\ pc' = [pc EXCEPT ![s] = "cleanup"]
        /\ status' = [status EXCEPT ![s].state = "APPLYING"]
    BY <1>8 DEF Apply
  <2>2. /\ [status[s] EXCEPT !.state = "APPLYING"] \in Shown
        /\ [status[s] EXCEPT !.state = "APPLYING"].ver = status[s].ver
    BY DEF TasksOK, Shown
  <2> QED BY <2>1, <2>2 DEF TasksOK, Rests, handler
<1>9. CASE CleanupImmutable(s)
  BY <1>9 DEF CleanupImmutable, TasksOK, Rests, handler
<1>10. CASE Prune(s)
  <2>1. /\ UNCHANGED <<handler, step>> /\ pc[s] = "prune"
        /\ \/ /\ \E c : cmd' = [cmd EXCEPT ![s] = c]
              /\ UNCHANGED status /\ pc' = [pc EXCEPT ![s] = "lock"]
           \/ /\ status' = [status EXCEPT ![s] = [state |-> "APPLIED", ver |-> want]]
              /\ \E q : pc' = [pc EXCEPT ![s] = q]
              /\ UNCHANGED cmd
    BY <1>10 DEF Prune, HelmDelete, RunCmd
  <2>2. [state |-> "APPLIED", ver |-> want] \in Shown
    BY <1>0 DEF Shown
  <2> QED BY <2>1, <2>2 DEF TasksOK, Rests, handler
<1>11. CASE Delete(s)
  <2>1. /\ UNCHANGED <<handler, step>> /\ pc[s] = "delete"
        /\ \/ /\ \E c : cmd' = [cmd EXCEPT ![s] = c]
              /\ status' = [status EXCEPT ![s].state = "DELETING"]
              /\ pc' = [pc EXCEPT ![s] = "lock"]
           \/ /\ status' = [status EXCEPT ![s] = [state |-> "none", ver |-> 0]]
              /\ pc' = [pc EXCEPT ![s] = "ended"]
              /\ UNCHANGED cmd
    BY <1>11 DEF Delete, HelmDelete, RunCmd
  <2>2. /\ [state |-> "none", ver |-> 0] \in Shown
        /\ [status[s] EXCEPT !.state = "DELETING"] \in Shown
        /\ [status[s] EXCEPT !.state = "DELETING"].ver = status[s].ver
    BY DEF TasksOK, Shown
  <2>3. \E st \in Shown : /\ status' = [status EXCEPT ![s] = st]
                          /\ st.ver \in {status[s].ver, 0}
    BY <2>1, <2>2
  <2>4. \E q : pc' = [pc EXCEPT ![s] = q]
    BY <2>1
  <2>5. UNCHANGED cmd \/ \E c : cmd' = [cmd EXCEPT ![s] = c]
    BY <2>1
  <2>6. UNCHANGED <<handler, step>> /\ pc[s] = "delete"
    BY <2>1
  <2> QED BY <2>3, <2>4, <2>5, <2>6 DEF TasksOK, Rests, handler
<1> QED BY <1>1, <1>2, <1>3, <1>4, <1>5, <1>6, <1>7, <1>8, <1>9, <1>10, <1>11
        DEF Task, TaskFault

\* A task that rests while no command of its service is at work keeps what it
\* has reached.
LEMMA RestingTask ==
  ASSUME TasksOK, ClusterOK, CommandsOK, want' = want, NEW s \in Services, Rests(s), ~Crash,
         Progress(s), Applied(s), \A r \in Available[s] : Elsewhere(s, r)
  PROVE  CommandOK(s)' /\ Progress(s)' /\ Applied(s)'
<1>1. \A r \in Available[s] : Quiet(r)
  BY QuietStep
<1>2. /\ Active(s) \subseteq Available[s] /\ Active(s)' = Active(s)
      /\ \A k \in DOMAIN Bundle[s][want] : Bundle[s][want][k] \in Available[s]
  BY Own DEF TasksOK, Active
<1>3. CommandOK(s)
  BY DEF CommandsOK
<1>4. CommandOK(s)'
  <2>1. pc[s] = "run" => rel'[cmd[s].rel] = rel[cmd[s].rel]
    BY <1>1, <1>3 DEF CommandOK, Commanding, Quiet
  <2> QED BY <1>2, <1>3, <2>1 DEF CommandOK, Rests, Commanding, Runs, All, Off, Wanted
<1>5. \A r \in Available[s] : Current(r) => Current(r)'
  BY <1>1 DEF Quiet
<1>6. Progress(s)'
  BY <1>2, <1>5 DEF Progress, Rests, Commanding, Runs, Wanted
<1>7. Applied(s)'
  <2>1. ShownApplied(s)' = ShownApplied(s)
    BY DEF ShownApplied, Rests
  <2>2. \A r \in Available[s] : rel[r].state = "none" => rel'[r].state = "none"
    BY <1>1 DEF Quiet
  <2> QED BY <1>2, <1>5, <2>1, <2>2 DEF Applied, Rests, Commanding, All
<1> QED BY <1>4, <1>6, <1>7

\* The handler starts and ends tasks; so does the end of the controller.
Restarts(s) ==
  /\ want' = want
  /\ status'[s] = status[s] \/ status'[s].state = "APPLYING"
  /\ status'[s].ver = status[s].ver
  /\ pc'[s] \in {"off", "healthy", "enable", "delete", "ended"}
  /\ pc'[s] = "delete" => ~Wanted(s)

\* Every task is at its start then, or has ended.
LEMMA TasksRestart ==
  ASSUME TasksOK, Handler \/ Crash, NEW s \in Services
  PROVE  Restarts(s)
<1>1. CASE Crash
  BY <1>1 DEF Crash, Restarts
<1>2. ASSUME NEW p, NEW k, StartPhase(p, k)
      PROVE  Restarts(s)
  <2>1. want' = want /\ pc'[s] \in {"off", First(s, p)}
    BY <1>2 DEF StartPhase
  <2>2. status'[s] \in {status[s], [status[s] EXCEPT !.state = "APPLYING"]}
    BY <1>2 DEF StartPhase
  <2>3. /\ [status[s] EXCEPT !.state = "APPLYING"].state = "APPLYING"
        /\ [status[s] EXCEPT !.state = "APPLYING"].ver = status[s].ver
    BY DEF TasksOK, Shown
  <2> QED BY <2>1, <2>2, <2>3 DEF Restarts, First
<1>3. CASE StartHandler \/ NextPhase
  BY <1>2, <1>3 DEF StartHandler, NextPhase
<1>4. CASE RetryRound
  BY <1>4 DEF RetryRound, Restarts, handler, First, Ended
<1>5. CASE HandlerDone
  BY <1>5 DEF HandlerDone, Restarts
<1> QED BY <1>1, <1>3, <1>4, <1>5 DEF Handler

\* What was reached by a task whose service is shown as applied stays.
LEMMA HandlerStep ==
  ASSUME TasksOK, ClusterOK, CommandsOK, Handler \/ Crash, NEW s \in Services, Applied(s)
  PROVE  CommandOK(s)' /\ Progress(s)' /\ Applied(s)'
<1>1. Restarts(s)
  BY TasksRestart
<1>2. \A r \in Available[s] : Elsewhere(s, r)
  BY DEF Elsewhere, Handler, StartHandler, StartPhase, RetryRound, NextPhase, HandlerDone,
         Still, helm, cluster
<1>3. \A r \in Available[s] : Quiet(r)
  BY <1>1, <1>2, QuietStep DEF Restarts
<1>4. Active(s) \subseteq Available[s] /\ Active(s)' = Active(s) /\ Wanted(s)' = Wanted(s)
  BY <1>1, Own DEF TasksOK, Active, Wanted, Restarts
<1>5. ~Commanding(s)' /\ pc'[s] \notin {"cleanup", "install", "prune", "run"}
  BY <1>1 DEF Restarts, Commanding
<1>6. CommandOK(s)' /\ Progress(s)'
  BY <1>1, <1>4, <1>5 DEF CommandOK, Progress, Restarts, Runs
<1>7. ShownApplied(s)' => ShownApplied(s)
  BY <1>1 DEF ShownApplied, Restarts
<1>8. Applied(s)'
  BY <1>3, <1>4, <1>5, <1>7 DEF Applied, Quiet
<1> QED BY <1>6, <1>8
-----------------------------------------------------------------------------
(* The steps of a task of s: what they do to its own service *)

StepOK(s) == CommandOK(s)' /\ Progress(s)' /\ Applied(s)'

\* What is shown as applied stays installed.
Keeps(s) ==
  ShownApplied(s) => /\ \A r \in Active(s) : Current(r)'
                     /\ \A r \in Available[s] \ Active(s) : rel'[r].state = "none"

\* Steps without a command keep it, and so do commands: they set the values
\* that are set already.
LEMMA ServiceKept ==
  ASSUME TasksOK, ClusterOK, CommandsOK, want' = want, NEW s \in Services, Applied(s),
         CommandStep(s) \/ \A r \in Available[s] : Elsewhere(s, r)
  PROVE  Keeps(s)
<1>1. Active(s) \subseteq Available[s] /\ Available[s] \subseteq Releases
  BY Own DEF TasksOK
<1>2. CASE \A r \in Available[s] : Elsewhere(s, r)
  <2>1. \A r \in Available[s] : Quiet(r)
    BY <1>2, QuietStep
  <2> QED BY <1>1, <2>1 DEF Keeps, Applied, Quiet
<1>3. CASE CommandStep(s)
  <2> SUFFICES ASSUME ShownApplied(s)
               PROVE  /\ \A r \in Active(s) : Current(r)'
                      /\ \A r \in Available[s] \ Active(s) : rel'[r].state = "none"
    BY DEF Keeps
  <2>1. Commanding(s)
    BY <1>3, CommandEffect
  <2>2. /\ cmd[s].op # "delete" /\ cmd[s].rel \in Active(s) /\ cmd[s].values = All(want)
        /\ \A r \in Active(s) : Current(r)
        /\ \A r \in Available[s] \ Active(s) : rel[r].state = "none"
    BY <2>1 DEF Applied
  <2>3. \A r \in Available[s] : r # cmd[s].rel => Quiet(r)
    <3>1. \A r \in Available[s] : r # cmd[s].rel => Elsewhere(s, r)
      BY <1>3 DEF Elsewhere
    <3> QED BY <3>1, QuietStep
  <2>4. ASSUME NEW r \in Active(s)
        PROVE  Current(r)'
    <3>1. CASE r = cmd[s].rel
      BY <1>1, <1>3, <2>2, <3>1, OwnCommand
    <3>2. CASE r # cmd[s].rel
      BY <1>1, <2>2, <2>3, <3>2 DEF Quiet
    <3> QED BY <3>1, <3>2
  <2>5. ASSUME NEW r \in Available[s] \ Active(s)
        PROVE  rel'[r].state = "none"
    BY <2>2, <2>3 DEF Quiet
  <2> QED BY <2>4, <2>5
<1> QED BY <1>2, <1>3

\* Steps after which the task has neither a command nor a release to go on with.
LEMMA PlainStep ==
  ASSUME TasksOK, want' = want, NEW s \in Services, Keeps(s),
         ShownApplied(s)' => ShownApplied(s),
         pc'[s] \notin {"cleanup", "install", "prune", "lock", "start", "run"},
         pc'[s] = "delete" => ~Wanted(s)
  PROVE  StepOK(s)
<1>1. ~Commanding(s)' /\ Active(s)' = Active(s) /\ Wanted(s)' = Wanted(s)
  BY DEF Commanding, Active, Wanted
<1>2. CommandOK(s)' /\ Progress(s)'
  BY <1>1 DEF CommandOK, Progress, Runs
<1>3. Applied(s)'
  BY <1>1 DEF Applied, Keeps
<1> QED BY <1>2, <1>3 DEF StepOK

\* Steps of a command after which it goes on.
LEMMA CommandGoesOn ==
  ASSUME TasksOK, ClusterOK, CommandsOK, NEW s \in Services, Progress(s), Applied(s),
         Process(s) \/ Rollback(s) \/ GuessAndDelete(s) \/ CmdTimesOut(s)
  PROVE  StepOK(s)
<1>1. /\ want' = want /\ Commanding(s) /\ Commanding(s)' /\ CommandStep(s)
      /\ cmd' = cmd /\ step' = step /\ status' = status
      /\ pc'[s] = "run" => Process(s)
  BY DEF Process, Rollback, GuessAndDelete, CmdTimesOut, Commanding, CommandStep, Goto,
         handler, task, TasksOK
<1>2. /\ Active(s) \subseteq Available[s] /\ Active(s)' = Active(s) /\ Wanted(s)' = Wanted(s)
      /\ \A k \in DOMAIN Bundle[s][want] : Bundle[s][want][k] \in Available[s]
      /\ Available[s] \subseteq Releases
  BY <1>1, Own DEF TasksOK, Active, Wanted
<1>3. CommandOK(s) /\ cmd[s].rel \in Releases
  BY <1>1, <1>2 DEF CommandsOK, CommandOK
<1>4. pc'[s] = "run" => rel'[cmd[s].rel].state = "pending" /\ rel'[cmd[s].rel].next = cmd[s].values
  BY <1>1, <1>3 DEF Process, ClusterOK, Records
<1>5. CommandOK(s)'
  <2>1. pc'[s] # "delete"
    BY <1>1 DEF Commanding
  <2> QED BY <1>1, <1>2, <1>3, <1>4, <2>1 DEF CommandOK, Runs, All, Off
<1>6. \A r \in Available[s] : r # cmd[s].rel => Quiet(r)
  <2>1. \A r \in Available[s] : r # cmd[s].rel => Elsewhere(s, r)
    BY <1>1 DEF Elsewhere
  <2> QED BY <1>1, <2>1, QuietStep
<1>7. ASSUME NEW r \in Available[s], Current(r), cmd[s].rel = r => Runs(s, "install")
      PROVE  Current(r)'
  <2>1. CASE r = cmd[s].rel
    <3>1. cmd[s].op = "install" /\ cmd[s].values = All(want)
      BY <1>3, <1>7, <2>1 DEF CommandOK, Runs
    <3> QED BY <1>1, <1>2, <1>7, <2>1, <3>1, OwnCommand
  <2>2. CASE r # cmd[s].rel
    BY <1>6, <1>7, <2>2 DEF Quiet
  <2> QED BY <2>1, <2>2
<1>8. Progress(s)'
  <2>1. pc'[s] # "install" /\ pc'[s] # "prune"
    BY <1>1 DEF Commanding
  <2>2. Runs(s, "install")' => \A k \in DOMAIN Bundle[s][want] :
          k < step[s] - 1 => Current(Bundle[s][want][k])'
    BY <1>1, <1>2, <1>7 DEF Progress, Runs
  <2>3. Runs(s, "delete")' /\ Wanted(s) => \A r \in Active(s) : Current(r)'
    BY <1>1, <1>2, <1>3, <1>7 DEF Progress, Runs, CommandOK
  <2> QED BY <1>1, <1>2, <2>1, <2>2, <2>3 DEF Progress
<1>9. Applied(s)'
  <2>1. Keeps(s)
    BY <1>1, ServiceKept
  <2>2. ShownApplied(s)' = ShownApplied(s)
    BY <1>1 DEF ShownApplied
  <2> QED BY <1>1, <1>2, <2>1, <2>2 DEF Applied, Keeps, Commanding, All
<1> QED BY <1>5, <1>8, <1>9 DEF StepOK

\* The end of a command: a release that was installed is current.
LEMMA CommandSucceeds ==
  ASSUME TasksOK, ClusterOK, CommandsOK, NEW s \in Services, Progress(s), Applied(s),
         Succeeds(s)
  PROVE  StepOK(s)
<1>1. /\ want' = want /\ Commanding(s) /\ CommandStep(s) /\ pc[s] = "run"
      /\ cmd' = cmd /\ step' = step /\ status' = status /\ pc'[s] = Return(s)
  BY DEF Succeeds, Commanding, CommandStep, Goto, handler, TasksOK
<1>2. /\ Active(s) \subseteq Available[s] /\ Active(s)' = Active(s) /\ Wanted(s)' = Wanted(s)
      /\ DOMAIN Bundle[s][want] = 1..Len(Bundle[s][want]) /\ Len(Bundle[s][want]) \in Nat
      /\ \A k \in DOMAIN Bundle[s][want] : Bundle[s][want][k] \in Available[s]
      /\ Available[s] \subseteq Releases
  BY <1>1, Own DEF TasksOK, Active, Wanted
<1>3. /\ CommandOK(s) /\ cmd[s].rel \in Releases /\ cmd[s].values \in Values
      /\ cmd[s].op \in {"set", "install", "delete"}
  BY <1>1, <1>2 DEF CommandsOK, CommandOK
<1>4. \A r \in Available[s] : r # cmd[s].rel => Quiet(r)
  <2>1. \A r \in Available[s] : r # cmd[s].rel => Elsewhere(s, r)
    BY <1>1 DEF Elsewhere
  <2> QED BY <1>1, <2>1, QuietStep
<1>5. Keeps(s)
  BY <1>1, ServiceKept
<1>6. ShownApplied(s)' = ShownApplied(s) /\ (ShownApplied(s) => cmd[s].op = "set")
  BY <1>1 DEF ShownApplied, Applied
<1>7. CASE cmd[s].op = "set"
  <2>1. pc'[s] = "check"
    BY <1>1, <1>7 DEF Return
  <2> QED BY <1>1, <1>5, <1>6, <2>1, PlainStep
<1>8. CASE cmd[s].op = "install"
  <2>1. pc'[s] = "install" /\ Runs(s, "install")
    BY <1>1, <1>8 DEF Return, Runs
  <2>2. /\ step[s] - 1 \in DOMAIN Bundle[s][want] /\ cmd[s].values = All(want)
        /\ cmd[s].rel = Bundle[s][want][step[s] - 1]
    BY <1>3, <2>1 DEF CommandOK
  <2>3. Current(Bundle[s][want][step[s] - 1])'
    <3> DEFINE r == cmd[s].rel
    <3>1. /\ rel'[r] = [state |-> "deployed", values |-> All(want), next |-> Off]
          /\ objs'[r] = Patched(r, All(want)) /\ outlived' = outlived
      BY <1>3, <1>8, <2>2 DEF Succeeds, ClusterOK
    <3>2. /\ want > 0 /\ want \in Nat /\ All(want)["server"] = want /\ All(want) \in Values
      BY ValuesOf DEF TasksOK
    <3>3. ServerOK(Patched(r, All(want)))
      BY <1>3, <3>2, PatchedObjects DEF ServerOK
    <3>4. Current(r)'
      <4>1. \A q \in Releases : Current(q)' <=>
              /\ rel'[q].values = All(want)
              /\ IsBusy(rel'[q].state) => rel'[q].next = All(want)
              /\ ~outlived' => ServerOK(objs'[q])
        BY <1>1, CurrentNext
      <4>2. /\ rel'[r].values = All(want) /\ ~IsBusy(rel'[r].state)
            /\ ServerOK(objs'[r])
        BY <3>1, <3>3 DEF IsBusy
      <4> HIDE DEF r
      <4>3. r \in Releases
        BY <1>3 DEF r
      <4>4. r' = r
        BY <1>1 DEF r
      <4> QED BY <4>1, <4>2, <4>3, <4>4
    <3> QED BY <1>1, <2>2, <3>4
  <2>4. \A k \in DOMAIN Bundle[s][want] : k < step[s] => Current(Bundle[s][want][k])'
    <3> SUFFICES ASSUME NEW k \in DOMAIN Bundle[s][want], k < step[s]
                 PROVE  Current(Bundle[s][want][k])'
      BY <1>1
    <3>1. CASE k = step[s] - 1
      BY <1>1, <2>3, <3>1
    <3>2. CASE k # step[s] - 1 /\ Bundle[s][want][k] = cmd[s].rel
      BY <1>1, <2>2, <2>3, <3>2
    <3>3. CASE k # step[s] - 1 /\ Bundle[s][want][k] # cmd[s].rel
      <4>1. k < step[s] - 1
        BY <1>2, <3>3 DEF TasksOK
      <4>2. Current(Bundle[s][want][k])
        BY <2>1, <4>1 DEF Progress
      <4> QED BY <1>1, <1>2, <1>4, <3>3, <4>2 DEF Quiet
    <3> QED BY <3>1, <3>2, <3>3
  <2>5. ~Commanding(s)'
    BY <2>1 DEF Commanding
  <2> QED BY <1>1, <1>6, <1>8, <2>1, <2>4, <2>5 DEF StepOK, CommandOK, Progress, Applied, Runs
<1>9. CASE cmd[s].op = "delete" /\ Wanted(s)
  <2>1. pc'[s] = "prune" /\ Runs(s, "delete")
    BY <1>1, <1>9 DEF Return, Runs
  <2>2. cmd[s].rel \notin Active(s) /\ \A r \in Active(s) : Current(r)
    BY <1>3, <1>9, <2>1 DEF CommandOK, Progress
  <2>3. \A r \in Active(s) : Current(r)'
    BY <1>2, <1>4, <2>2 DEF Quiet
  <2>4. ~Commanding(s)'
    BY <2>1 DEF Commanding
  <2> QED BY <1>2, <1>6, <1>9, <2>1, <2>3, <2>4 DEF StepOK, CommandOK, Progress, Applied, Runs
<1>10. CASE cmd[s].op = "delete" /\ ~Wanted(s)
  <2>1. pc'[s] = "delete"
    BY <1>1, <1>10 DEF Return
  <2> QED BY <1>1, <1>5, <1>6, <1>10, <2>1, PlainStep
<1> QED BY <1>3, <1>7, <1>8, <1>9, <1>10

\* Steps of a task without a release to install or delete.
LEMMA SimpleSteps ==
  ASSUME TasksOK, ClusterOK, CommandsOK, NEW s \in Services, Progress(s), Applied(s),
         \/ WaitHealthy(s) \/ EnableNext(s) \/ EnableDone(s) \/ Check(s) \/ UpgradeDone(s)
         \/ HealthTimesOut(s) \/ EnableTimesOut(s) \/ CmdFails(s)
         \/ GetValues(s) /\ pc'[s] = "failed"
  PROVE  StepOK(s)
<1>1. CommandStep(s) \/ \A r \in Available[s] : Elsewhere(s, r)
  <2>1. Still \/ CommandStep(s) \/ EnableNext(s)
    BY DEF WaitHealthy, EnableDone, Check, UpgradeDone, HealthTimesOut, EnableTimesOut,
           GetValues, CommandStep, Still, helm, cluster
  <2> QED BY <2>1 DEF Elsewhere
<1>2. want' = want /\ status' = status
  BY DEF WaitHealthy, EnableNext, EnableDone, Check, UpgradeDone, HealthTimesOut,
         EnableTimesOut, CmdFails, GetValues, handler
<1>3. pc'[s] \in {"enable", "get", "apply", "ended", "failed"}
  <2>1. CASE EnableNext(s) \/ Check(s)
    <3>1. \/ pc' = pc /\ pc[s] = "enable"
          \/ \E q \in {"enable", "get"} : pc' = [pc EXCEPT ![s] = q]
      BY <2>1 DEF EnableNext, Check, Goto
    <3> QED BY <3>1 DEF TasksOK
  <2>2. CASE ~(EnableNext(s) \/ Check(s))
    BY <2>2 DEF WaitHealthy, EnableDone, UpgradeDone, HealthTimesOut, EnableTimesOut, CmdFails,
                Failed, Goto, TasksOK
  <2> QED BY <2>1, <2>2
<1>4. Keeps(s)
  BY <1>1, <1>2, ServiceKept
<1>5. ShownApplied(s)' => ShownApplied(s)
  BY <1>2 DEF ShownApplied
<1> QED BY <1>2, <1>3, <1>4, <1>5, PlainStep

\* enable reads the values that are there and sets a version in them.
LEMMA ValuesRead ==
  ASSUME TasksOK, ClusterOK, CommandsOK, NEW s \in Services, Progress(s), Applied(s),
         GetValues(s), pc'[s] # "failed"
  PROVE  StepOK(s)
<1> DEFINE c == Child(s)
           r == MainRelease[s]
           v == [Latest(r) EXCEPT ![c.obj] = want]
<1>1. /\ want' = want /\ step' = step /\ status' = status /\ Still
      /\ cmd'[s] = [op |-> "set", rel |-> r, values |-> v] /\ pc'[s] = "lock"
      /\ rel[r].state # "none"
  <2>1. c.rel = r
    BY DEF Child
  <2>2. want' = want /\ step' = step /\ status' = status /\ Still
    BY DEF GetValues, Still, handler, helm, cluster
  <2>3. rel[r].state # "none" /\ RunCmd(s, [op |-> "set", rel |-> r, values |-> v])
    <3> HIDE DEF r, c
    <3>1. rel[c.rel].state = "none" => pc'[s] = "failed"
      BY DEF GetValues, Failed, Goto, TasksOK, c
    <3>2. rel[c.rel].state # "none" =>
            RunCmd(s, [op |-> "set", rel |-> c.rel,
                       values |-> [Latest(c.rel) EXCEPT ![c.obj] = want]])
      BY DEF GetValues, c
    <3> QED BY <2>1, <3>1, <3>2
  <2> HIDE DEF v, r
  <2> QED BY <2>2, <2>3 DEF RunCmd, Goto, TasksOK
<1>2. /\ r \in Available[s] /\ r \in Releases /\ want \in Nat
      /\ Active(s)' = Active(s)
  BY <1>1, Own, ValuesOf DEF TasksOK, Active
<1>3. Latest(r) \in Values
  BY <1>2 DEF ClusterOK, Records, Latest
<1>4. v \in Values
  BY <1>2, <1>3 DEF Values
<1>5. ShownApplied(s) => r \in Active(s) /\ v = All(want)
  <2> SUFFICES ASSUME ShownApplied(s)
               PROVE  r \in Active(s) /\ v = All(want)
    OBVIOUS
  <2>1. r \in Active(s)
    BY <1>1, <1>2 DEF Applied
  <2>2. Latest(r) = All(want)
    BY <2>1 DEF Applied, Current, Latest
  <2> HIDE DEF r, c
  <2>3. v = All(want)
    BY <2>2 DEF All
  <2> QED BY <2>1, <2>3
<1> HIDE DEF r, v
<1>6. /\ Commanding(s)' /\ ~Runs(s, "install")' /\ ~Runs(s, "delete")'
      /\ cmd'[s].op = "set" /\ cmd'[s].rel = r /\ cmd'[s].values = v
  BY <1>1 DEF Commanding, Runs
<1>7. CommandOK(s)'
  BY <1>1, <1>2, <1>4, <1>6 DEF CommandOK
<1>8. Progress(s)'
  BY <1>1, <1>6 DEF Progress
<1>9. Applied(s)'
  <2>1. Keeps(s)
    BY <1>1, ServiceKept DEF Elsewhere
  <2>2. ShownApplied(s)' = ShownApplied(s) /\ All(want)' = All(want)
    BY <1>1 DEF ShownApplied, All
  <2> QED BY <1>1, <1>2, <1>5, <1>6, <2>1, <2>2 DEF Applied, Keeps
<1> QED BY <1>7, <1>8, <1>9 DEF StepOK

\* A command waits for the lock and gets it.
LEMMA LockTaken ==
  ASSUME TasksOK, ClusterOK, CommandsOK, NEW s \in Services, Progress(s), Applied(s),
         Acquire(s)
  PROVE  StepOK(s)
<1>1. /\ want' = want /\ cmd' = cmd /\ step' = step /\ status' = status /\ Still
      /\ pc[s] = "lock" /\ pc'[s] = "start" /\ Commanding(s) /\ Commanding(s)'
  BY DEF Acquire, Goto, Still, handler, cluster, TasksOK, Commanding
<1>2. /\ Active(s) \subseteq Available[s] /\ Active(s)' = Active(s) /\ Wanted(s)' = Wanted(s)
      /\ \A k \in DOMAIN Bundle[s][want] : Bundle[s][want][k] \in Available[s]
  BY <1>1, Own DEF TasksOK, Active, Wanted
<1>3. \A r \in Available[s] : Quiet(r)
  BY <1>1, QuietStep DEF Elsewhere
<1>4. \A r \in Available[s] : Current(r) => Current(r)'
  BY <1>3 DEF Quiet
<1>5. CommandOK(s)'
  BY <1>1, <1>2 DEF CommandsOK, CommandOK, Runs, All, Off
<1>6. Progress(s)'
  BY <1>1, <1>2, <1>4 DEF Progress, Runs
<1>7. Applied(s)'
  <2>1. Keeps(s)
    BY <1>1, ServiceKept DEF Elsewhere
  <2>2. ShownApplied(s)' = ShownApplied(s)
    BY <1>1 DEF ShownApplied
  <2> QED BY <1>1, <1>2, <2>1, <2>2 DEF Applied, Keeps, All
<1> QED BY <1>5, <1>6, <1>7 DEF StepOK

\* The service is shown as being applied; its releases are installed from the
\* first.
LEMMA InstallBegins ==
  ASSUME TasksOK, ClusterOK, CommandsOK, NEW s \in Services, Applied(s),
         Apply(s) \/ CleanupImmutable(s)
  PROVE  StepOK(s)
<1>1. CASE Apply(s)
  <2>1. want' = want /\ pc'[s] = "cleanup" /\ status'[s].state = "APPLYING"
    BY <1>1 DEF Apply, Goto, handler, TasksOK, Shown
  <2>2. ~Commanding(s)' /\ ~ShownApplied(s)'
    BY <2>1 DEF Commanding, ShownApplied
  <2> QED BY <2>1, <2>2 DEF StepOK, CommandOK, Progress, Applied, Runs
<1>2. CASE CleanupImmutable(s)
  <2>1. /\ want' = want /\ pc[s] = "cleanup" /\ pc'[s] = "install" /\ status' = status
        /\ step'[s] = 1
    BY <1>2 DEF CleanupImmutable, Goto, handler, TasksOK
  <2>2. ~Commanding(s)' /\ ~ShownApplied(s)'
    BY <2>1 DEF Commanding, ShownApplied, Applied
  <2>3. \A k \in DOMAIN Bundle[s][want] : ~(k < 1)
    <3>1. DOMAIN Bundle[s][want] = 1..Len(Bundle[s][want]) /\ Len(Bundle[s][want]) \in Nat
      BY Own DEF TasksOK
    <3> QED BY <3>1
  <2> QED BY <2>1, <2>2, <2>3 DEF StepOK, CommandOK, Progress, Applied, Runs
<1> QED BY <1>1, <1>2

\* The next release, or the end of the releases: then all are current.
LEMMA InstallGoesOn ==
  ASSUME TasksOK, ClusterOK, CommandsOK, NEW s \in Services, Progress(s), Applied(s),
         Install(s)
  PROVE  StepOK(s)
<1>1. want' = want /\ status' = status /\ Still /\ pc[s] = "install"
  BY DEF Install, Still, handler, helm, cluster
<1>2. /\ Active(s) \subseteq Available[s] /\ Active(s)' = Active(s)
      /\ DOMAIN Bundle[s][want] = 1..Len(Bundle[s][want]) /\ Len(Bundle[s][want]) \in Nat
      /\ \A k \in DOMAIN Bundle[s][want] : Bundle[s][want][k] \in Available[s]
      /\ step[s] \in Nat \ {0} /\ All(want) \in Values
  BY <1>1, Own, ValuesOf DEF TasksOK, Active
<1>3. \A k \in DOMAIN Bundle[s][want] : k < step[s] => Current(Bundle[s][want][k])'
  <2>1. \A r \in Available[s] : Quiet(r)
    BY <1>1, QuietStep DEF Elsewhere
  <2> QED BY <1>1, <1>2, <2>1 DEF Progress, Quiet
<1>4. ~ShownApplied(s)'
  BY <1>1 DEF ShownApplied, Applied
<1>5. CASE step[s] <= Len(Bundle[s][want])
  <2>1. /\ cmd'[s] = [op |-> "install", rel |-> Bundle[s][want][step[s]], values |-> All(want)]
        /\ pc'[s] = "lock" /\ step'[s] = step[s] + 1
    BY <1>5 DEF Install, RunCmd, Goto, TasksOK
  <2>2. /\ Commanding(s)' /\ Runs(s, "install")' /\ ~Runs(s, "delete")'
        /\ step'[s] - 1 = step[s] /\ step[s] \in DOMAIN Bundle[s][want]
        /\ cmd'[s].op = "install" /\ cmd'[s].rel = Bundle[s][want][step[s]]
        /\ cmd'[s].values = All(want)
    BY <1>2, <1>5, <2>1 DEF Commanding, Runs
  <2>3. CommandOK(s)'
    BY <1>1, <1>2, <2>1, <2>2 DEF CommandOK, All
  <2>4. Progress(s)'
    BY <1>1, <1>3, <2>1, <2>2 DEF Progress
  <2> QED BY <1>4, <2>3, <2>4 DEF StepOK, Applied
<1>6. CASE ~(step[s] <= Len(Bundle[s][want]))
  <2>1. pc'[s] = "prune" /\ ~Commanding(s)'
    BY <1>6 DEF Install, Goto, TasksOK, Commanding
  <2>2. \A k \in DOMAIN Bundle[s][want] : k < step[s]
    BY <1>2, <1>6
  <2>3. \A r \in Active(s) : Current(r)'
    <3> SUFFICES ASSUME NEW r \in Active(s)
                 PROVE  Current(r)'
      OBVIOUS
    <3>1. PICK k \in DOMAIN Bundle[s][want] : r = Bundle[s][want][k]
      BY DEF Active
    <3> QED BY <1>1, <1>3, <2>2, <3>1
  <2> QED BY <1>2, <1>4, <2>1, <2>3 DEF StepOK, CommandOK, Progress, Applied, Runs
<1> QED BY <1>5, <1>6

\* Releases that are not active any more are deleted; without any, the service
\* is shown as applied.
LEMMA PruneGoesOn ==
  ASSUME TasksOK, ClusterOK, CommandsOK, NEW s \in Services, Progress(s), Applied(s),
         Prune(s)
  PROVE  StepOK(s)
<1>1. want' = want /\ Still /\ pc[s] = "prune"
  BY DEF Prune, Still, handler, helm, cluster
<1>2. /\ Active(s) \subseteq Available[s] /\ Active(s)' = Active(s) /\ Wanted(s)' = Wanted(s)
      /\ Off \in Values
  BY <1>1, Own, ValuesOf DEF TasksOK, Active, Wanted
<1>3. \A r \in Active(s) : Current(r)'
  <2>1. \A r \in Available[s] : Quiet(r)
    BY <1>1, QuietStep DEF Elsewhere
  <2> QED BY <1>1, <1>2, <2>1 DEF Progress, Quiet
<1>4. ASSUME NEW r \in delete_not_active_releases(s), HelmDelete(s, r), UNCHANGED status
      PROVE  StepOK(s)
  <2>1. /\ cmd'[s] = [op |-> "delete", rel |-> r, values |-> Off] /\ pc'[s] = "lock"
        /\ r \in Available[s] /\ r \notin Active(s)
    BY <1>4 DEF HelmDelete, RunCmd, Goto, TasksOK, delete_not_active_releases
  <2>2. /\ Commanding(s)' /\ ~Runs(s, "install")'
        /\ cmd'[s].op = "delete" /\ cmd'[s].rel = r /\ cmd'[s].values = Off
    BY <2>1 DEF Commanding, Runs
  <2>3. CommandOK(s)'
    BY <1>2, <2>1, <2>2 DEF CommandOK, Off, All
  <2>4. Progress(s)'
    BY <1>2, <1>3, <2>1, <2>2 DEF Progress
  <2>5. ~ShownApplied(s)'
    BY <1>1, <1>4 DEF ShownApplied, Applied
  <2> QED BY <2>3, <2>4, <2>5 DEF StepOK, Applied
<1>5. ASSUME delete_not_active_releases(s) = {}, pc'[s] \in {"after", "ended"}
      PROVE  StepOK(s)
  <2>1. \A r \in Available[s] \ Active(s) : rel[r].state = "none"
    BY <1>5 DEF delete_not_active_releases
  <2>2. ~Commanding(s)' /\ rel' = rel
    BY <1>1, <1>5 DEF Commanding, Still
  <2> QED BY <1>2, <1>3, <1>5, <2>1, <2>2 DEF StepOK, CommandOK, Progress, Applied, Runs
<1> QED
  <2>1. \/ \E r \in delete_not_active_releases(s) : HelmDelete(s, r) /\ UNCHANGED status
        \/ delete_not_active_releases(s) = {} /\ pc'[s] \in {"after", "ended"}
    BY DEF Prune, Goto, TasksOK
  <2> QED BY <1>4, <1>5, <2>1

\* All releases of a service that is not wanted are deleted.
LEMMA DeleteGoesOn ==
  ASSUME TasksOK, ClusterOK, CommandsOK, NEW s \in Services, Delete(s)
  PROVE  StepOK(s)
<1>1. want' = want /\ ~Wanted(s) /\ ~Wanted(s)'
  BY DEF Delete, handler, CommandsOK, CommandOK, Wanted
<1>2. Active(s)' = {} /\ Off \in Values
  <2>1. Active(s)' = Active(s)
    BY <1>1 DEF Active
  <2>2. Active(s) = {}
    BY <1>1, Own DEF TasksOK
  <2> QED BY <2>1, <2>2, ValuesOf
<1>3. ASSUME NEW r \in delete_bundle(s), HelmDelete(s, r),
             status' = [status EXCEPT ![s].state = "DELETING"]
      PROVE  StepOK(s)
  <2>1. /\ cmd'[s] = [op |-> "delete", rel |-> r, values |-> Off] /\ pc'[s] = "lock"
        /\ r \in Available[s] /\ status'[s].state = "DELETING"
    BY <1>3 DEF HelmDelete, RunCmd, Goto, TasksOK, delete_bundle, Shown
  <2>2. /\ Commanding(s)' /\ ~Runs(s, "install")' /\ ~ShownApplied(s)'
        /\ cmd'[s].op = "delete" /\ cmd'[s].rel = r /\ cmd'[s].values = Off
    BY <2>1 DEF Commanding, Runs, ShownApplied
  <2>3. CommandOK(s)'
    BY <1>2, <2>1, <2>2 DEF CommandOK, Off, All
  <2> QED BY <1>1, <2>1, <2>2, <2>3 DEF StepOK, Progress, Applied
<1>4. ASSUME status' = [status EXCEPT ![s] = [state |-> "none", ver |-> 0]], pc'[s] = "ended"
      PROVE  StepOK(s)
  <2>1. ~ShownApplied(s)' /\ ~Commanding(s)'
    BY <1>4 DEF ShownApplied, Commanding, TasksOK
  <2> QED BY <1>4, <2>1 DEF StepOK, CommandOK, Progress, Applied, Runs
<1> QED
  <2>1. \/ \E r \in delete_bundle(s) : HelmDelete(s, r) /\
             status' = [status EXCEPT ![s].state = "DELETING"]
        \/ status' = [status EXCEPT ![s] = [state |-> "none", ver |-> 0]] /\ pc'[s] = "ended"
    BY DEF Delete, Goto, TasksOK
  <2> QED BY <1>3, <1>4, <2>1

\* Every step of the task of s.
LEMMA OwnStep ==
  ASSUME TasksOK, ClusterOK, CommandsOK, NEW s \in Services, Progress(s), Applied(s),
         Task(s) \/ TaskFault(s)
  PROVE  StepOK(s)
<1>1. CASE Process(s) \/ Rollback(s) \/ GuessAndDelete(s) \/ CmdTimesOut(s)
  BY <1>1, CommandGoesOn
<1>2. CASE \/ WaitHealthy(s) \/ EnableNext(s) \/ EnableDone(s) \/ Check(s) \/ UpgradeDone(s)
           \/ HealthTimesOut(s) \/ EnableTimesOut(s) \/ CmdFails(s)
           \/ GetValues(s) /\ pc'[s] = "failed"
  BY <1>2, SimpleSteps
<1>3. CASE Succeeds(s)
  BY <1>3, CommandSucceeds
<1>4. CASE GetValues(s) /\ pc'[s] # "failed"
  BY <1>4, ValuesRead
<1>5. CASE Acquire(s)
  BY <1>5, LockTaken
<1>6. CASE Apply(s) \/ CleanupImmutable(s)
  BY <1>6, InstallBegins
<1>7. CASE Install(s)
  BY <1>7, InstallGoesOn
<1>8. CASE Prune(s)
  BY <1>8, PruneGoesOn
<1>9. CASE Delete(s)
  BY <1>9, DeleteGoesOn
<1> QED BY <1>1, <1>2, <1>3, <1>4, <1>5, <1>6, <1>7, <1>8, <1>9 DEF Task, TaskFault
-----------------------------------------------------------------------------
(* The invariant *)

\* The first installation.
LEMMA InstallInit == Init => InstallInv
<1> SUFFICES ASSUME Init PROVE InstallInv
  OBVIOUS
<1>1. want = 1 /\ want \in Versions /\ want \in Nat
  BY ReleaseAssumption DEF Init, Versions
<1>2. TasksOK
  <2>1. [state |-> "APPLIED", ver |-> 1] \in Shown
    BY DEF Shown
  <2> QED BY <1>1, <2>1 DEF Init, TasksOK
<1>3. /\ \A r \in Installed : rel[r] = [state |-> "deployed", values |-> All(want), next |-> Off]
      /\ \A r \in Releases \ Installed : rel[r] = [state |-> "none", values |-> Off, next |-> Off]
      /\ \A r \in Installed : objs[r]["server"] = [ver |-> want, state |-> "up"]
  <2>1. Installed \subseteq Releases
    BY <1>1, Own DEF Installed
  <2> QED BY <1>1, <2>1, ValuesOf DEF Init
<1>4. ClusterOK
  <2>1. /\ [state |-> "deployed", values |-> All(want), next |-> Off] \in Records
        /\ [state |-> "none", values |-> Off, next |-> Off] \in Records
    BY <1>1, ValuesOf DEF Records
  <2>2. rel \in [Releases -> Records]
    <3>1. rel = [r \in Releases |-> rel[r]]
      BY DEF Init
    <3> QED BY <1>3, <2>1, <3>1
  <2>3. Absent \in Object /\ [ver |-> 1, state |-> "up"] \in Object
    BY DEF Absent, Object
  <2>4. objs \in [Releases -> [Objects -> Object]]
    BY <2>3 DEF Init
  <2> QED BY <2>2, <2>4 DEF ClusterOK, Init
<1>5. \A s \in Services : pc[s] = "off" /\ ~Commanding(s) /\ status[s].ver <= want
  <2> SUFFICES ASSUME NEW s \in Services
               PROVE  pc[s] = "off" /\ ~Commanding(s) /\ status[s].ver <= want
    OBVIOUS
  <2>1. pc[s] = "off" /\ status[s] = [state |-> "APPLIED", ver |-> want]
    BY <1>1 DEF Init
  <2>2. status[s].ver = want
    BY <2>1
  <2>3. want <= want
    BY <1>1
  <2>4. ~Commanding(s)
    BY <2>1 DEF Commanding
  <2> QED BY <2>1, <2>2, <2>3, <2>4
<1>6. CommandsOK /\ PhaseOK
  BY <1>5 DEF CommandsOK, CommandOK, PhaseOK, Runs
<1>7. ServicesOK
  <2> SUFFICES ASSUME NEW s \in Services
               PROVE  Progress(s) /\ Applied(s)
    BY DEF ServicesOK
  <2>1. Progress(s)
    BY <1>5 DEF Progress, Runs
  <2>2. \A r \in Active(s) : Current(r)
    <3>1. Active(s) \subseteq Installed
      BY DEF Installed
    <3> QED BY <1>3, <3>1 DEF Current, Busy
  <2>3. \A r \in Available[s] \ Active(s) : r \in Releases \ Installed
    <3>1. /\ Available[s] \subseteq Releases
          /\ \A t \in Services : t # s => Available[s] \cap Available[t] = {}
          /\ \A t \in Services : Active(t) \subseteq Available[t]
      BY <1>1, Own
    <3> QED BY <3>1 DEF Installed
  <2>4. \A r \in Available[s] \ Active(s) : rel[r].state = "none"
    BY <1>3, <2>3
  <2> QED BY <1>5, <2>1, <2>2, <2>4 DEF Applied
<1> QED BY <1>2, <1>4, <1>6, <1>7 DEF InstallInv

\* A change of the deployment: nothing is shown as applied for it yet.
LEMMA ChangeStep ==
  ASSUME InstallInv, Change
  PROVE  TasksOK' /\ CommandsOK' /\ PhaseOK' /\ ServicesOK'
<1>1. /\ UNCHANGED <<upgradeMap, phase, pc, cmd, step, status>> /\ phase = "idle"
      /\ want' = want + 1 /\ want < MaxVersion
  BY DEF Change, task
<1>2. want \in Nat /\ want' \in Versions /\ TasksOK
  BY <1>1, ReleaseAssumption DEF InstallInv, TasksOK, Versions
<1>3. TasksOK'
  BY <1>1, <1>2 DEF TasksOK
<1>4. \A s \in Services : /\ pc'[s] = "off" /\ ~Commanding(s)' /\ status'[s].ver <= want
                          /\ status'[s].ver \in Nat
  BY <1>1, <1>2 DEF InstallInv, PhaseOK, Commanding, TasksOK, Shown
<1>5. \A s \in Services : ~ShownApplied(s)' /\ status'[s].ver <= want'
  BY <1>1, <1>2, <1>4 DEF ShownApplied
<1>6. CommandsOK' /\ PhaseOK'
  BY <1>4, <1>5 DEF CommandsOK, CommandOK, PhaseOK, Runs
<1>7. ServicesOK'
  BY <1>4, <1>5 DEF ServicesOK, Progress, Applied, Runs
<1> QED BY <1>3, <1>6, <1>7

\* The handler, and the end of the controller.
LEMMA PhaseStep ==
  ASSUME InstallInv, Handler \/ Crash
  PROVE  TasksOK' /\ CommandsOK' /\ PhaseOK' /\ ServicesOK'
<1>1. TasksOK /\ ClusterOK /\ CommandsOK /\ PhaseOK /\ ServicesOK
  BY DEF InstallInv
<1>2. \A s \in Services : Restarts(s)
  BY <1>1, TasksRestart
<1>3. want' = want
  BY DEF Handler, StartHandler, StartPhase, RetryRound, NextPhase, HandlerDone, Crash, handler
<1>4. CommandsOK' /\ ServicesOK'
  BY <1>1, HandlerStep DEF CommandsOK, ServicesOK
<1>5. TasksOK'
  <2>1. /\ upgradeMap' = upgradeMap /\ DOMAIN pc' = Services /\ cmd' = cmd
        /\ step' = step \/ step' = [s \in Services |-> 1]
    BY <1>1 DEF Handler, StartHandler, StartPhase, RetryRound, NextPhase, HandlerDone, Crash,
                handler, TasksOK
  <2>2. step' \in [Services -> Nat \ {0}]
    BY <1>1, <2>1 DEF TasksOK
  <2>3. status' \in [Services -> Shown]
    <3>1. ASSUME NEW p, NEW k, StartPhase(p, k)
          PROVE  status' \in [Services -> Shown]
      <4>1. status' = [s \in Services |->
              IF p = "upgrade" /\ s = UpgradeOrder[k] THEN [status[s] EXCEPT !.state = "APPLYING"]
              ELSE status[s]]
        BY <3>1 DEF StartPhase
      <4>2. \A s \in Services : /\ status[s] \in Shown
                                /\ [status[s] EXCEPT !.state = "APPLYING"] \in Shown
        BY <1>1 DEF TasksOK, Shown
      <4> QED BY <4>1, <4>2
    <3>2. CASE StartHandler \/ NextPhase
      BY <3>1, <3>2 DEF StartHandler, NextPhase
    <3>3. CASE RetryRound \/ HandlerDone \/ Crash
      BY <1>1, <3>3 DEF RetryRound, HandlerDone, Crash, TasksOK
    <3> QED BY <3>2, <3>3 DEF Handler
  <2> QED BY <1>1, <1>3, <2>1, <2>2, <2>3 DEF TasksOK
<1>6. PhaseOK'
  <2>1. phase' = "idle" => \A s \in Services : pc'[s] = "off"
    BY DEF Handler, StartHandler, StartPhase, RetryRound, NextPhase, HandlerDone, Crash, handler
  <2> QED BY <1>1, <1>2, <1>3, <2>1 DEF PhaseOK, Restarts
<1> QED BY <1>4, <1>5, <1>6

\* Tasks at work, and what is under way in the cluster.
LEMMA InstallNext == InstallInv /\ [Next]_vars => InstallInv'
<1> SUFFICES ASSUME InstallInv, [Next]_vars
             PROVE  InstallInv'
  OBVIOUS
<1>1. TasksOK /\ ClusterOK /\ CommandsOK /\ PhaseOK /\ ServicesOK
  BY DEF InstallInv
<1>2. ClusterOK'
  BY <1>1, ClusterStep
<1> SUFFICES TasksOK' /\ CommandsOK' /\ PhaseOK' /\ ServicesOK'
  BY <1>2 DEF InstallInv
<1>3. ASSUME UNCHANGED <<handler, task, status>>, ~Crash,
             \A s \in Services : \A r \in Available[s] : Elsewhere(s, r)
      PROVE  TasksOK' /\ CommandsOK' /\ PhaseOK' /\ ServicesOK'
  <2>1. TasksOK' /\ PhaseOK' /\ want' = want /\ \A s \in Services : Rests(s)
    BY <1>1, <1>3 DEF TasksOK, PhaseOK, Rests, handler, task
  <2> QED BY <1>1, <1>3, <2>1, RestingTask DEF CommandsOK, ServicesOK
<1>4. CASE UNCHANGED vars
  <2>1. UNCHANGED <<handler, task, status>> /\ Still
    BY <1>4 DEF vars, handler, task, Still
  <2>2. CASE Crash
    BY <2>2, PhaseStep
  <2> QED BY <1>3, <2>1, <2>2 DEF Elsewhere
<1>5. CASE Change
  BY <1>5, ChangeStep
<1>6. CASE Handler \/ Crash
  BY <1>6, PhaseStep
<1>7. CASE OrphanAcquires /\ ~Crash
  BY <1>3, <1>7 DEF OrphanAcquires, Still, Elsewhere, cluster
<1>8. CASE ~Crash /\ \E r \in Releases : Starts(r)
  BY <1>3, <1>8 DEF Starts, Elsewhere
<1>9. CASE ~Crash /\ \E p \in late : LateFinishes(p)
  BY <1>3, <1>9 DEF LateFinishes, Elsewhere
<1>10. ASSUME NEW s \in Services, Task(s) \/ TaskFault(s), ~Crash
       PROVE  TasksOK' /\ CommandsOK' /\ PhaseOK' /\ ServicesOK'
  <2>1. /\ UNCHANGED handler /\ TasksOK' /\ pc[s] # "off"
        /\ status'[s].ver \in {status[s].ver, 0, want}
        /\ \A t \in Services : t # s => Rests(t)
    BY <1>1, <1>10, TaskFrame
  <2>2. want' = want /\ want \in Nat /\ phase' = phase /\ phase # "idle"
    BY <1>1, <2>1, ValuesOf DEF handler, PhaseOK, TasksOK
  <2>3. PhaseOK'
    <3>1. \A t \in Services : status'[t].ver <= want
      BY <1>1, <2>1, <2>2 DEF PhaseOK, Rests
    <3> QED BY <2>2, <3>1 DEF PhaseOK
  <2>4. StepOK(s)
    BY <1>1, <1>10, OwnStep DEF ServicesOK
  <2>5. ASSUME NEW t \in Services, t # s
        PROVE  StepOK(t)
    <3>1. \A r \in Available[t] : Elsewhere(t, r)
      <4>1. Still \/ CommandStep(s) \/ Apply(s) \/ EnableNext(s) \/ CleanupImmutable(s)
        BY <1>10, TaskKinds
      <4> QED BY <2>5, <4>1 DEF Elsewhere
    <3>2. Rests(t) /\ Progress(t) /\ Applied(t)
      BY <1>1, <2>1, <2>5 DEF ServicesOK
    <3> QED BY <1>1, <1>10, <2>2, <3>1, <3>2, RestingTask DEF StepOK
  <2> QED BY <2>1, <2>3, <2>4, <2>5 DEF CommandsOK, ServicesOK, StepOK
<1> QED BY <1>4, <1>5, <1>6, <1>7, <1>8, <1>9, <1>10 DEF Next

\* What the proof rests on: every command of helm is about a release of its own
\* service with the values of the rendering, and services are installed
\* release by release before they are shown as applied.
THEOREM InstallCorrect == Spec => []InstallInv
BY InstallInit, InstallNext, PTL DEF Spec

\* For any services, releases, versions and numbers of failures, timeouts and
\* crashes: a service that is shown as applied has all releases of its last
\* rendering with all of their values, none that is no longer active, and,
\* unless a late process of helm has overwritten them, their objects.
THEOREM ShownIsInstalled == Spec => []AppliedInstalled
<1>1. InstallInv => AppliedInstalled
  <2> SUFFICES ASSUME InstallInv, NEW s \in Services, ShownApplied(s)
               PROVE  /\ \A r \in Active(s) : rel[r].values = All(want)
                      /\ \A r \in Available[s] \ Active(s) : rel[r].state = "none"
                      /\ ~outlived => \A r \in Active(s) :
                           objs[r]["server"].ver = want /\ objs[r]["server"].state # "down"
    BY DEF AppliedInstalled, ShownApplied
  <2> QED BY DEF InstallInv, ServicesOK, Applied, Current
<1> QED BY <1>1, InstallCorrect, PTL

-----------------------------------------------------------------------------
(* The order of schema changes.  The services of the upgrade order keep the  *)
(* release of their chart in every version.                                  *)

Upgradable == {UpgradeOrder[k] : k \in DOMAIN UpgradeOrder}
MainStays ==
  \A s \in Upgradable : \A v \in Versions :
    \E k \in DOMAIN Bundle[s][v] : Bundle[s][v][k] = MainRelease[s]
Enables(o) == \E i \in DOMAIN upgradeMap : upgradeMap[i].obj = o

\* The values that are or may become the last ones of the release ...
Commanded(r) == {cmd[s].values : s \in {t \in Services : Commanding(t) /\ cmd[t].rel = r}}
Live(r) == {rel[r].values} \cup {v \in {rel[r].next} : Busy(r)} \cup Commanded(r)
\* ... and those that late processes may write.
InPlay(r) == Live(r) \cup {p.values : p \in {q \in late : q.rel = r}}

\* The job for the new version has completed.
Prepared(s) == want \in synced[MainRelease[s]]
\* The server is new and nothing but a late process can bring back the old one.
ServerUp(s) ==
  /\ objs[MainRelease[s]]["server"].ver = want
  /\ \A v \in Live(MainRelease[s]) : v["server"] = want
Stripped(s) == ~outlived /\ Enables("contract") => ServerUp(s)
Done(s) == Prepared(s) /\ Stripped(s)

\* New values come in order.
Ordered(s) ==
  \A v \in InPlay(MainRelease[s]) : /\ v["server"] = want => Prepared(s)
                                    /\ v["contract"] = want => Stripped(s)

Bounded == \A r \in Releases : \A v \in InPlay(r) : \A o \in Objects : v[o] <= want
JobsSynced ==
  /\ synced \in [Releases -> SUBSET Nat]
  /\ \A r \in Releases : objs[r]["job"].state = "up" => objs[r]["job"].ver \in synced[r]

OneTask ==
  /\ phase \in {"idle", "upgrade", "apply"}
  /\ phase = "upgrade" =>
       /\ cur \in 1..Len(UpgradeOrder)
       /\ \A s \in Services : s # UpgradeOrder[cur] => pc[s] = "off"

\* Where the upgrade of the service is, and what is behind it.
Setting(s) == pc[s] \in {"enable", "get", "check"} \/ Runs(s, "set")
Position(s) ==
  /\ pc[s] # "off" /\ (pc[s] = "healthy" => step[s] = 1)
  /\ Setting(s) => /\ step[s] >= 2 => Prepared(s)
                   /\ step[s] >= 3 => Stripped(s)
  /\ Runs(s, "set") => /\ cmd[s].rel = MainRelease[s]
                       /\ step[s] <= Len(upgradeMap) =>
                            cmd[s].values[upgradeMap[step[s]].obj] = want
  /\ pc[s] = "check" => /\ ~Busy(MainRelease[s])
                        /\ step[s] <= Len(upgradeMap) =>
                             rel[MainRelease[s]].values[upgradeMap[step[s]].obj] = want
  /\ ~Setting(s) /\ pc[s] \notin {"healthy", "failed"} => Done(s)

UpgradeInv ==
  kind = "upgrade" =>
    /\ \A s \in Upgradable : Ordered(s)
    /\ phase = "upgrade" => /\ \A k \in 1..(cur - 1) : Done(UpgradeOrder[k])
                            /\ Position(UpgradeOrder[cur])
    /\ phase = "apply" => \A s \in Upgradable : Done(s)

SchemaInv == Bounded /\ JobsSynced /\ OneTask /\ UpgradeInv
-----------------------------------------------------------------------------
\* What _upgrade of the services enables, in the order of the schema change.
LEMMA MapShape ==
  ASSUME upgradeMap \in UpgradeMaps
  PROVE  /\ Len(upgradeMap) \in 1..3 /\ DOMAIN upgradeMap = 1..Len(upgradeMap)
         /\ upgradeMap[1].obj = "job"
         /\ Len(upgradeMap) >= 2 => upgradeMap[2].obj = "server"
         /\ Len(upgradeMap) = 3 => upgradeMap[3].obj = "contract"
         /\ Enables("contract") => Len(upgradeMap) = 3
<1> DEFINE Shape(m) ==
         /\ Len(m) \in 1..3 /\ DOMAIN m = 1..Len(m) /\ m[1].obj = "job"
         /\ Len(m) >= 2 => m[2].obj = "server"
         /\ Len(m) = 3 => m[3].obj = "contract"
         /\ (\E i \in DOMAIN m : m[i].obj = "contract") => Len(m) = 3
<1>1. Shape(glance_upgrade) /\ Shape(keystone_upgrade) /\ Shape(cinder_upgrade)
  BY DEF glance_upgrade, keystone_upgrade, cinder_upgrade, Kept, Purged
<1>2. Shape(heat_upgrade) /\ Shape(neutron_upgrade) /\ Shape(nova_upgrade)
  BY DEF heat_upgrade, neutron_upgrade, nova_upgrade, Kept, Purged
<1> HIDE DEF Shape
<1>3. Shape(upgradeMap)
  BY <1>1, <1>2 DEF UpgradeMaps
<1> QED BY <1>3 DEF Enables, Shape

\* The objects of a release have the versions of the values, and none is up
\* that was not.
LEMMA PatchedVersions ==
  ASSUME NEW r \in Releases, NEW v \in Values, NEW o \in Objects
  PROVE  /\ Patched(r, v)[o].ver = v[o]
         /\ Patched(r, v)[o].state = "up" => Patched(r, v)[o] = objs[r][o]
<1>1. CASE v[o] = 0
  <2>1. Patched(r, v)[o] = [ver |-> 0, state |-> "none"]
    BY <1>1 DEF Patched, Absent
  <2> QED BY <1>1, <2>1
<1>2. CASE v[o] # 0 /\ v[o] = objs[r][o].ver /\ objs[r][o].state # "down"
  <2>1. Patched(r, v)[o] = objs[r][o]
    BY <1>2 DEF Patched
  <2> QED BY <1>2, <2>1
<1>3. CASE v[o] # 0 /\ ~(v[o] = objs[r][o].ver /\ objs[r][o].state # "down")
  <2>1. Patched(r, v)[o] = [ver |-> v[o], state |-> "starting"]
    BY <1>3 DEF Patched
  <2> QED BY <2>1
<1> QED BY <1>1, <1>2, <1>3

\* What a command writes: its own values or those there were.
Writes(s) ==
  LET r == cmd[s].rel
  IN  /\ \E x \in Records :
           /\ rel' = [rel EXCEPT ![r] = x] /\ x.values \in {rel[r].values, cmd[s].values}
           /\ IsBusy(x.state) => x.next = cmd[s].values
      /\ \/ objs' = objs
         \/ \E v \in {rel[r].values, cmd[s].values} : objs' = [objs EXCEPT ![r] = Patched(r, v)]
         \/ \E gone \in SUBSET Jobs : objs' = [objs EXCEPT ![r] = Removed(r, gone)]
      /\ late' \subseteq late \cup {[rel |-> r, values |-> cmd[s].values]}
      /\ outlived' = outlived /\ synced' = synced

\* That is so for every step of a command.
LEMMA CommandWrites ==
  ASSUME TasksOK, ClusterOK, CommandsOK, NEW s \in Services, CommandStep(s)
  PROVE  Commanding(s) /\ Writes(s)
<1> DEFINE r == cmd[s].rel
           v == cmd[s].values
<1>1. Commanding(s)
  BY DEF CommandStep, Process, Rollback, Succeeds, GuessAndDelete, CmdFails, CmdTimesOut,
         Commanding
<1>2. r \in Releases /\ v \in Values
  BY <1>1, Own DEF CommandsOK, CommandOK, TasksOK
<1>3. rel[r] \in Records /\ DOMAIN rel = Releases /\ Off \in Values
  BY <1>2, ValuesOf DEF ClusterOK
<1> USE <1>1 DEF Writes
<1>4. CASE Process(s)
  <2> DEFINE x == [rel[r] EXCEPT !.state = "pending", !.next = v]
  <2>1. rel' = [rel EXCEPT ![r] = x] /\ UNCHANGED <<objs, late, outlived, synced>>
    BY <1>2, <1>3, <1>4 DEF Process, helm
  <2>2. x \in Records /\ x.values = rel[r].values /\ x.next = v
    BY <1>2, <1>3 DEF Records
  <2> HIDE DEF x
  <2> QED BY <2>1, <2>2
<1>5. ASSUME NEW x \in Records, rel' = [rel EXCEPT ![r] = x], ~IsBusy(x.state),
             x.values \in {rel[r].values, v}, UNCHANGED <<late, outlived, synced>>,
             \/ objs' = objs
             \/ \E w \in {rel[r].values, v} : objs' = [objs EXCEPT ![r] = Patched(r, w)]
             \/ \E gone \in SUBSET Jobs : objs' = [objs EXCEPT ![r] = Removed(r, gone)]
      PROVE  Writes(s)
  BY <1>5
<1>6. CASE Rollback(s)
  <2> DEFINE x == [rel[r] EXCEPT !.state = "deployed"]
  <2>1. /\ rel' = [rel EXCEPT ![r] = x] /\ UNCHANGED <<late, outlived, synced>>
        /\ objs' = objs \/ objs' = [objs EXCEPT ![r] = Patched(r, rel[r].values)]
    BY <1>2, <1>3, <1>6 DEF Rollback, helm
  <2>2. x \in Records /\ x.values = rel[r].values /\ ~IsBusy(x.state)
    BY <1>3 DEF Records, IsBusy
  <2> HIDE DEF Writes, x
  <2> QED BY <1>5, <2>1, <2>2
<1>7. CASE GuessAndDelete(s)
  <2>1. /\ rel' = [rel EXCEPT ![r] = Revision(rel[r], v)] /\ UNCHANGED <<late, outlived, synced>>
        /\ objs' = [objs EXCEPT ![r] = Removed(r, InTheWay(r, v))]
        /\ InTheWay(r, v) \in SUBSET Jobs
    BY <1>7 DEF GuessAndDelete, helm, InTheWay
  <2> HIDE DEF Writes
  <2> QED BY <1>2, <1>3, <1>5, <2>1, RevisionIs
<1>8. CASE CmdFails(s)
  <2>1. /\ rel' = [rel EXCEPT ![r] = Revision(rel[r], v)] /\ UNCHANGED <<late, outlived, synced>>
        /\ objs' = objs \/ objs' = [objs EXCEPT ![r] = Patched(r, v)]
    BY <1>8 DEF CmdFails
  <2> HIDE DEF Writes
  <2> QED BY <1>2, <1>3, <1>5, <2>1, RevisionIs
<1>9. CASE Succeeds(s)
  <2> DEFINE x == [state |-> IF cmd[s].op = "delete" THEN "none" ELSE "deployed",
                   values |-> v, next |-> Off]
  <2>1. /\ rel' = [rel EXCEPT ![r] = x] /\ UNCHANGED <<late, outlived, synced>>
        /\ objs' = [objs EXCEPT ![r] = Patched(r, v)]
    BY <1>9 DEF Succeeds
  <2>2. x \in Records /\ x.values = v /\ ~IsBusy(x.state)
    BY <1>2, <1>3 DEF Records, IsBusy
  <2> HIDE DEF x
  <2> QED BY <2>1, <2>2
<1>10. CASE CmdTimesOut(s) \/ (EnableTimesOut(s) /\ pc[s] = "run")
  <2> DEFINE x == [rel[r] EXCEPT !.state = "late"]
  <2>1. /\ rel' = [rel EXCEPT ![r] = x] /\ UNCHANGED <<objs, outlived, synced>>
        /\ late' = late \cup {[rel |-> r, values |-> v]} /\ pc[s] = "run"
    BY <1>2, <1>3, <1>10 DEF CmdTimesOut, EnableTimesOut, Outlive
  <2>2. x \in Records /\ x.values = rel[r].values /\ x.next = v
    BY <1>3, <2>1 DEF Records, CommandsOK, CommandOK
  <2> HIDE DEF x
  <2> QED BY <2>1, <2>2
<1> QED BY <1>4, <1>6, <1>7, <1>8, <1>9, <1>10 DEF CommandStep

\* The values in play, one by one.
LEMMA LiveIs ==
  ASSUME NEW r \in Releases, NEW v
  PROVE  /\ v \in Live(r) <=> \/ v = rel[r].values \/ (Busy(r) /\ v = rel[r].next)
                              \/ \E s \in Services :
                                   Commanding(s) /\ cmd[s].rel = r /\ v = cmd[s].values
         /\ v \in InPlay(r) <=> \/ v \in Live(r)
                                \/ \E p \in late : p.rel = r /\ v = p.values
BY DEF Live, InPlay, Commanded

\* All of them are values.
LEMMA LiveValues ==
  ASSUME ClusterOK, CommandsOK, NEW r \in Releases, NEW v \in InPlay(r)
  PROVE  v \in Values
<1>1. rel[r].values \in Values /\ rel[r].next \in Values
  BY DEF ClusterOK, Records
<1>2. \A s \in Services : Commanding(s) => cmd[s].values \in Values
  BY DEF CommandsOK, CommandOK
<1>3. \A p \in late : p.values \in Values
  BY DEF ClusterOK
<1> QED BY <1>1, <1>2, <1>3, LiveIs

\* What a step may do to the record of a release: nothing is written that was
\* not in play.
Recorded(r) ==
  /\ rel'[r].values \in Live(r) /\ (Busy(r)' => rel'[r].next \in Live(r))
  /\ \A p \in late' : p.rel = r => p.values \in InPlay(r)

\* The same for its objects; only a late process writes other than live
\* values, and a job that comes up is recorded.
Changes(r) ==
  /\ \A o \in Objects : \/ objs'[r][o].ver \in {objs[r][o].ver, 0}
                        \/ \E v \in InPlay(r) : objs'[r][o].ver = v[o]
  /\ ~outlived' => \/ objs'[r]["server"].ver = objs[r]["server"].ver
                   \/ \E v \in Live(r) : objs'[r]["server"].ver = v["server"]
  /\ objs'[r]["job"].state = "up" =>
       objs'[r]["job"] = objs[r]["job"] \/ objs'[r]["job"].ver \in synced'[r]

\* What leaves the objects of a release alone changes nothing.
LEMMA SameObjects ==
  ASSUME NEW r \in Releases, objs'[r] = objs[r] PROVE Changes(r)
BY DEF Changes

\* What helm writes changes a release to the values it writes.
LEMMA PatchedChanges ==
  ASSUME NEW r \in Releases, NEW v \in Values, v \in InPlay(r), v \in Live(r) \/ outlived',
         objs'[r] = Patched(r, v)
  PROVE  Changes(r)
<1>1. \A o \in Objects : /\ objs'[r][o].ver = v[o]
                         /\ objs'[r][o].state = "up" => objs'[r][o] = objs[r][o]
  BY PatchedVersions
<1>2. "server" \in Objects /\ "job" \in Objects
  BY DEF Objects, Jobs
<1> QED BY <1>1, <1>2 DEF Changes

\* A release that is uninstalled.
LEMMA RemovedChanges ==
  ASSUME NEW r \in Releases, NEW gone \in SUBSET Jobs, objs'[r] = Removed(r, gone)
  PROVE  Changes(r)
<1>1. Absent.ver = 0 /\ Absent.state = "none"
  BY DEF Absent
<1>2. \A o \in Objects : objs'[r][o] = IF o \in gone THEN Absent ELSE objs[r][o]
  BY DEF Removed
<1>3. "server" \in Objects /\ "job" \in Objects /\ "server" \notin gone
  BY DEF Objects, Jobs
<1> QED BY <1>1, <1>2, <1>3 DEF Changes
-----------------------------------------------------------------------------
\* Only pods that start change what is recorded as prepared.
LEMMA SyncedStep ==
  ASSUME [Next]_vars PROVE synced' = synced \/ \E r \in Releases : Starts(r)
<1>1. CASE UNCHANGED vars
  BY <1>1 DEF vars
<1>2. CASE Change \/ Handler \/ OrphanAcquires \/ Crash \/ \E p \in late : LateFinishes(p)
  BY <1>2 DEF Change, Handler, StartHandler, StartPhase, RetryRound, NextPhase, HandlerDone,
              OrphanAcquires, Crash, LateFinishes, cluster
<1>3. ASSUME NEW s \in Services, Task(s) \/ TaskFault(s) PROVE synced' = synced
  BY <1>3 DEF Task, TaskFault, Acquire, Process, Rollback, Succeeds, GuessAndDelete,
              WaitHealthy, EnableNext, EnableDone, GetValues, Check, Apply, CleanupImmutable,
              Install, Prune, UpgradeDone, Delete, CmdFails, CmdTimesOut, EnableTimesOut,
              HealthTimesOut, cluster
<1> QED BY <1>1, <1>2, <1>3 DEF Next

\* Pods that start.
LEMMA StartChanges ==
  ASSUME ClusterOK, synced \in [Releases -> SUBSET Nat], NEW q \in Releases, Starts(q)
  PROVE  /\ synced' \in [Releases -> SUBSET Nat] /\ UNCHANGED <<rel, late, outlived>>
         /\ \A r \in Releases : Changes(r) /\ synced[r] \subseteq synced'[r]
<1> DEFINE started == {o \in Objects : objs[q][o].state = "starting"}
           up(o) == [objs[q][o] EXCEPT !.state = "up"]
           new == IF "job" \in started THEN synced[q] \cup {objs[q]["job"].ver} ELSE synced[q]
<1>1. /\ objs' = [objs EXCEPT ![q] =
           [o \in Objects |-> IF o \in started THEN up(o) ELSE objs[q][o]]]
      /\ synced' = [synced EXCEPT ![q] = new] /\ UNCHANGED <<rel, late, outlived>>
  BY DEF Starts, helm, ClusterOK
<1>2. "server" \in Objects /\ "job" \in Objects
  BY DEF Objects, Jobs
<1>3. \A o \in Objects : objs[q][o].ver \in Nat /\ up(o).ver = objs[q][o].ver
  BY DEF ClusterOK, Object
<1> HIDE DEF started, up
<1>4. /\ \A o \in Objects : objs'[q][o] = IF o \in started THEN up(o) ELSE objs[q][o]
      /\ \A r \in Releases \ {q} : objs'[r] = objs[r] /\ synced'[r] = synced[r]
      /\ synced'[q] = new
  BY <1>1 DEF ClusterOK
<1>5. synced' \in [Releases -> SUBSET Nat] /\ \A r \in Releases : synced[r] \subseteq synced'[r]
  <2>1. new \in SUBSET Nat /\ synced[q] \subseteq new
    BY <1>2, <1>3
  <2> HIDE DEF new
  <2> QED BY <1>1, <1>4, <2>1
<1>6. Changes(q)
  <2>1. \A o \in Objects : objs'[q][o].ver = objs[q][o].ver
    BY <1>3, <1>4
  <2>2. objs'[q]["job"] = objs[q]["job"] \/ objs'[q]["job"].ver \in synced'[q]
    BY <1>2, <1>4, <2>1
  <2> QED BY <1>2, <2>1, <2>2 DEF Changes
<1>7. \A r \in Releases : r # q => Changes(r)
  BY <1>4, SameObjects
<1> QED BY <1>1, <1>5, <1>6, <1>7

\* A late process writes its own values, and those are live if it is in time.
LEMMA LateChanges ==
  ASSUME ClusterOK, CommandsOK, NEW p \in late, LateFinishes(p), NEW r \in Releases
  PROVE  Recorded(r) /\ Changes(r) /\ (outlived => outlived')
<1> DEFINE q == p.rel
           mine == rel[q].state = "late" /\ rel[q].next = p.values
           fails == ImmutableChange(q, p.values)
<1>1. /\ rel' = IF ~mine THEN rel
                ELSE [rel EXCEPT ![q] = IF p.values = Off THEN NoRelease
                                        ELSE Revision(rel[q], p.values)]
      /\ objs' = IF fails THEN objs ELSE [objs EXCEPT ![q] = Patched(q, p.values)]
      /\ late' = late \ {p} /\ outlived' = (outlived \/ ~mine)
  BY DEF LateFinishes
<1>2. /\ q \in Releases /\ p.values \in Values /\ rel[q] \in Records
      /\ DOMAIN rel = Releases /\ DOMAIN objs = Releases
  BY DEF ClusterOK
<1>3. /\ p.values \in InPlay(q)
      /\ mine => p.values \in Live(q)
      /\ rel[r].values \in Live(r) /\ (Busy(r) => rel[r].next \in Live(r))
      /\ \A l \in late : l.rel = r => l.values \in InPlay(r)
  BY <1>2, LiveIs DEF Busy
<1>4. CASE r = q
  <2>1. CASE mine
    <3>1. /\ ~IsBusy(rel'[r].state)
          /\ rel'[r].values = rel[r].values \/ rel'[r].values = p.values
      BY <1>1, <1>2, <1>4, <2>1, RevisionIs DEF NoRelease, IsBusy
    <3> QED
      <4>1. Recorded(r)
        BY <1>1, <1>3, <1>4, <2>1, <3>1 DEF Recorded, Busy, IsBusy
      <4>2. objs'[r] = objs[r] \/ objs'[r] = Patched(r, p.values)
        BY <1>1, <1>2, <1>4
      <4>3. Changes(r)
        BY <1>2, <1>3, <1>4, <2>1, <4>2, SameObjects, PatchedChanges
      <4> QED BY <1>1, <4>1, <4>3
  <2>2. CASE ~mine
    <3>1. rel' = rel /\ outlived'
      BY <1>1, <2>2
    <3>2. objs'[r] = objs[r] \/ objs'[r] = Patched(r, p.values)
      BY <1>1, <1>2, <1>4
    <3>3. Changes(r)
      BY <1>2, <1>3, <1>4, <3>1, <3>2, SameObjects, PatchedChanges
    <3> QED BY <1>1, <1>3, <3>1, <3>3 DEF Recorded, Busy
  <2> QED BY <2>1, <2>2
<1>5. CASE r # q
  <2>1. rel'[r] = rel[r] /\ objs'[r] = objs[r]
    BY <1>1, <1>2, <1>5
  <2> QED BY <1>1, <1>3, <2>1, SameObjects DEF Recorded, Busy
<1> QED BY <1>4, <1>5

\* What any step does to any release.
LEMMA ReleaseStep ==
  ASSUME TasksOK, ClusterOK, CommandsOK, synced \in [Releases -> SUBSET Nat], [Next]_vars,
         NEW r \in Releases
  PROVE  /\ Recorded(r) /\ Changes(r) /\ synced[r] \subseteq synced'[r]
         /\ outlived => outlived'
<1>1. /\ rel[r].values \in Live(r) /\ (Busy(r) => rel[r].next \in Live(r))
      /\ \A p \in late : p.rel = r => p.values \in InPlay(r)
  BY LiveIs
<1>2. synced[r] \subseteq synced'[r]
  BY SyncedStep, StartChanges
<1>3. ASSUME rel' = rel, late' \subseteq late PROVE Recorded(r)
  BY <1>1, <1>3 DEF Recorded, Busy
<1>4. CASE Still
  BY <1>2, <1>3, <1>4, SameObjects DEF Still
<1>5. CASE Crash
  <2>1. /\ UNCHANGED <<objs, outlived>> /\ late' = {}
        /\ rel'[r] = IF Busy(r) THEN [rel[r] EXCEPT !.state = "stuck"] ELSE rel[r]
    BY <1>5 DEF Crash
  <2>2. /\ rel'[r].values = rel[r].values /\ rel'[r].next = rel[r].next
        /\ Busy(r)' => Busy(r)
    BY <2>1 DEF ClusterOK, Records, Busy
  <2> QED BY <1>1, <1>2, <2>1, <2>2, SameObjects DEF Recorded
<1>6. ASSUME NEW s \in Services, CommandStep(s)
      PROVE  Recorded(r) /\ Changes(r) /\ (outlived => outlived')
  <2> DEFINE q == cmd[s].rel
             v == cmd[s].values
  <2>1. Commanding(s) /\ Writes(s)
    BY <1>6, CommandWrites
  <2>2. /\ q \in Releases /\ v \in Values /\ rel[q].values \in Values
        /\ DOMAIN rel = Releases /\ DOMAIN objs = Releases
    BY <2>1, Own DEF CommandsOK, CommandOK, TasksOK, ClusterOK, Records
  <2>3. v \in Live(q) /\ rel[q].values \in Live(q) /\ Live(q) \subseteq InPlay(q)
    BY <2>1, <2>2, LiveIs
  <2>4. PICK x \in Records :
          /\ rel' = [rel EXCEPT ![q] = x] /\ x.values \in {rel[q].values, v}
          /\ IsBusy(x.state) => x.next = v
    BY <2>1 DEF Writes
  <2>5. /\ \/ objs' = objs
           \/ \E w \in {rel[q].values, v} : objs' = [objs EXCEPT ![q] = Patched(q, w)]
           \/ \E gone \in SUBSET Jobs : objs' = [objs EXCEPT ![q] = Removed(q, gone)]
        /\ late' \subseteq late \cup {[rel |-> q, values |-> v]} /\ outlived' = outlived
    BY <2>1 DEF Writes
  <2>6. \A p \in late' : p.rel = r => p.values \in InPlay(r)
    <3> SUFFICES ASSUME NEW p \in late', p.rel = r, p \notin late PROVE p.values \in InPlay(r)
      BY <1>1
    <3>1. p.rel = q /\ p.values = v
      BY <2>5
    <3> QED BY <2>3, <3>1
  <2>7. CASE r = q
    <3>1. rel'[r] = x
      BY <2>2, <2>4, <2>7
    <3>2. Recorded(r)
      BY <2>3, <2>4, <2>6, <2>7, <3>1 DEF Recorded, Busy, IsBusy
    <3>3. \/ objs'[r] = objs[r]
          \/ \E w \in {rel[q].values, v} : objs'[r] = Patched(r, w)
          \/ \E gone \in SUBSET Jobs : objs'[r] = Removed(r, gone)
      BY <2>2, <2>5, <2>7
    <3>4. Changes(r)
      BY <2>2, <2>3, <2>7, <3>3, SameObjects, PatchedChanges, RemovedChanges
    <3> QED BY <2>5, <3>2, <3>4
  <2>8. CASE r # q
    <3>1. rel'[r] = rel[r] /\ objs'[r] = objs[r]
      BY <2>2, <2>4, <2>5, <2>8
    <3> QED BY <1>1, <2>5, <2>6, <3>1, SameObjects DEF Recorded, Busy
  <2> QED BY <2>7, <2>8
<1>7. ASSUME NEW s \in Services, Apply(s)
      PROVE  Recorded(r) /\ Changes(r) /\ (outlived => outlived')
  <2>1. /\ UNCHANGED <<rel, late, outlived>>
        /\ objs'[r] \in {objs[r], [objs[r] EXCEPT !["server"].state = "down"]}
    BY <1>7 DEF Apply, helm
  <2>2. CASE objs'[r] = [objs[r] EXCEPT !["server"].state = "down"]
    <3>1. "server" \in Objects /\ "job" \in Objects /\ objs[r] \in [Objects -> Object]
      BY DEF Objects, Jobs, ClusterOK
    <3>2. /\ \A o \in Objects : objs'[r][o].ver = objs[r][o].ver
          /\ objs'[r]["job"] = objs[r]["job"]
      BY <2>2, <3>1 DEF Object
    <3> QED BY <1>3, <2>1, <3>1, <3>2 DEF Changes
  <2> QED BY <1>3, <2>1, <2>2, SameObjects
<1>8. ASSUME NEW s \in Services, EnableNext(s) \/ CleanupImmutable(s)
      PROVE  Recorded(r) /\ Changes(r) /\ (outlived => outlived')
  <2>1. UNCHANGED <<rel, late, outlived>>
    BY <1>8 DEF EnableNext, CleanupImmutable, helm
  <2>2. CASE EnableNext(s) /\ objs' # objs
    <3> DEFINE c == Child(s)
    <3>1. objs' = [objs EXCEPT ![c.rel] = Removed(c.rel, {c.obj})] /\ c.purge
      BY <2>2 DEF EnableNext
    <3>2. {c.obj} \in SUBSET Jobs
      <4>1. step[s] <= Len(EnableList(s))
        BY <2>2 DEF EnableNext
      <4> QED BY <3>1, <4>1, OnlyJobs
    <3> HIDE DEF c
    <3>3. objs'[r] = objs[r] \/ objs'[r] = Removed(r, {c.obj})
      BY <3>1 DEF ClusterOK
    <3> QED BY <1>3, <2>1, <3>2, <3>3, SameObjects, RemovedChanges
  <2>3. CASE CleanupImmutable(s)
    <3>1. \E gone \in SUBSET Jobs : objs'[r] = Removed(r, gone)
      <4> DEFINE known == {k \in DOMAIN Bundle[s][want] :
                             \A j \in 1..k : Bundle[s][want][j] \in Listed}
                 gone(x) == {o \in Jobs : /\ \E k \in known : Bundle[s][want][k] = x
                                          /\ HashChanged(x) \/ ImageChanged(x, o)}
      <4>1. objs' = [x \in Releases |-> Removed(x, gone(x))]
        BY <2>3 DEF CleanupImmutable
      <4>2. gone(r) \in SUBSET Jobs
        OBVIOUS
      <4> HIDE DEF gone
      <4> QED BY <4>1, <4>2
    <3> QED BY <1>3, <2>1, <3>1, RemovedChanges
  <2> QED BY <1>3, <1>8, <2>1, <2>2, <2>3, SameObjects
<1>9. ASSUME NEW q \in Releases, Starts(q)
      PROVE  Recorded(r) /\ Changes(r) /\ (outlived => outlived')
  BY <1>3, <1>9, StartChanges
<1> QED BY <1>2, <1>4, <1>5, <1>6, <1>7, <1>8, <1>9, LateChanges, StepKinds
-----------------------------------------------------------------------------
(* New values *)

\* The values of a command that the task of s begins for the release.
Fresh(s, r, v) ==
  \/ pc[s] = "install" /\ r \in Active(s) /\ v = All(want)
  \/ /\ GetValues(s) /\ r = MainRelease[s]
     /\ \E w \in Live(r) : v = [w EXCEPT ![Child(s).obj] = want]
  \/ r \in Available[s] \ Active(s) /\ v = Off

\* A command goes on or is begun.
LEMMA NewCommand ==
  ASSUME TasksOK, CommandsOK, [Next]_vars, NEW s \in Services, Commanding(s)'
  PROVE  \/ Commanding(s) /\ cmd'[s] = cmd[s]
         \/ Fresh(s, cmd'[s].rel, cmd'[s].values)
<1>1. CASE \/ UNCHANGED vars \/ Change \/ OrphanAcquires \/ \E r \in Releases : Starts(r)
           \/ \E p \in late : LateFinishes(p)
  BY <1>1 DEF vars, Change, OrphanAcquires, Starts, LateFinishes, task, Commanding
<1>2. CASE Handler \/ Crash
  BY <1>2, TasksRestart DEF Restarts, Commanding
<1>3. ASSUME NEW t \in Services, t # s, Task(t) \/ TaskFault(t)
      PROVE  Commanding(s) /\ cmd'[s] = cmd[s]
  BY <1>3, TaskFrame DEF Rests, Commanding
<1>4. CASE Acquire(s) \/ Process(s) \/ Rollback(s) \/ GuessAndDelete(s) \/ CmdTimesOut(s)
  BY <1>4 DEF Acquire, Process, Rollback, GuessAndDelete, CmdTimesOut, Commanding, task
<1>5. CASE \/ WaitHealthy(s) \/ EnableDone(s) \/ UpgradeDone(s) \/ HealthTimesOut(s)
           \/ EnableTimesOut(s) \/ CmdFails(s) \/ Apply(s) \/ CleanupImmutable(s)
  BY <1>5 DEF WaitHealthy, EnableDone, UpgradeDone, HealthTimesOut, EnableTimesOut, CmdFails,
              Apply, CleanupImmutable, Goto, Failed, Commanding, TasksOK
<1>6. CASE EnableNext(s) \/ Check(s)
  BY <1>6 DEF EnableNext, Check, Goto, Commanding, TasksOK
<1>7. CASE Succeeds(s)
  <2>1. pc'[s] = Return(s)
    BY <1>7 DEF Succeeds, Goto, TasksOK
  <2> QED BY <2>1 DEF Return, Commanding
<1>8. CASE GetValues(s)
  <2> DEFINE r == MainRelease[s]
             v == [Latest(r) EXCEPT ![Child(s).obj] = want]
  <2>1. cmd'[s] = [op |-> "set", rel |-> r, values |-> v]
    BY <1>8 DEF GetValues, Child, RunCmd, Goto, Failed, Commanding, TasksOK
  <2>2. r \in Releases
    BY Own DEF TasksOK
  <2>3. Latest(r) \in Live(r)
    BY <2>2, LiveIs DEF Latest
  <2>4. Fresh(s, r, v)
    BY <1>8, <2>3 DEF Fresh
  <2>5. cmd'[s].rel = r /\ cmd'[s].values = v
    BY <2>1
  <2> HIDE DEF r, v
  <2> QED BY <2>4, <2>5
<1>9. CASE Install(s)
  <2>1. /\ step[s] \in 1..Len(Bundle[s][want]) /\ pc[s] = "install"
        /\ cmd'[s] = [op |-> "install", rel |-> Bundle[s][want][step[s]], values |-> All(want)]
    <3>1. pc[s] = "install" /\ pc'[s] # "prune" /\ step[s] \in Nat \ {0}
      BY <1>9 DEF Install, Commanding, TasksOK
    <3>2. step[s] <= Len(Bundle[s][want])
      BY <1>9, <3>1 DEF Install, Goto, TasksOK
    <3>3. cmd'[s] = [op |-> "install", rel |-> Bundle[s][want][step[s]], values |-> All(want)]
      BY <1>9, <3>2 DEF Install, RunCmd, TasksOK
    <3>4. Len(Bundle[s][want]) \in Nat
      BY Own DEF TasksOK
    <3> QED BY <3>1, <3>2, <3>3, <3>4
  <2>2. Bundle[s][want][step[s]] \in Active(s)
    BY <2>1, Own DEF TasksOK
  <2> QED BY <2>1, <2>2 DEF Fresh
<1>10. CASE Prune(s)
  <2>1. \E r \in delete_not_active_releases(s) : HelmDelete(s, r)
    BY <1>10 DEF Prune, Goto, Commanding, TasksOK
  <2>2. PICK r \in Available[s] \ Active(s) : cmd'[s] = [op |-> "delete", rel |-> r, values |-> Off]
    BY <2>1 DEF delete_not_active_releases, HelmDelete, RunCmd, TasksOK
  <2> QED BY <2>2 DEF Fresh
<1>11. CASE Delete(s)
  <2>1. \E r \in delete_bundle(s) : HelmDelete(s, r)
    BY <1>11 DEF Delete, Goto, Commanding, TasksOK
  <2>2. PICK r \in Available[s] : cmd'[s] = [op |-> "delete", rel |-> r, values |-> Off]
    BY <2>1 DEF delete_bundle, HelmDelete, RunCmd, TasksOK
  <2>3. Active(s) = {}
    BY <1>11, Own DEF Delete, CommandsOK, CommandOK, TasksOK
  <2> QED BY <2>2, <2>3 DEF Fresh
<1> QED BY <1>1, <1>2, <1>3, <1>4, <1>5, <1>6, <1>7, <1>8, <1>9, <1>10, <1>11
        DEF Next, Task, TaskFault

\* Values are in play that were, or that a task has made.
LEMMA LiveStep ==
  ASSUME TasksOK, ClusterOK, CommandsOK, synced \in [Releases -> SUBSET Nat], [Next]_vars,
         NEW r \in Releases
  PROVE  /\ \A v \in Live(r)' : v \in Live(r) \/ \E s \in Services : Fresh(s, r, v)
         /\ \A v \in InPlay(r)' : v \in InPlay(r) \/ \E s \in Services : Fresh(s, r, v)
<1>1. Recorded(r)
  BY ReleaseStep
<1>2. \A v \in Live(r)' : v \in Live(r) \/ \E s \in Services : Fresh(s, r, v)
  <2> SUFFICES ASSUME NEW v \in Live(r)' PROVE v \in Live(r) \/ \E s \in Services : Fresh(s, r, v)
    OBVIOUS
  <2>1. \/ v = rel'[r].values \/ (Busy(r)' /\ v = rel'[r].next)
        \/ \E s \in Services : Commanding(s)' /\ cmd'[s].rel = r /\ v = cmd'[s].values
    BY DEF Live, Commanded
  <2>2. ASSUME NEW s \in Services, Commanding(s)', cmd'[s].rel = r, v = cmd'[s].values
        PROVE  v \in Live(r) \/ Fresh(s, r, v)
    BY <2>2, NewCommand, LiveIs
  <2> QED BY <1>1, <2>1, <2>2 DEF Recorded
<1>3. \A v \in InPlay(r)' : v \in Live(r)' \/ \E p \in late' : p.rel = r /\ v = p.values
  BY DEF InPlay
<1>4. Live(r) \subseteq InPlay(r)
  BY DEF InPlay
<1> QED BY <1>1, <1>2, <1>3, <1>4 DEF Recorded

\* Nobody but the service itself makes values for the release of its chart.
LEMMA MainFresh ==
  ASSUME MainStays, TasksOK, NEW s \in Upgradable, NEW t \in Services,
         NEW v, Fresh(t, MainRelease[s], v)
  PROVE  /\ s \in Services /\ t = s
         /\ \/ pc[s] = "install" /\ v = All(want)
            \/ /\ GetValues(s)
               /\ \E w \in Live(MainRelease[s]) : v = [w EXCEPT ![Child(s).obj] = want]
<1>1. s \in Services /\ want \in Versions
  BY ReleaseAssumption DEF Upgradable, TasksOK
<1>2. MainRelease[s] \in Active(s)
  BY <1>1 DEF MainStays, Active
<1>3. /\ MainRelease[s] \in Available[s] /\ MainRelease[t] \in Available[t]
      /\ Active(t) \subseteq Available[t]
      /\ t # s => Available[s] \cap Available[t] = {}
  BY <1>1, Own
<1>4. t = s
  BY <1>3 DEF Fresh
<1> QED BY <1>1, <1>2, <1>4 DEF Fresh
-----------------------------------------------------------------------------
(* What an upgrade has reached stays *)

\* What is known of any step.
Sound == TasksOK /\ ClusterOK /\ CommandsOK /\ synced \in [Releases -> SUBSET Nat]

\* Values that are set for one object.
LEMMA SetValues ==
  ASSUME NEW w \in Values, NEW v, NEW o, v = [w EXCEPT ![o] = want], NEW x \in Objects
  PROVE  v[x] \in {w[x], want} /\ (v[x] = want => w[x] = want \/ x = o)
BY DEF Values

\* A version stays prepared.
LEMMA PreparedStays ==
  ASSUME Sound, [Next]_vars, want' = want, NEW s \in Services, Prepared(s)
  PROVE  Prepared(s)'
<1>1. MainRelease[s] \in Releases
  BY Own DEF Sound, TasksOK
<1> QED BY <1>1, ReleaseStep DEF Sound, Prepared

\* A new server stays, whatever is rolled back or repeated, unless a late
\* process interferes.
LEMMA StrippedStays ==
  ASSUME MainStays, Sound, [Next]_vars, want' = want, upgradeMap' = upgradeMap,
         NEW s \in Upgradable, Stripped(s)
  PROVE  Stripped(s)'
<1> DEFINE r == MainRelease[s]
<1>1. s \in Services /\ r \in Releases
  BY ReleaseAssumption DEF Upgradable
<1>2. Changes(r) /\ (outlived => outlived')
  BY <1>1, ReleaseStep DEF Sound
<1> SUFFICES ASSUME ~outlived', Enables("contract")' PROVE ServerUp(s)'
  BY DEF Stripped
<1>3. ServerUp(s)
  BY <1>2 DEF Stripped, Enables
<1>4. objs'[r]["server"].ver = want
  BY <1>2, <1>3 DEF Changes, ServerUp
<1>5. \A v \in Live(r)' : v["server"] = want
  <2> SUFFICES ASSUME NEW v \in Live(r)', v \notin Live(r) PROVE v["server"] = want
    BY <1>3 DEF ServerUp
  <2>1. PICK t \in Services : Fresh(t, r, v)
    BY <1>1, LiveStep DEF Sound
  <2>2. \/ v = All(want)
        \/ \E w \in Live(r) : v = [w EXCEPT ![Child(s).obj] = want]
    BY <2>1, MainFresh DEF Sound
  <2>3. \A w \in Live(r) : w \in Values /\ w["server"] = want
    BY <1>1, <1>3, LiveValues DEF ServerUp, Sound, InPlay
  <2> QED BY <2>2, <2>3, SetValues, ValuesOf
<1> QED BY <1>4, <1>5 DEF ServerUp

\* So what is done stays done.
LEMMA DoneStays ==
  ASSUME MainStays, Sound, [Next]_vars, want' = want, upgradeMap' = upgradeMap,
         NEW s \in Upgradable, Done(s)
  PROVE  Done(s)'
<1>1. s \in Services
  BY ReleaseAssumption DEF Upgradable
<1> QED BY <1>1, PreparedStays, StrippedStays DEF Done

\* What the task may enable next.
MayEnable(s) ==
  /\ pc[s] = "install" => Done(s)
  /\ GetValues(s) => /\ Child(s).obj = "server" => Prepared(s)
                     /\ Child(s).obj = "contract" => Stripped(s)

\* New values come in order if the task enables in order.
LEMMA OrderedStays ==
  ASSUME MainStays, Sound, [Next]_vars, want' = want, upgradeMap' = upgradeMap,
         NEW s \in Upgradable, Ordered(s), MayEnable(s)
  PROVE  Ordered(s)'
<1> DEFINE r == MainRelease[s]
<1>1. s \in Services /\ r \in Releases
  BY ReleaseAssumption DEF Upgradable
<1>2. (Prepared(s) => Prepared(s)') /\ (Stripped(s) => Stripped(s)')
  BY <1>1, PreparedStays, StrippedStays
<1>3. "server" \in Objects /\ "contract" \in Objects
  BY DEF Objects, Jobs
<1> SUFFICES ASSUME NEW v \in InPlay(r)'
             PROVE  /\ v["server"] = want => Prepared(s)
                    /\ v["contract"] = want => Stripped(s)
  BY <1>2 DEF Ordered
<1>4. CASE v \in InPlay(r)
  BY <1>4 DEF Ordered
<1>5. CASE v \notin InPlay(r)
  <2>1. PICK t \in Services : Fresh(t, r, v)
    BY <1>1, <1>5, LiveStep DEF Sound
  <2>2. \/ pc[s] = "install"
        \/ GetValues(s) /\ \E w \in Live(r) : v = [w EXCEPT ![Child(s).obj] = want]
    BY <2>1, MainFresh DEF Sound
  <2>3. CASE pc[s] = "install"
    BY <2>3 DEF MayEnable, Done
  <2>4. CASE GetValues(s) /\ \E w \in Live(r) : v = [w EXCEPT ![Child(s).obj] = want]
    <3>1. PICK w \in Live(r) : v = [w EXCEPT ![Child(s).obj] = want]
      BY <2>4
    <3>2. w \in InPlay(r) /\ w \in Values
      BY <1>1, LiveValues DEF Sound, InPlay
    <3>3. \A x \in {"server", "contract"} : v[x] = want => w[x] = want \/ x = Child(s).obj
      BY <1>3, <3>1, <3>2, SetValues
    <3> QED BY <2>4, <3>2, <3>3 DEF Ordered, MayEnable
  <2> QED BY <2>2, <2>3, <2>4
<1> QED BY <1>4, <1>5

\* No version is in play that the deployment has not asked for.
LEMMA BoundedStep ==
  ASSUME Sound, [Next]_vars, Bounded, want' = want
  PROVE  Bounded'
<1> SUFFICES ASSUME NEW r \in Releases, NEW v \in InPlay(r)', NEW o \in Objects
             PROVE  v[o] <= want
  BY DEF Bounded
<1>1. want \in Nat
  BY ValuesOf DEF Sound, TasksOK
<1>2. CASE v \in InPlay(r)
  BY <1>2 DEF Bounded
<1>3. ASSUME NEW t \in Services, Fresh(t, r, v) PROVE v[o] <= want
  <2>1. CASE v = All(want) \/ v = Off
    BY <1>1, <2>1, ValuesOf
  <2>2. ASSUME NEW w \in Live(r), v = [w EXCEPT ![Child(t).obj] = want] PROVE v[o] <= want
    <3>1. w \in InPlay(r) /\ w \in Values
      BY LiveValues DEF Sound, InPlay
    <3>2. w[o] <= want
      BY <3>1 DEF Bounded
    <3> QED BY <1>1, <2>2, <3>1, <3>2, SetValues
  <2> QED BY <1>3, <2>1, <2>2 DEF Fresh
<1> QED BY <1>2, <1>3, LiveStep DEF Sound

\* Jobs that are up are recorded.
LEMMA JobsStep ==
  ASSUME Sound, [Next]_vars, JobsSynced
  PROVE  JobsSynced'
<1>1. synced' \in [Releases -> SUBSET Nat]
  BY SyncedStep, StartChanges DEF Sound
<1>2. ASSUME NEW r \in Releases, objs'[r]["job"].state = "up"
      PROVE  objs'[r]["job"].ver \in synced'[r]
  <2>1. Changes(r) /\ synced[r] \subseteq synced'[r]
    BY ReleaseStep DEF Sound
  <2> QED BY <1>2, <2>1 DEF Changes, JobsSynced
<1> QED BY <1>1, <1>2 DEF JobsSynced
-----------------------------------------------------------------------------
(* The handler and the task of the service that is upgraded *)

\* The services of the upgrade order.
LEMMA OrderIs ==
  /\ Len(UpgradeOrder) \in Nat /\ DOMAIN UpgradeOrder = 1..Len(UpgradeOrder)
  /\ \A k \in 1..Len(UpgradeOrder) : UpgradeOrder[k] \in Upgradable
  /\ Upgradable \subseteq Services
  /\ UpgradeOrder # <<>> => Len(UpgradeOrder) > 0
BY ReleaseAssumption DEF Upgradable

\* In an upgrade only the service whose turn it is has a task.
LEMMA OneTaskStep ==
  ASSUME TasksOK, OneTask, [Next]_vars
  PROVE  OneTask'
<1>1. CASE UNCHANGED <<phase, cur, pc>>
  BY <1>1 DEF OneTask
<1>2. ASSUME NEW k \in 1..Len(UpgradeOrder), StartPhase("upgrade", k) PROVE OneTask'
  BY <1>2 DEF StartPhase, OneTask
<1>3. CASE StartPhase("apply", 1)
  BY <1>3 DEF StartPhase, OneTask
<1>4. CASE StartHandler
  BY <1>2, <1>3, <1>4, OrderIs DEF StartHandler
<1>5. CASE NextPhase
  <2>1. cur \in 1..Len(UpgradeOrder)
    BY <1>5 DEF NextPhase, OneTask
  <2>2. cur < Len(UpgradeOrder) => cur + 1 \in 1..Len(UpgradeOrder)
    BY <2>1, OrderIs
  <2> QED BY <1>2, <1>3, <1>5, <2>2 DEF NextPhase
<1>6. CASE RetryRound
  BY <1>6 DEF RetryRound, OneTask, handler
<1>7. CASE HandlerDone \/ Crash
  BY <1>7 DEF HandlerDone, Crash, OneTask
<1>8. ASSUME NEW s \in Services, Task(s) \/ TaskFault(s) PROVE OneTask'
  <2>1. /\ UNCHANGED handler /\ pc[s] # "off" /\ \A t \in Services : t # s => Rests(t)
    BY <1>8, TaskFrame
  <2> QED BY <2>1 DEF OneTask, handler, Rests
<1>9. CASE \/ UNCHANGED vars \/ Change \/ OrphanAcquires \/ \E r \in Releases : Starts(r)
           \/ \E p \in late : LateFinishes(p)
  BY <1>1, <1>9 DEF vars, Change, OrphanAcquires, Starts, LateFinishes, handler, task
<1> QED BY <1>4, <1>5, <1>6, <1>7, <1>8, <1>9 DEF Next, Handler

\* A change of the deployment: no version in play is the new one.
LEMMA ChangeOrdered ==
  ASSUME Sound, Bounded, Change
  PROVE  Bounded' /\ \A s \in Upgradable : Ordered(s)'
<1>1. /\ want' = want + 1 /\ want \in Nat /\ UNCHANGED <<rel, late, cmd, pc>>
  BY ValuesOf DEF Change, Sound, TasksOK, cluster, helm, task
<1>2. \A r \in Releases : InPlay(r)' = InPlay(r)
  BY <1>1 DEF InPlay, Live, Commanded, Commanding, Busy
<1>3. ASSUME NEW r \in Releases, NEW v \in InPlay(r), NEW o \in Objects
      PROVE  v[o] <= want' /\ v[o] # want'
  <2>1. v[o] \in Nat /\ v[o] <= want
    BY <1>3, LiveValues DEF Sound, Values, Bounded
  <2> QED BY <1>1, <2>1
<1>4. \A s \in Upgradable : MainRelease[s] \in Releases
  BY OrderIs, ReleaseAssumption
<1>5. "server" \in Objects /\ "contract" \in Objects
  BY DEF Objects, Jobs
<1> QED BY <1>2, <1>3, <1>4, <1>5 DEF Bounded, Ordered

\* Past what _upgrade enables, the schema change is behind the service.
LEMMA PastMap ==
  ASSUME upgradeMap \in UpgradeMaps, NEW s, step[s] \in Nat, ~(step[s] <= Len(upgradeMap)),
         step[s] >= 2 => Prepared(s), step[s] >= 3 => Stripped(s)
  PROVE  Done(s)
<1>1. step[s] >= 2 /\ (Len(upgradeMap) = 3 => step[s] >= 3)
  BY MapShape
<1>2. Stripped(s)
  BY <1>1, MapShape DEF Stripped
<1> QED BY <1>1, <1>2 DEF Done

\* What an upgrade enables comes in order.
LEMMA EnablesInOrder ==
  ASSUME TasksOK, phase = "upgrade", NEW s \in Services, Position(s)
  PROVE  MayEnable(s)
<1>1. pc[s] = "install" => Done(s)
  BY DEF Position, Setting, Runs, Commanding
<1>2. ASSUME GetValues(s)
      PROVE  /\ Child(s).obj = "server" => Prepared(s)
             /\ Child(s).obj = "contract" => Stripped(s)
  <2>1. pc[s] = "get" /\ (step[s] <= Len(upgradeMap) => Child(s).obj = upgradeMap[step[s]].obj)
    BY <1>2, Lists DEF GetValues, Child
  <2>2. /\ step[s] \in Nat \ {0}
        /\ step[s] >= 2 => Prepared(s)
        /\ step[s] >= 3 => Stripped(s)
    BY <2>1 DEF Position, Setting, TasksOK
  <2>3. CASE step[s] <= Len(upgradeMap)
    <3>1. step[s] \in {1, 2, 3}
      BY <2>2, <2>3, MapShape DEF TasksOK
    <3> QED BY <2>1, <2>2, <2>3, <3>1, MapShape DEF TasksOK
  <2>4. CASE ~(step[s] <= Len(upgradeMap))
    BY <2>2, <2>4, PastMap DEF TasksOK, Done
  <2> QED BY <2>3, <2>4
<1> QED BY <1>1, <1>2 DEF MayEnable

\* The task goes on, with what it has behind it.
Behind(s) ==
  /\ Prepared(s) => Prepared(s)'
  /\ Stripped(s) => Stripped(s)'
  /\ want' = want /\ upgradeMap' = upgradeMap

\* An object is ready with its new version.
LEMMA CheckPosition ==
  ASSUME Sound, JobsSynced, phase = "upgrade", NEW s \in Upgradable, Position(s), Behind(s), Check(s)
  PROVE  Position(s)'
<1> DEFINE r == MainRelease[s]
           o == upgradeMap[step[s]].obj
<1>1. /\ s \in Services /\ r \in Releases /\ r \in Available[s]
      /\ \A t \in Services : t # s => Available[s] \cap Available[t] = {}
  BY OrderIs, Own DEF Sound, TasksOK
<1>2. /\ pc[s] = "check" /\ ~Commanding(s) /\ Setting(s)
      /\ UNCHANGED <<cmd, rel, synced, objs, outlived>>
  BY DEF Check, Commanding, Setting, cluster, helm
<1>3. /\ step[s] \in Nat \ {0}
      /\ step[s] >= 2 => Prepared(s)
      /\ step[s] >= 3 => Stripped(s)
      /\ ~Busy(r) /\ (step[s] <= Len(upgradeMap) => rel[r].values[o] = want)
  BY <1>1, <1>2 DEF Position, Sound, TasksOK
<1>4. Len(upgradeMap) \in 1..3 /\ (~(step[s] <= Len(upgradeMap)) => Done(s))
  BY <1>3, MapShape, PastMap DEF Sound, TasksOK
<1>5. CASE pc'[s] = "get"
  <2>1. step'[s] = step[s]
    BY <1>1, <1>5 DEF Check, Goto, Sound, TasksOK
  <2>2. ~Runs(s, "set")' /\ Setting(s)'
    BY <1>5 DEF Runs, Commanding, Setting
  <2> QED BY <1>3, <1>5, <2>1, <2>2 DEF Position, Behind
<1>6. CASE pc'[s] # "get"
  <2>1. /\ pc'[s] = "enable" /\ step'[s] = step[s] + 1
        /\ step[s] <= Len(upgradeMap) => objs[r][o].state = "up" /\ objs[r][o].ver = want
    <3>1. Child(s).rel = r /\ (step[s] <= Len(upgradeMap) => Child(s).obj = o)
      BY <1>1, Lists DEF Sound, Child
    <3> QED BY <1>1, <1>6, <3>1 DEF Check, Goto, Sound, TasksOK, NeedApply
  <2>2. step[s] = 1 => Prepared(s)
    BY <1>1, <1>4, <2>1, MapShape DEF JobsSynced, Prepared, Sound, TasksOK
  <2>3. step[s] = 2 /\ 2 <= Len(upgradeMap) => ServerUp(s)
    <3> SUFFICES ASSUME step[s] = 2, 2 <= Len(upgradeMap) PROVE ServerUp(s)
      OBVIOUS
    <3>1. o = "server"
      BY <1>3, MapShape DEF Sound, TasksOK
    <3>2. \A t \in Services : ~(Commanding(t) /\ cmd[t].rel = r)
      BY <1>1, <1>2 DEF Sound, CommandsOK, CommandOK
    <3>3. Live(r) = {rel[r].values}
      BY <1>3, <3>2 DEF Live, Commanded
    <3> QED BY <1>3, <2>1, <3>1, <3>3 DEF ServerUp
  <2>4. /\ step'[s] >= 2 => Prepared(s)'
        /\ step'[s] >= 3 => Stripped(s)'
    BY <1>3, <1>4, <2>1, <2>2, <2>3 DEF Behind, Stripped, Done
  <2>5. ~Runs(s, "set")' /\ Setting(s)'
    BY <2>1 DEF Runs, Commanding, Setting
  <2> QED BY <2>1, <2>4, <2>5 DEF Position
<1> QED BY <1>5, <1>6

\* Values are read and set.
LEMMA GetPosition ==
  ASSUME Sound, phase = "upgrade", NEW s \in Upgradable, Position(s), Behind(s), GetValues(s)
  PROVE  Position(s)'
<1> DEFINE r == MainRelease[s]
           o == upgradeMap[step[s]].obj
           v == [Latest(r) EXCEPT ![Child(s).obj] = want]
<1>1. s \in Services /\ r \in Releases
  BY OrderIs, Own DEF Sound, TasksOK
<1>2. /\ pc[s] = "get" /\ Setting(s) /\ step' = step /\ step[s] \in Nat \ {0}
  BY <1>1 DEF GetValues, Setting, Sound, TasksOK
<1>3. /\ step[s] >= 2 => Prepared(s)
      /\ step[s] >= 3 => Stripped(s)
  BY <1>2 DEF Position
<1>4. CASE pc'[s] = "failed"
  BY <1>4 DEF Position, Setting, Runs, Commanding
<1>5. CASE pc'[s] # "failed"
  <2>1. pc'[s] = "lock" /\ cmd'[s] = [op |-> "set", rel |-> r, values |-> v]
    BY <1>1, <1>5 DEF GetValues, RunCmd, Goto, Failed, Child, Sound, TasksOK
  <2>2. ASSUME step[s] <= Len(upgradeMap) PROVE v[o] = want
    <3>0. Child(s).obj = o
      BY <1>1, <2>2, Lists DEF Child, Sound
    <3>1. step[s] \in {1, 2, 3}
      BY <1>2, <2>2, MapShape DEF Sound, TasksOK
    <3>2. o \in Objects
      BY <2>2, <3>1, MapShape DEF Sound, TasksOK, Objects, Jobs
    <3>3. Latest(r) \in Values
      BY <1>1 DEF Latest, Sound, ClusterOK, Records
    <3> QED BY <3>0, <3>2, <3>3 DEF Values
  <2> HIDE DEF v
  <2>3. cmd'[s].op = "set" /\ cmd'[s].rel = r /\ cmd'[s].values = v
    BY <2>1
  <2>4. Setting(s)' /\ Runs(s, "set")'
    BY <2>1, <2>3 DEF Setting, Runs, Commanding
  <2>5. step'[s] <= Len(upgradeMap') => cmd'[s].values[upgradeMap'[step'[s]].obj] = want'
    BY <1>2, <2>2, <2>3 DEF Behind
  <2> QED BY <1>2, <1>3, <2>1, <2>3, <2>4, <2>5 DEF Position, Behind
<1> QED BY <1>4, <1>5

\* A command goes on, or succeeds.
LEMMA CommandPosition ==
  ASSUME Sound, phase = "upgrade", NEW s \in Upgradable, Position(s), Behind(s),
         \/ Acquire(s) \/ Process(s) \/ Rollback(s) \/ GuessAndDelete(s) \/ CmdTimesOut(s)
         \/ Succeeds(s)
  PROVE  Position(s)'
<1>1. s \in Services /\ MainRelease[s] \in Releases
  BY OrderIs, Own DEF Sound, TasksOK
<1>2. /\ Commanding(s) /\ step' = step /\ cmd' = cmd
  BY DEF Acquire, Process, Rollback, GuessAndDelete, CmdTimesOut, Succeeds, Commanding, task
<1>3. pc[s] \notin {"healthy", "failed", "enable", "get", "check"}
  BY <1>2 DEF Commanding
<1>4. Setting(s) <=> cmd[s].op = "set"
  BY <1>2, <1>3 DEF Setting, Runs
<1>5. CASE ~Succeeds(s)
  <2>1. Commanding(s)' /\ pc'[s] \notin {"off", "healthy", "failed", "enable", "get", "check"}
    BY <1>1, <1>2, <1>5 DEF Acquire, Process, Rollback, GuessAndDelete, CmdTimesOut, Goto,
                            Commanding, task, Sound, TasksOK
  <2>2. (Setting(s)' <=> cmd[s].op = "set") /\ (Runs(s, "set")' <=> cmd[s].op = "set")
    BY <1>2, <2>1 DEF Setting, Runs
  <2> QED BY <1>2, <1>3, <1>4, <2>1, <2>2 DEF Position, Behind, Done, Runs
<1>6. CASE Succeeds(s)
  <2>1. pc'[s] = Return(s)
    BY <1>1, <1>6 DEF Succeeds, Goto, Sound, TasksOK
  <2>2. CASE cmd[s].op = "set"
    <3>1. pc'[s] = "check" /\ Setting(s)' /\ ~Runs(s, "set")'
      BY <2>1, <2>2 DEF Return, Setting, Runs, Commanding
    <3>2. /\ Setting(s) /\ Runs(s, "set") /\ cmd[s].rel = MainRelease[s]
          /\ step[s] <= Len(upgradeMap) => cmd[s].values[upgradeMap[step[s]].obj] = want
      BY <1>2, <1>4, <2>2 DEF Position, Runs
    <3>3. rel'[MainRelease[s]] = [state |-> "deployed", values |-> cmd[s].values, next |-> Off]
      BY <1>1, <1>6, <2>2, <3>2 DEF Succeeds, Sound, ClusterOK
    <3>4. ~Busy(MainRelease[s])' /\ rel'[MainRelease[s]].values = cmd[s].values
      BY <3>3 DEF Busy
    <3> QED BY <1>2, <1>3, <3>1, <3>2, <3>4 DEF Position, Behind
  <2>3. CASE cmd[s].op # "set"
    <3>1. pc'[s] \in {"install", "prune", "delete"}
      BY <1>1, <1>2, <2>1, <2>3 DEF Return, Sound, CommandsOK, CommandOK
    <3>2. ~Setting(s)' /\ ~Runs(s, "set")'
      BY <3>1 DEF Setting, Runs, Commanding
    <3> QED BY <1>3, <1>4, <2>3, <3>1, <3>2 DEF Position, Behind, Done
  <2> QED BY <2>2, <2>3
<1> QED BY <1>5, <1>6

\* The steps of apply, after what an upgrade enables.
LEMMA ApplyPosition ==
  ASSUME Sound, phase = "upgrade", NEW s \in Upgradable, Position(s), Behind(s),
         \/ Apply(s) \/ CleanupImmutable(s) \/ Install(s) \/ Prune(s) \/ UpgradeDone(s)
         \/ Delete(s)
  PROVE  Position(s)'
<1>1. s \in Services
  BY OrderIs
<1>2. Done(s)
  <2>1. pc[s] \in {"apply", "cleanup", "install", "prune", "after", "delete"}
    BY DEF Apply, CleanupImmutable, Install, Prune, UpgradeDone, Delete
  <2> QED BY <2>1 DEF Position, Setting, Runs, Commanding
<1>3. \/ pc'[s] \in {"cleanup", "install", "prune", "after", "ended"}
      \/ pc'[s] = "lock" /\ cmd'[s].op \in {"install", "delete"}
  <2>1. CASE Apply(s) \/ CleanupImmutable(s) \/ UpgradeDone(s)
    BY <1>1, <2>1 DEF Apply, CleanupImmutable, UpgradeDone, Goto, Sound, TasksOK
  <2>2. CASE Install(s)
    BY <1>1, <2>2 DEF Install, RunCmd, Goto, Sound, TasksOK
  <2>3. CASE Prune(s)
    BY <1>1, <2>3 DEF Prune, HelmDelete, RunCmd, Goto, Sound, TasksOK
  <2>4. CASE Delete(s)
    BY <1>1, <2>4 DEF Delete, HelmDelete, RunCmd, Goto, Sound, TasksOK
  <2> QED BY <2>1, <2>2, <2>3, <2>4
<1>4. ~Setting(s)' /\ ~Runs(s, "set")'
  BY <1>3 DEF Setting, Runs, Commanding
<1> QED BY <1>2, <1>3, <1>4 DEF Position, Behind, Done

\* Every step of the task.
LEMMA OwnPosition ==
  ASSUME Sound, JobsSynced, phase = "upgrade", NEW s \in Upgradable, Position(s), Behind(s),
         Task(s) \/ TaskFault(s)
  PROVE  Position(s)'
<1>1. s \in Services /\ step[s] \in Nat \ {0}
  BY OrderIs DEF Sound, TasksOK
<1>2. CASE WaitHealthy(s)
  <2>1. pc'[s] = "enable" /\ step'[s] = 1
    BY <1>1, <1>2 DEF WaitHealthy, Goto, Position, Sound, TasksOK
  <2>2. Setting(s)' /\ ~Runs(s, "set")'
    BY <2>1 DEF Setting, Runs, Commanding
  <2> QED BY <2>1, <2>2 DEF Position
<1>3. CASE EnableNext(s)
  <2>1. /\ pc[s] = "enable"
        /\ \/ pc'[s] = "get" /\ step'[s] = step[s]
           \/ pc'[s] = "enable" /\ step'[s] = step[s] + 1 /\ step[s] > Len(Forced)
    BY <1>1, <1>3 DEF EnableNext, Goto, Sound, TasksOK
  <2>2. Setting(s) /\ Setting(s)' /\ ~Runs(s, "set")'
    BY <2>1 DEF Setting, Runs, Commanding
  <2>3. /\ step[s] >= 2 => Prepared(s)
        /\ step[s] >= 3 => Stripped(s)
    BY <2>2 DEF Position
  <2>4. step'[s] # step[s] => Done(s)
    <3>1. step'[s] # step[s] => step[s] > Len(upgradeMap) /\ Len(upgradeMap) \in Nat
      BY <1>1, <2>1, Lists, MapShape DEF Sound, TasksOK
    <3> QED BY <1>1, <2>3, <3>1, PastMap DEF Sound, TasksOK
  <2> QED BY <2>1, <2>2, <2>3, <2>4 DEF Position, Behind, Done
<1>4. CASE EnableDone(s)
  <2>1. pc[s] = "enable" /\ pc'[s] = "apply" /\ step[s] > Len(EnableList(s))
    BY <1>1, <1>4 DEF EnableDone, Goto, Sound, TasksOK
  <2>2. Setting(s) /\ ~Setting(s)' /\ ~Runs(s, "set")'
    BY <2>1 DEF Setting, Runs, Commanding
  <2>3. /\ step[s] >= 2 => Prepared(s)
        /\ step[s] >= 3 => Stripped(s)
    BY <2>2 DEF Position
  <2>4. ~(step[s] <= Len(upgradeMap))
    <3>1. Len(EnableList(s)) >= Len(upgradeMap) /\ Len(EnableList(s)) \in Nat /\ Len(upgradeMap) \in Nat
      BY <1>1, Lists DEF Sound
    <3> QED BY <1>1, <2>1, <3>1
  <2>5. Done(s)
    BY <1>1, <2>3, <2>4, PastMap DEF Sound, TasksOK
  <2> QED BY <2>1, <2>2, <2>5 DEF Position, Behind, Done
<1>5. CASE CmdFails(s) \/ EnableTimesOut(s) \/ HealthTimesOut(s)
  <2>1. pc'[s] = "failed"
    BY <1>1, <1>5 DEF CmdFails, EnableTimesOut, HealthTimesOut, Failed, Goto, Sound, TasksOK
  <2> QED BY <2>1 DEF Position, Setting, Runs, Commanding
<1> QED BY <1>2, <1>3, <1>4, <1>5, CheckPosition, GetPosition, CommandPosition, ApplyPosition
        DEF Task, TaskFault

\* What happens in the cluster meanwhile.
LEMMA RestPosition ==
  ASSUME Sound, NEW s \in Upgradable, Position(s), Behind(s), UNCHANGED task,
         \/ rel' = rel \/ \E p \in late : LateFinishes(p)
  PROVE  Position(s)'
<1> DEFINE r == MainRelease[s]
<1>1. s \in Services /\ r \in Releases
  BY OrderIs, Own DEF Sound, TasksOK
<1>2. ~Busy(r) => rel'[r] = rel[r]
  <2> SUFFICES ASSUME ~Busy(r), NEW p \in late, LateFinishes(p) PROVE rel'[r] = rel[r]
    OBVIOUS
  <2>1. p.rel \in Releases
    BY DEF Sound, ClusterOK
  <2>2. p.rel = r => rel' = rel
    BY DEF LateFinishes, Busy
  <2>3. p.rel # r => rel'[r] = rel[r]
    BY <1>1, <2>1 DEF LateFinishes, Sound, ClusterOK
  <2> QED BY <2>2, <2>3
<1>3. UNCHANGED <<pc, step, cmd>>
  BY DEF task
<1>4. (Setting(s)' <=> Setting(s)) /\ (Runs(s, "set")' <=> Runs(s, "set"))
  BY <1>3 DEF Setting, Runs, Commanding
<1>5. ~Busy(r) => ~Busy(r)'
  BY <1>2 DEF Busy
<1> QED BY <1>2, <1>3, <1>4, <1>5 DEF Position, Behind, Done
-----------------------------------------------------------------------------
\* The first installation.
LEMMA SchemaInit == Init => SchemaInv
<1> SUFFICES ASSUME Init PROVE SchemaInv
  OBVIOUS
<1>1. InstallInv /\ want = 1 /\ late = {}
  BY InstallInit DEF Init
<1>2. \A s \in Services : ~Commanding(s)
  BY DEF Init, Commanding
<1>3. Bounded
  <2> SUFFICES ASSUME NEW r \in Releases, NEW v \in InPlay(r), NEW o \in Objects PROVE v[o] <= 1
    BY <1>1 DEF Bounded
  <2>1. rel[r] \in {[state |-> "deployed", values |-> All(1), next |-> Off],
                    [state |-> "none", values |-> Off, next |-> Off]}
    BY DEF Init
  <2>2. ~Busy(r) /\ rel[r].values \in {All(1), Off}
    BY <2>1 DEF Busy
  <2>3. v \in {All(1), Off}
    BY <1>1, <1>2, <2>2, LiveIs
  <2> QED BY <2>3 DEF All, Off
<1>4. JobsSynced
  <2>1. synced \in [Releases -> SUBSET Nat]
    BY DEF Init
  <2>2. ASSUME NEW r \in Releases, objs[r]["job"].state = "up"
        PROVE  objs[r]["job"].ver \in synced[r]
    <3>1. objs[r]["job"] = IF r \in Installed THEN [ver |-> 1, state |-> "up"] ELSE Absent
      BY DEF Init, Objects, Jobs
    <3>2. Absent.state = "none"
      BY DEF Absent
    <3>3. r \in Installed /\ objs[r]["job"].ver = 1
      BY <2>2, <3>1, <3>2
    <3> QED BY <3>3 DEF Init
  <2> QED BY <2>1, <2>2 DEF JobsSynced
<1>5. OneTask /\ UpgradeInv
  BY DEF Init, OneTask, UpgradeInv
<1> QED BY <1>3, <1>4, <1>5 DEF SchemaInv

\* Nothing but a change of the deployment starts an upgrade.
LEMMA SameDeployment ==
  ASSUME TasksOK, [Next]_vars, ~Change PROVE UNCHANGED <<want, kind, upgradeMap>>
<1>1. CASE UNCHANGED vars \/ OrphanAcquires \/ Crash \/ \E r \in Releases : Starts(r)
  BY <1>1 DEF vars, OrphanAcquires, Crash, Starts, handler
<1>2. CASE Handler \/ \E p \in late : LateFinishes(p)
  BY <1>2 DEF Handler, StartHandler, StartPhase, RetryRound, NextPhase, HandlerDone,
              LateFinishes, handler
<1>3. ASSUME NEW s \in Services, Task(s) \/ TaskFault(s)
      PROVE  UNCHANGED <<want, kind, upgradeMap>>
  BY <1>3, TaskFrame DEF handler
<1> QED BY <1>1, <1>2, <1>3 DEF Next

\* The position in an upgrade.
Reached ==
  /\ phase = "upgrade" => /\ \A k \in 1..(cur - 1) : Done(UpgradeOrder[k])
                          /\ Position(UpgradeOrder[cur])
  /\ phase = "apply" => \A s \in Upgradable : Done(s)

\* A service has its turn.
LEMMA TurnBegins ==
  ASSUME TasksOK, NEW k \in 1..Len(UpgradeOrder), StartPhase("upgrade", k)
  PROVE  Position(UpgradeOrder[k])'
<1>1. UpgradeOrder[k] \in Services
  BY OrderIs
<1>2. pc'[UpgradeOrder[k]] = "healthy" /\ step'[UpgradeOrder[k]] = 1
  BY <1>1 DEF StartPhase, First
<1> QED BY <1>2 DEF Position, Setting, Runs, Commanding

\* The upgrade goes on from service to service.
LEMMA ReachedStep ==
  ASSUME MainStays, InstallInv, Sound, JobsSynced, OneTask, kind = "upgrade", Reached,
         [Next]_vars, UNCHANGED <<want, kind, upgradeMap>>
  PROVE  Reached'
<1>1. \A s \in Upgradable : Behind(s) /\ (Done(s) => Done(s)')
  BY OrderIs, PreparedStays, StrippedStays DEF Behind, Done
<1>2. phase = "upgrade" => /\ cur \in 1..Len(UpgradeOrder) /\ UpgradeOrder[cur] \in Upgradable
                           /\ \A k \in 1..(cur - 1) : UpgradeOrder[k] \in Upgradable
  BY OrderIs DEF OneTask
<1>3. ASSUME UNCHANGED <<phase, cur>>,
             phase = "upgrade" => Position(UpgradeOrder[cur])'
      PROVE  Reached'
  BY <1>1, <1>2, <1>3 DEF Reached
<1>4. CASE StartHandler
  <2>1. CASE UpgradeOrder # <<>>
    <3>1. StartPhase("upgrade", 1) /\ 1 \in 1..Len(UpgradeOrder)
      BY <1>4, <2>1, OrderIs DEF StartHandler
    <3>2. phase' = "upgrade" /\ cur' = 1 /\ Position(UpgradeOrder[1])'
      BY <3>1, TurnBegins DEF StartPhase, Sound
    <3>3. 1..(cur' - 1) = {}
      BY <3>2
    <3> QED BY <3>2, <3>3 DEF Reached
  <2>2. CASE UpgradeOrder = <<>>
    <3>1. Upgradable = {}
      BY <2>2 DEF Upgradable
    <3>2. phase' = "apply"
      BY <1>4, <2>2 DEF StartHandler, StartPhase
    <3> QED BY <3>1, <3>2 DEF Reached
  <2> QED BY <2>1, <2>2
<1>5. CASE NextPhase
  <2>1. phase = "upgrade" /\ Done(UpgradeOrder[cur])
    <3>1. phase = "upgrade" /\ pc[UpgradeOrder[cur]] \in {"off", "ended"}
      BY <1>2, <1>5, OrderIs DEF NextPhase, Ended
    <3> QED BY <3>1 DEF Reached, Position, Setting, Runs, Commanding
  <2>2. \A k \in 1..cur : Done(UpgradeOrder[k])'
    BY <1>1, <1>2, <2>1 DEF Reached
  <2>3. CASE cur < Len(UpgradeOrder)
    <3>1. StartPhase("upgrade", cur + 1) /\ cur + 1 \in 1..Len(UpgradeOrder)
      BY <1>2, <1>5, <2>1, <2>3, OrderIs DEF NextPhase
    <3>2. phase' = "upgrade" /\ cur' = cur + 1
      BY <3>1 DEF StartPhase
    <3>3. ASSUME NEW k \in 1..Len(UpgradeOrder), k = cur + 1 PROVE Position(UpgradeOrder[k])'
      BY <3>1, <3>3, TurnBegins DEF Sound
    <3>4. PICK k \in 1..Len(UpgradeOrder) : k = cur + 1
      BY <3>1
    <3>5. Position(UpgradeOrder[k])' /\ cur' = k /\ 1..(k - 1) = 1..cur
      BY <1>2, <2>1, <3>2, <3>3, <3>4
    <3> QED BY <2>2, <3>2, <3>5 DEF Reached
  <2>4. CASE ~(cur < Len(UpgradeOrder))
    <3>1. phase' = "apply" /\ cur = Len(UpgradeOrder)
      BY <1>2, <1>5, <2>1, <2>4, OrderIs DEF NextPhase, StartPhase
    <3>2. \A s \in Upgradable : \E k \in 1..cur : s = UpgradeOrder[k]
      BY <3>1, OrderIs DEF Upgradable
    <3>3. \A s \in Upgradable : Done(s)
      BY <1>2, <2>1, <3>2 DEF Reached
    <3> QED BY <1>1, <3>1, <3>3 DEF Reached
  <2> QED BY <2>3, <2>4
<1>6. CASE RetryRound
  <2>1. UNCHANGED <<phase, cur, cmd, rel>> /\ step' = [s \in Services |-> 1]
    BY <1>6 DEF RetryRound, handler, cluster
  <2>2. ASSUME phase = "upgrade", NEW s \in Upgradable, s = UpgradeOrder[cur]
        PROVE  Position(s)'
    <3>1. s \in Services /\ Position(s) /\ pc[s] \in {"ended", "failed"}
      BY <1>6, <2>2, OrderIs DEF Reached, RetryRound, Ended, Position
    <3>2. pc'[s] = IF pc[s] = "failed" THEN "healthy" ELSE "ended"
      BY <1>6, <2>2, <3>1 DEF RetryRound, First
    <3>3. pc[s] = "ended" => Done(s)
      BY <3>1 DEF Position, Setting, Runs, Commanding
    <3> QED BY <1>1, <2>1, <3>1, <3>2, <3>3 DEF Position, Setting, Runs, Commanding
  <2>3. phase = "upgrade" => Position(UpgradeOrder[cur])'
    <3> SUFFICES ASSUME phase = "upgrade" PROVE Position(UpgradeOrder[cur])'
      OBVIOUS
    <3>1. PICK s \in Upgradable : s = UpgradeOrder[cur]
      BY <1>2
    <3> QED BY <2>1, <2>2, <3>1
  <2> QED BY <1>3, <2>1, <2>3
<1>7. CASE HandlerDone \/ Crash
  BY <1>7 DEF HandlerDone, Crash, Reached
<1>8. ASSUME NEW t \in Services, Task(t) \/ TaskFault(t) PROVE Reached'
  <2>1. UNCHANGED handler /\ pc[t] # "off"
    BY <1>8, TaskFrame DEF Sound
  <2>2. ASSUME phase = "upgrade", NEW s \in Upgradable, s = UpgradeOrder[cur]
        PROVE  Position(s)'
    <3>1. t = s /\ Position(s) /\ Behind(s)
      BY <1>1, <2>1, <2>2 DEF OneTask, Reached
    <3> QED BY <1>8, <2>2, <3>1, OwnPosition
  <2>3. phase = "upgrade" => Position(UpgradeOrder[cur])'
    <3> SUFFICES ASSUME phase = "upgrade" PROVE Position(UpgradeOrder[cur])'
      OBVIOUS
    <3>1. PICK s \in Upgradable : s = UpgradeOrder[cur]
      BY <1>2
    <3> QED BY <2>1, <2>2, <3>1 DEF handler
  <2> QED BY <1>3, <2>1, <2>3 DEF handler
<1>9. CASE \/ UNCHANGED vars \/ Change \/ OrphanAcquires \/ \E r \in Releases : Starts(r)
           \/ \E p \in late : LateFinishes(p)
  <2>1. /\ UNCHANGED <<phase, cur, task>>
        /\ rel' = rel \/ \E p \in late : LateFinishes(p)
    BY <1>9 DEF vars, Change, OrphanAcquires, Starts, LateFinishes, handler, task, cluster
  <2>2. ASSUME phase = "upgrade", NEW s \in Upgradable, s = UpgradeOrder[cur]
        PROVE  Position(s)'
    BY <1>1, <2>1, <2>2, RestPosition DEF Reached
  <2>3. phase = "upgrade" => Position(UpgradeOrder[cur])'
    <3> SUFFICES ASSUME phase = "upgrade" PROVE Position(UpgradeOrder[cur])'
      OBVIOUS
    <3>1. PICK s \in Upgradable : s = UpgradeOrder[cur]
      BY <1>2
    <3> QED BY <2>1, <2>2, <3>1
  <2> QED BY <1>3, <2>1, <2>3
<1> QED BY <1>4, <1>5, <1>6, <1>7, <1>8, <1>9 DEF Next, Handler

\* The invariant behind SchemaOrder.
LEMMA SchemaNext ==
  MainStays /\ InstallInv /\ SchemaInv /\ [Next]_vars => SchemaInv'
<1> SUFFICES ASSUME MainStays, InstallInv, SchemaInv, [Next]_vars PROVE SchemaInv'
  OBVIOUS
<1>1. /\ Sound /\ TasksOK /\ PhaseOK /\ Bounded /\ JobsSynced /\ OneTask /\ UpgradeInv
  BY DEF InstallInv, SchemaInv, Sound, JobsSynced
<1>2. JobsSynced' /\ OneTask'
  BY <1>1, JobsStep, OneTaskStep
<1>3. CASE Change
  <2>1. Bounded' /\ \A s \in Upgradable : Ordered(s)'
    BY <1>1, <1>3, ChangeOrdered
  <2>2. phase' = "idle"
    BY <1>3 DEF Change
  <2>3. UpgradeInv'
    BY <2>1, <2>2 DEF UpgradeInv
  <2> QED BY <1>2, <2>1, <2>3 DEF SchemaInv
<1>4. CASE ~Change
  <2>1. UNCHANGED <<want, kind, upgradeMap>>
    BY <1>1, <1>4, SameDeployment
  <2>2. Bounded'
    BY <1>1, <2>1, BoundedStep
  <2>3. CASE kind = "upgrade"
    <3>1. Reached /\ \A s \in Upgradable : Ordered(s)
      BY <1>1, <2>3 DEF UpgradeInv, Reached
    <3>2. Reached'
      BY <1>1, <2>1, <2>3, <3>1, ReachedStep
    <3>3. \A s \in Upgradable : MayEnable(s)
      <4> SUFFICES ASSUME NEW s \in Upgradable PROVE MayEnable(s)
        OBVIOUS
      <4>1. s \in Services
        BY OrderIs
      <4>2. CASE pc[s] = "off"
        BY <4>2 DEF MayEnable, GetValues
      <4>3. CASE phase = "apply"
        BY <3>1, <4>3 DEF MayEnable, Reached, Done
      <4>4. CASE phase = "upgrade" /\ s = UpgradeOrder[cur]
        <5>1. Position(s)
          BY <3>1, <4>4 DEF Reached
        <5> QED BY <1>1, <4>1, <4>4, <5>1, EnablesInOrder
      <4> QED BY <1>1, <4>1, <4>2, <4>3, <4>4 DEF OneTask, PhaseOK
    <3>4. \A s \in Upgradable : Ordered(s)'
      BY <1>1, <2>1, <3>1, <3>3, OrderedStays
    <3>5. UpgradeInv'
      BY <3>2, <3>4 DEF UpgradeInv, Reached
    <3> QED BY <1>2, <2>2, <3>5 DEF SchemaInv
  <2>4. CASE kind # "upgrade"
    BY <1>2, <2>1, <2>2, <2>4 DEF SchemaInv, UpgradeInv
  <2> QED BY <2>3, <2>4
<1> QED BY <1>3, <1>4

\* For any services, releases, versions and numbers of failures, timeouts and
\* crashes, provided that the services of the upgrade order keep the release of
\* their chart: no server gets the new version before the database is prepared
\* for it, and the database is not stripped while an old server is there.
THEOREM SchemaIsKept == ASSUME MainStays PROVE Spec => SchemaOrder
<1> DEFINE A == kind = "upgrade" /\ ~outlived => \A k \in DOMAIN UpgradeOrder :
       LET r == MainRelease[UpgradeOrder[k]]
           gets(o) == objs[r][o].ver # want /\ objs'[r][o].ver = want
           enables(o) == \E i \in DOMAIN upgradeMap : upgradeMap[i].obj = o
       IN  /\ gets("server") => want \in synced[r]
           /\ gets("contract") /\ enables("contract") => objs[r]["server"].ver = want
<1>1. ASSUME InstallInv, SchemaInv, [Next]_vars PROVE A
  <2> SUFFICES ASSUME kind = "upgrade", ~outlived, NEW s \in Upgradable,
                      NEW r \in Releases, r = MainRelease[s]
               PROVE  /\ objs[r]["server"].ver # want /\ objs'[r]["server"].ver = want =>
                           want \in synced[r]
                      /\ /\ objs[r]["contract"].ver # want /\ objs'[r]["contract"].ver = want
                         /\ Enables("contract")
                         => objs[r]["server"].ver = want
    <3>1. \A k \in DOMAIN UpgradeOrder : /\ UpgradeOrder[k] \in Upgradable
                                         /\ MainRelease[UpgradeOrder[k]] \in Releases
      BY ReleaseAssumption, OrderIs
    <3> QED BY <3>1 DEF Enables
  <2>1. Sound /\ want > 0 /\ want \in Nat
    BY <1>1, ValuesOf DEF InstallInv, SchemaInv, JobsSynced, Sound, TasksOK
  <2>2. Changes(r)
    BY <1>1, <2>1, ReleaseStep DEF Sound
  <2>3. "server" \in Objects /\ "contract" \in Objects
    BY DEF Objects, Jobs
  <2>4. \A o \in Objects : objs[r][o].ver # want /\ objs'[r][o].ver = want =>
                             \E v \in InPlay(r) : v[o] = want
    BY <2>1, <2>2 DEF Changes
  <2>5. Ordered(s)
    BY <1>1 DEF SchemaInv, UpgradeInv
  <2> QED BY <2>3, <2>4, <2>5 DEF Ordered, Prepared, Stripped, ServerUp
<1>2. SchemaOrder <=> [][A]_vars
  BY DEF SchemaOrder
<1> HIDE DEF A
<1>3. InstallInv /\ SchemaInv /\ [Next]_vars => SchemaInv'
  BY SchemaNext
<1>4. InstallInv /\ SchemaInv /\ [Next]_vars => [A]_vars
  BY <1>1
<1> QED BY <1>2, <1>3, <1>4, SchemaInit, InstallInit, InstallNext, PTL DEF Spec
=============================================================================
