------------------------- MODULE HealthReportProofs -------------------------
(***************************************************************************)
(* Proofs about HealthReport: what a pass of the updater leaves in the     *)
(* report, for any objects, nodes, changes and faults.                     *)
(***************************************************************************)
EXTENDS HealthReport, TLAPS

Steps == {"wait", "list", "stale", "remove", "overall"}
Passing == upd.at # "wait"
Written == upd.at \in {"stale", "remove", "overall"}

UpdaterOK ==
  /\ obj \in [Objects -> {"absent", OK, BAD}]
  /\ DOMAIN upd = {"at", "kind", "todo", "read", "stale"}
  /\ upd.at \in Steps /\ upd.kind \in 1..4
  /\ Written => upd.kind = 4 /\ upd.todo = {}

\* The history of a pass: the states of the objects that are there.
HistoryOK ==
  /\ Passing => \A o \in Present : <<o, Status(o)>> \in was
  /\ alive \subseteq Present

\* What was read is the state of an object at some moment of the pass.
ReadFresh ==
  Passing =>
    \A i \in DOMAIN upd.read : \E o \in Objects : Id(o) = i /\ <<o, upd.read[i]>> \in was

\* Nobody changes what the updater has written; the rest of the report is stale.
WrittenKept ==
  /\ Written => \A i \in DOMAIN health \cap DOMAIN upd.read : health[i] = upd.read[i]
  /\ upd.at = "remove" => /\ DOMAIN health \subseteq DOMAIN upd.read \cup upd.stale
                          /\ upd.stale \cap DOMAIN upd.read = {}
  /\ upd.at = "overall" => DOMAIN health \subseteq DOMAIN upd.read

PassInv == UpdaterOK /\ HistoryOK /\ ReadFresh /\ WrittenKept

\* The objects of the kinds that were listed are still to be read or among what
\* was read, and stay in the report unless they are deleted.
ListedKept ==
  /\ Passing => \A o \in alive : \A k \in DOMAIN Kinds :
                  k < upd.kind /\ Meta[o].kind = Kinds[k] =>
                    o \in upd.todo \/ Id(o) \in DOMAIN upd.read
  /\ Written => \A o \in alive \ going : Id(o) \in DOMAIN health
-----------------------------------------------------------------------------
\* What everybody but the updater may do to its pass: objects change, and
\* their states are recorded.
Outside ==
  /\ UNCHANGED <<health, upd>>
  /\ obj' \in [Objects -> {"absent", OK, BAD}]
  /\ HistoryOK'
  /\ Passing => was \subseteq was'
  /\ alive' \subseteq alive /\ alive' \ going' \subseteq alive \ going

\* A change of objects, after which their states are recorded.
LEMMA Observed ==
  ASSUME UpdaterOK, HistoryOK, Observe, obj' \in [Objects -> {"absent", OK, BAD}],
         Present \subseteq Present', going \subseteq going'
  PROVE  Outside
<1>1. UNCHANGED <<health, upd, alive>>
  BY DEF Observe, updater
<1>2. Passing => was' = was \cup {<<o, Status(o)'>> : o \in Present'}
  BY DEF Observe, Passing, Present
<1>3. HistoryOK'
  BY <1>1, <1>2 DEF HistoryOK, Passing
<1> QED BY <1>1, <1>2, <1>3 DEF Outside

\* Every step of objects, nodes and pods, and the apply of an application, is
\* of this kind.
LEMMA WorldStep ==
  ASSUME UpdaterOK, HistoryOK, World \/ Settle
  PROVE  Outside
<1> USE DEF UpdaterOK
<1>1. ASSUME NEW o \in Objects, NEW s \in {OK, BAD}, SetObj(o, s) PROVE Outside
  <2>1. /\ obj' \in [Objects -> {"absent", OK, BAD}] /\ Present \subseteq Present'
        /\ going' = going
    BY <1>1 DEF SetObj, Present, OK, BAD
  <2> QED BY <1>1, <2>1, Observed DEF SetObj
<1>2. ASSUME NEW o \in Objects, Delete(o) PROVE Outside
  BY <1>2, Observed DEF Delete, Present
<1>3. ASSUME NEW ns, NEW u, NEW ol, SetPods(ns, u, ol) PROVE Outside
  BY <1>3, Observed DEF SetPods, Present
<1>4. ASSUME NEW o \in Objects, Gone(o) PROVE Outside
  <2>1. /\ obj' = [obj EXCEPT ![o] = "absent"] /\ alive' = alive \ {o}
        /\ going' = going \ {o} /\ UNCHANGED <<nodes, up, old, was, health, upd>>
    BY <1>4 DEF Gone, updater
  <2>2. Present' = Present \ {o} /\ obj' \in [Objects -> {"absent", OK, BAD}]
    BY <2>1 DEF Present
  <2>3. \A p \in Present' : Status(p)' = Status(p)
    BY <2>1, <2>2 DEF Status, DsReady, Present
  <2>4. HistoryOK'
    BY <2>1, <2>2, <2>3 DEF HistoryOK, Passing
  <2> QED BY <2>1, <2>2, <2>4 DEF Outside
<1>5. ASSUME NEW a, Apply(a) PROVE Outside
  <2>1. /\ obj' = [o \in Objects |-> IF o \in Present \ {Ds} /\ Application(o) = a
                                     THEN BAD ELSE obj[o]]
        /\ UNCHANGED <<going, alive, health, upd>>
        /\ Passing => was' = was \cup {<<o, Status(o)'>> : o \in Present}
    BY <1>5 DEF Apply, updater, Passing
  <2>2. Present' = Present /\ obj' \in [Objects -> {"absent", OK, BAD}]
    BY <2>1 DEF Present, OK, BAD
  <2>3. HistoryOK'
    BY <2>1, <2>2 DEF HistoryOK, Passing
  <2> QED BY <2>1, <2>2, <2>3 DEF Outside
<1> QED BY <1>1, <1>2, <1>3, <1>4, <1>5
        DEF World, Settle, Create, Break, Recover, AddNode, RemoveNode, Rollout, Replace,
            PodReady

\* The steps that change neither objects nor the report nor the pass.
LEMMA OtherStep ==
  ASSUME PassInv, DsHandler \/ CellSetupTimesOut \/ JobEnds \/ WaitEnds \/ UNCHANGED vars
  PROVE  Outside
<1>1. UNCHANGED <<obj, going, nodes, up, old, health, upd, alive, was>>
  BY DEF DsHandler, DsReadObject, DsReadReport, run_nova_cell_setup,
         run_octavia_create_resources, CellSetupTimesOut, JobEnds, WaitEnds, DsOther, vars,
         world, updater, history
<1>2. HistoryOK'
  BY <1>1 DEF PassInv, HistoryOK, Passing, Present, Status, DsReady
<1> QED BY <1>1, <1>2 DEF PassInv, UpdaterOK, Outside

\* What happens outside leaves what was read and written true.
LEMMA OutsideKeeps == ASSUME PassInv, Outside PROVE PassInv'
<1>1. ReadFresh'
  BY DEF PassInv, ReadFresh, Outside, Passing
<1> QED BY <1>1 DEF PassInv, UpdaterOK, Outside, WrittenKept, Written

\* A step of the updater leaves objects and their history alone, but where a
\* pass begins or ends.
LEMMA QuietKeeps ==
  ASSUME PassInv, UNCHANGED <<obj, nodes, up, old, alive, was>>, Passing PROVE HistoryOK'
BY DEF PassInv, HistoryOK, Passing, Present, Status, DsReady

\* The end of a pass.
LEMMA EndKeeps ==
  ASSUME PassInv, EndPass, obj' = obj PROVE PassInv'
<1>1. upd'.at = "wait" /\ upd'.kind = 1 /\ DOMAIN upd' = {"at", "kind", "todo", "read", "stale"}
  BY DEF EndPass, Idle
<1>2. UpdaterOK' /\ HistoryOK'
  BY <1>1 DEF PassInv, UpdaterOK, Steps, Written, HistoryOK, EndPass, Passing
<1> QED BY <1>1, <1>2 DEF PassInv, ReadFresh, WrittenKept, Passing, Written

\* A pass reads kind by kind, writes, and then removes what it has not read.
LEMMA PassStep == PassInv /\ [Next]_vars => PassInv'
<1> SUFFICES ASSUME PassInv, [Next]_vars PROVE PassInv'
  OBVIOUS
<1> USE DEF PassInv
<1>1. CASE World \/ Settle
  BY <1>1, WorldStep, OutsideKeeps
<1>2. CASE DsHandler \/ CellSetupTimesOut \/ JobEnds \/ WaitEnds \/ UNCHANGED vars
  BY <1>2, OtherStep, OutsideKeeps
<1>3. CASE StartPass
  <2>1. /\ upd'.at = "list" /\ upd'.kind = 1 /\ DOMAIN upd'.read = {}
        /\ DOMAIN upd' = {"at", "kind", "todo", "read", "stale"}
        /\ alive' = Present /\ was' = {<<o, Status(o)>> : o \in Present}
        /\ UNCHANGED <<obj, nodes, up, old, health>>
    BY <1>3 DEF StartPass, Idle, world
  <2>2. Present' = Present /\ \A o \in Present : Status(o)' = Status(o)
    BY <2>1 DEF Present, Status, DsReady
  <2>3. HistoryOK'
    BY <2>1, <2>2 DEF HistoryOK
  <2>4. UpdaterOK'
    BY <2>1 DEF UpdaterOK, Steps, Written
  <2> QED BY <2>1, <2>3, <2>4 DEF ReadFresh, WrittenKept, Written
<1>4. CASE List
  <2>1. /\ upd.at = "list" /\ upd.kind \in 1..3
        /\ upd'.at = "list" /\ upd'.kind = upd.kind + 1 /\ upd'.read = upd.read
        /\ DOMAIN upd' = DOMAIN upd
        /\ UNCHANGED <<obj, nodes, up, old, alive, was, health>>
    BY <1>4 DEF List, UpdaterOK, Kinds, Quiet, world, history
  <2>2. UpdaterOK' /\ ReadFresh'
    BY <2>1 DEF UpdaterOK, Steps, Written, ReadFresh, Passing
  <2> QED BY <2>1, <2>2, QuietKeeps DEF WrittenKept, Written, Passing
<1>10. ASSUME NEW o \in Objects, Read(o) PROVE PassInv'
  <2> DEFINE status == [i \in {Id(o)} |-> Status(o)]
  <2>1. /\ upd.at = "list" /\ upd'.at = "list" /\ upd'.kind = upd.kind
        /\ upd'.read = patched(status, upd.read) /\ DOMAIN upd' = DOMAIN upd
        /\ o \in Present
        /\ UNCHANGED <<obj, nodes, up, old, alive, was, health>>
    BY <1>10 DEF Read, UpdaterOK, Quiet, world, history
  <2>2. \A i \in DOMAIN status : Id(o) = i /\ <<o, status[i]>> \in was
    BY <2>1 DEF HistoryOK, Passing
  <2> HIDE DEF status
  <2>3. UpdaterOK'
    BY <2>1 DEF UpdaterOK, Steps, Written
  <2>4. ReadFresh'
    BY <2>1, <2>2 DEF ReadFresh, Passing, patched
  <2> QED BY <2>1, <2>3, <2>4, QuietKeeps DEF WrittenKept, Written, Passing
<1>5. CASE SetHealth
  <2>1. /\ upd.at = "list" /\ upd'.at = "stale" /\ upd'.read = upd.read
        /\ upd'.kind = upd.kind /\ upd.kind = 4 /\ upd'.todo = {}
        /\ DOMAIN upd' = DOMAIN upd
        /\ health' = patched(upd.read, health)
        /\ UNCHANGED <<obj, nodes, up, old, alive, was>>
    BY <1>5 DEF SetHealth, UpdaterOK, Kinds, Quiet, world, history
  <2>2. UpdaterOK' /\ ReadFresh'
    BY <2>1 DEF UpdaterOK, Steps, Written, ReadFresh, Passing
  <2> QED BY <2>1, <2>2, QuietKeeps DEF WrittenKept, Passing, patched
<1>6. CASE FindStale
  <2>1. /\ upd.at = "stale" /\ upd'.at = "remove" /\ upd'.read = upd.read
        /\ upd'.kind = upd.kind /\ upd'.todo = upd.todo /\ DOMAIN upd' = DOMAIN upd
        /\ upd'.stale = DOMAIN health \ DOMAIN upd.read
        /\ UNCHANGED <<obj, nodes, up, old, alive, was, health>>
    BY <1>6 DEF FindStale, UpdaterOK, Quiet, world, history
  <2>2. UpdaterOK' /\ ReadFresh'
    BY <2>1 DEF UpdaterOK, Steps, Written, ReadFresh, Passing
  <2> QED BY <2>1, <2>2, QuietKeeps DEF WrittenKept, Written, Passing
<1>7. CASE RemoveStale
  <2>1. PICK ids :
          /\ upd.at = "remove" /\ upd'.at = "overall" /\ upd'.read = upd.read
          /\ upd'.kind = upd.kind /\ upd'.todo = upd.todo /\ DOMAIN upd' = DOMAIN upd
          /\ health' = Without(upd.stale \cup ids)
          /\ UNCHANGED <<obj, nodes, up, old, alive, was>>
    BY <1>7 DEF RemoveStale, UpdaterOK, Quiet, world, history
  <2>2. UpdaterOK' /\ ReadFresh'
    BY <2>1 DEF UpdaterOK, Steps, Written, ReadFresh, Passing
  <2>3. WrittenKept'
    BY <2>1 DEF WrittenKept, Written, Without
  <2> QED BY <2>1, <2>2, <2>3, QuietKeeps DEF Passing
<1>8. CASE SetOverall \/ ReadFails \/ PassFails
  BY <1>8, EndKeeps DEF SetOverall, ReadFails, PassFails, world
<1>9. ASSUME NEW o \in Objects, DeleteHandler(o) PROVE PassInv'
  <2>1. /\ health' = Without({Id(o)})
        /\ UNCHANGED <<obj, nodes, up, old, alive, was, upd>>
    BY <1>9 DEF DeleteHandler, updater, history
  <2>2. HistoryOK' /\ UpdaterOK' /\ ReadFresh'
    BY <2>1 DEF HistoryOK, Passing, Present, Status, DsReady, UpdaterOK, Written, ReadFresh
  <2>3. WrittenKept'
    BY <2>1 DEF WrittenKept, Written, Without
  <2> QED BY <2>2, <2>3
<1> QED BY <1>1, <1>2, <1>3, <1>4, <1>5, <1>6, <1>7, <1>8, <1>9, <1>10 DEF Next, Updater

\* No pass has begun.
LEMMA PassInit == Init => PassInv
<1> SUFFICES ASSUME Init PROVE PassInv
  OBVIOUS
<1>1. upd.at = "wait" /\ upd.kind = 1 /\ DOMAIN upd = {"at", "kind", "todo", "read", "stale"}
  BY DEF Init, Idle
<1>2. UpdaterOK /\ HistoryOK
  BY <1>1 DEF Init, UpdaterOK, Steps, Written, HistoryOK, Passing
<1> QED BY <1>1, <1>2 DEF PassInv, ReadFresh, WrittenKept, Passing, Written

\* The updater's inductive invariant.
THEOREM PassCorrect == Spec => []PassInv
BY PassInit, PassStep, PTL DEF Spec

\* After every pass the report holds only components of objects that were
\* there, each with a status it had during the pass.
THEOREM PassIsFresh == Spec => []PassFresh
<1>1. PassInv => PassFresh
  BY DEF PassInv, PassFresh, ReadFresh, WrittenKept, Passing, Written
<1> QED BY <1>1, PassCorrect, PTL

-----------------------------------------------------------------------------
\* ident gives every object a component of its own.
Injective == \A o, p \in Objects : Id(o) = Id(p) => o = p

\* The objects that stay are read, written and never removed.
LEMMA ListedStep == Injective /\ PassInv /\ ListedKept /\ [Next]_vars => ListedKept'
<1> SUFFICES ASSUME Injective, PassInv, ListedKept, [Next]_vars PROVE ListedKept'
  OBVIOUS
<1>0. alive \subseteq Objects
  BY DEF PassInv, HistoryOK, Present
<1>1. CASE Outside
  BY <1>1 DEF Outside, ListedKept, Passing, Written
<1>2. CASE StartPass
  <2>1. upd'.at = "list" /\ upd'.kind = 1
    BY <1>2 DEF StartPass, Idle
  <2> QED BY <2>1 DEF ListedKept, Kinds, Written
<1>3. CASE List
  <2>1. /\ upd.at = "list" /\ upd.todo = {} /\ upd.kind \in 1..3 /\ alive' = alive
        /\ upd'.at = "list" /\ upd'.kind = upd.kind + 1 /\ upd'.read = upd.read
        /\ upd'.todo = {o \in Present : Meta[o].kind = Kinds[upd.kind]}
    BY <1>3 DEF List, PassInv, UpdaterOK, Kinds, Quiet, history
  <2>2. \A o \in alive : Meta[o].kind = Kinds[upd.kind] => o \in upd'.todo
    BY <2>1 DEF PassInv, HistoryOK
  <2>3. \A k \in DOMAIN Kinds : k < upd.kind + 1 => k < upd.kind \/ k = upd.kind
    BY <2>1 DEF Kinds
  <2> QED BY <2>1, <2>2, <2>3 DEF ListedKept, Passing, Written
<1>9. ASSUME NEW o \in Objects, Read(o) PROVE ListedKept'
  <2>1. /\ upd.at = "list" /\ upd'.at = "list" /\ upd'.kind = upd.kind /\ alive' = alive
        /\ upd'.todo = upd.todo \ {o}
        /\ upd'.read = patched([i \in {Id(o)} |-> Status(o)], upd.read)
    BY <1>9 DEF Read, PassInv, UpdaterOK, Quiet, history
  <2>2. DOMAIN upd'.read = DOMAIN upd.read \cup {Id(o)}
    BY <2>1 DEF patched
  <2> QED BY <2>1, <2>2 DEF ListedKept, Passing, Written
<1>4. CASE SetHealth
  <2>1. /\ upd.at = "list" /\ upd'.at = "stale" /\ upd'.read = upd.read
        /\ upd'.kind = upd.kind /\ upd.kind = 4 /\ upd.todo = {}
        /\ UNCHANGED <<alive, going>>
        /\ health' = patched(upd.read, health)
    BY <1>4 DEF SetHealth, PassInv, UpdaterOK, Kinds, Quiet, world, history
  <2>2. \A o \in alive : Id(o) \in DOMAIN upd.read
    <3>1. \A k \in DOMAIN Kinds : k < upd.kind
      BY <2>1 DEF Kinds
    <3> QED BY <1>0, <2>1, <3>1, ObjectAssumption DEF ListedKept, Passing
  <2>3. DOMAIN health' = DOMAIN upd.read \cup DOMAIN health
    BY <2>1 DEF patched
  <2> QED BY <2>1, <2>2, <2>3 DEF ListedKept, Passing, Written
<1>5. CASE FindStale
  <2>1. /\ upd.at = "stale" /\ upd'.at = "remove" /\ upd'.read = upd.read
        /\ upd'.kind = upd.kind /\ upd'.todo = upd.todo /\ UNCHANGED <<alive, going, health>>
    BY <1>5 DEF FindStale, PassInv, UpdaterOK, Quiet, world, history
  <2> QED BY <2>1 DEF ListedKept, Passing, Written
<1>6. CASE RemoveStale
  <2> DEFINE apps == Applications(upd.stale) \ Applications(DOMAIN upd.read)
  <2>1. /\ upd.at = "remove" /\ upd'.at = "overall" /\ upd'.read = upd.read
        /\ upd'.kind = upd.kind /\ upd.kind = 4 /\ upd.todo = {}
        /\ UNCHANGED <<alive, going>>
        /\ health' = Without(upd.stale \cup {i \in DOMAIN health : i[1] \in apps})
    BY <1>6 DEF RemoveStale, PassInv, UpdaterOK, Written, Quiet, world, history
  <2>2. \A o \in alive : Id(o) \in DOMAIN upd.read
    <3>1. \A k \in DOMAIN Kinds : k < upd.kind
      BY <2>1 DEF Kinds
    <3> QED BY <1>0, <2>1, <3>1, ObjectAssumption DEF ListedKept, Passing
  <2>3. \A i \in DOMAIN upd.read : i \notin upd.stale /\ i[1] \notin apps
    BY <2>1 DEF PassInv, WrittenKept, Applications
  <2> HIDE DEF apps
  <2>4. \A o \in alive \ going : Id(o) \in DOMAIN health'
    BY <2>1, <2>2, <2>3 DEF Without, ListedKept, Written
  <2> QED BY <2>1, <2>4 DEF ListedKept, Passing
<1>7. CASE SetOverall \/ ReadFails \/ PassFails
  <2>1. upd'.at = "wait"
    BY <1>7 DEF SetOverall, ReadFails, PassFails, EndPass, Idle
  <2> QED BY <2>1 DEF ListedKept, Passing, Written
<1>8. ASSUME NEW o \in Objects, DeleteHandler(o) PROVE ListedKept'
  <2>1. /\ health' = Without({Id(o)}) /\ o \in going /\ UNCHANGED <<alive, going, upd>>
    BY <1>8 DEF DeleteHandler, updater, history
  <2>2. \A p \in alive \ going : Id(p) # Id(o)
    BY <1>0, <2>1 DEF Injective
  <2> QED BY <2>1, <2>2 DEF ListedKept, Passing, Written, Without
<1> QED BY <1>1, <1>2, <1>3, <1>4, <1>5, <1>6, <1>7, <1>8, <1>9, WorldStep, OtherStep
        DEF Next, Updater, PassInv

\* If ident tells the objects apart, whatever is there from the start of a pass
\* to its end is in the report.
THEOREM AllAreReported == ASSUME Injective PROVE Spec => []AllReported
<1>1. Init => ListedKept
  BY DEF Init, Idle, ListedKept, Passing, Written
<1>2. PassInv /\ ListedKept => AllReported
  <2> SUFFICES ASSUME PassInv, ListedKept, upd.at = "overall", NEW o \in alive \ going
               PROVE  Id(o) \in DOMAIN health /\ <<o, health[Id(o)]>> \in was
    BY DEF AllReported
  <2>1. Id(o) \in DOMAIN health /\ o \in Objects
    BY DEF ListedKept, Written, PassInv, HistoryOK, Present
  <2>2. PICK p \in Objects : Id(p) = Id(o) /\ <<p, health[Id(o)]>> \in was
    BY <2>1 DEF PassInv, ReadFresh, WrittenKept, Passing, Written
  <2> QED BY <2>1, <2>2 DEF Injective
<1>3. PassInv /\ ListedKept /\ [Next]_vars => ListedKept'
  BY ListedStep
<1> QED BY <1>1, <1>2, <1>3, PassCorrect, PTL DEF Spec
=============================================================================
