-------------------------- MODULE InstanceMigration --------------------------
(***************************************************************************)
(* Emptying one compute host before a reboot: Nova._migrate_servers and    *)
(* prepare_node_for_reboot, which the handler of a NodeMaintenanceRequest  *)
(* calls (the steps Migrated and MigrateDefer of NodeMaintenance).  The    *)
(* handler asks Nova for lists of servers, starts migrations from a list   *)
(* that may be stale and never learns how a migration ended other than     *)
(* from the next list.                                                     *)
(***************************************************************************)
EXTENDS Naturals, FiniteSets

CONSTANTS
  Server,        \* the servers on the host at first
  Modes,         \* values the node's instance_migration_mode may have
  Attempts,      \* instance_migration_attempts of the node
  Concurrency,   \* instance_migrate_concurrency
  MaxFailures,   \* bound: migrations that fail
  MaxErrors      \* bound: errors of the Nova API

ASSUME MigrationAssumption ==
  /\ IsFiniteSet(Server)
  /\ Modes \subseteq {"live", "manual", "skip"}
  /\ {Attempts, Concurrency} \subseteq Nat \ {0}
  /\ {MaxFailures, MaxErrors} \subseteq Nat

VARIABLES
  vm,        \* vm[s]: state of the server, "gone" when it left the host
  pc,        \* where the handler is
  todo,      \* servers_to_migrate
  count,     \* servers_migrating_count, 1 for a server without an entry
  calls,     \* calls[s]: history, migrations asked for in this pass
  failures,  \* failed migrations so far
  errors     \* API errors so far

handlerVars == <<pc, todo, count, calls>>
vars == <<vm, handlerVars, failures, errors>>

\* ACTIVE and PAUSED servers are treated alike and are both "active".
States == {"active", "migrating", "error", "building", "stopped", "gone"}
Steps == {"start", "loop", "relist", "check", "passed", "skipped"}

\* compute_get_servers_valid_for_live_migration
Valid == {s \in Server : vm[s] = "active"}
\* compute_get_servers_in_migrating_state
Migrating == {s \in Server : vm[s] = "migrating"}
\* Mutation: servers that are leaving are not waited for.
UnsafeUnlessMigrating == {s \in Server : vm[s] \in {"active", "error"}}

\* Neither SERVER_STATES_SAFE_FOR_REBOOT nor a stopped power state.
Unsafe == {s \in Server : vm[s] \in {"active", "migrating", "error"}}

-----------------------------------------------------------------------------
(* _migrate_servers *)

NoCount == [s \in Server |-> 1]
NoCalls == [s \in Server |-> 0]

\* Mutation: the counts of an earlier pass are kept.
StartKeepsCounts ==
  /\ pc = "start"
  /\ \/ "skip" \in Modes /\ pc' = "skipped" /\ todo' = {}
     \/ "live" \in Modes /\ pc' = "relist" /\ todo' = {}
     \/ "manual" \in Modes /\ pc' = "check" /\ todo' = {}
  /\ UNCHANGED <<vm, count, calls, failures, errors>>

\* The mode is an annotation that is read again for every pass.
Start ==
  /\ pc = "start"
  /\ \/ "skip" \in Modes /\ pc' = "skipped" /\ todo' = {}
     \/ "live" \in Modes /\ pc' = "loop" /\ todo' = Valid
     \/ "manual" \in Modes /\ pc' = "check" /\ todo' = {}
  /\ count' = NoCount
  /\ calls' = NoCalls
  /\ UNCHANGED <<vm, failures, errors>>

\* Mutation: the comparison is turned round.
RoomInverted == Cardinality(Migrating) > Concurrency

\* Mutation: one migration too many is started.
RoomOffByOne == Cardinality(Migrating) <= Concurrency

RoomForMigration == Cardinality(Migrating) < Concurrency

\* The call fails when the server is not what the list said any more; the
\* attempt counts all the same.  Nova has set the status of the server by
\* the time the handler has slept and lists again.
Migrate(s) ==
  /\ pc = "loop" /\ s \in todo /\ RoomForMigration
  /\ pc' = "relist"
  /\ todo' = todo \ {s}
  /\ count' = [count EXCEPT ![s] = @ + 1]
  /\ calls' = [calls EXCEPT ![s] = @ + 1]
  /\ vm' = [vm EXCEPT ![s] = IF @ = "active" THEN "migrating" ELSE @]
  /\ UNCHANGED <<failures, errors>>

\* live_migrate_server raises: logged, counted, tried again.
MigrateRefused(s) ==
  /\ pc = "loop" /\ s \in todo /\ RoomForMigration
  /\ errors < MaxErrors /\ errors' = errors + 1
  /\ pc' = "relist"
  /\ todo' = todo \ {s}
  /\ count' = [count EXCEPT ![s] = @ + 1]
  /\ calls' = [calls EXCEPT ![s] = @ + 1]
  /\ UNCHANGED <<vm, failures>>

WaitForRoom ==
  /\ pc = "loop" /\ todo # {} /\ ~RoomForMigration
  /\ pc' = "relist"
  /\ UNCHANGED <<vm, todo, count, calls, failures, errors>>

\* servers_migrating_skip: error_count > instance_migration_attempts.
Relist ==
  /\ pc = "relist"
  /\ pc' = "loop"
  /\ todo' = {s \in Valid : count[s] <= Attempts}
  /\ UNCHANGED <<vm, count, calls, failures, errors>>

LoopDone ==
  /\ pc = "loop" /\ todo = {}
  /\ pc' = "check"
  /\ UNCHANGED <<vm, todo, count, calls, failures, errors>>

\* _check_migration_completed: servers left on the host raise TemporaryError
\* and the handler starts all over, with new counts.
CheckCompleted ==
  /\ pc = "check"
  /\ pc' = IF Unsafe = {} THEN "passed" ELSE "start"
  /\ UNCHANGED <<vm, todo, count, calls, failures, errors>>

\* SDKException from a list of servers: TemporaryError.
ListFails ==
  /\ pc \in {"loop", "relist", "check"} /\ errors < MaxErrors
  /\ errors' = errors + 1
  /\ pc' = "start"
  /\ UNCHANGED <<vm, todo, count, calls, failures>>

Handler ==
  \/ Start \/ WaitForRoom \/ Relist \/ LoopDone \/ CheckCompleted \/ ListFails
  \/ \E s \in Server : Migrate(s) \/ MigrateRefused(s)

-----------------------------------------------------------------------------
(* Nova and its users.  The compute service of the host is disabled: no new *)
(* server is scheduled to it.                                               *)

MigrationDone(s) ==
  /\ vm[s] = "migrating"
  /\ vm' = [vm EXCEPT ![s] = "gone"]
  /\ UNCHANGED <<handlerVars, failures, errors>>

MigrationFails(s) ==
  /\ vm[s] = "migrating" /\ failures < MaxFailures
  /\ failures' = failures + 1
  /\ \E state \in {"active", "error"} : vm' = [vm EXCEPT ![s] = state]
  /\ UNCHANGED <<handlerVars, errors>>

\* Scheduled before the service was disabled.
BuildDone(s) ==
  /\ vm[s] = "building"
  /\ vm' = [vm EXCEPT ![s] = "active"]
  /\ UNCHANGED <<handlerVars, failures, errors>>

\* A user stops or deletes the server, an operator moves it.
UserRemoves(s) ==
  /\ vm[s] \in {"active", "error"}
  /\ \E state \in {"stopped", "gone"} : vm' = [vm EXCEPT ![s] = state]
  /\ UNCHANGED <<handlerVars, failures, errors>>

Nova ==
  \E s \in Server :
    MigrationDone(s) \/ MigrationFails(s) \/ BuildDone(s) \/ UserRemoves(s)

-----------------------------------------------------------------------------
Init ==
  /\ vm \in [Server -> {"active", "building", "stopped"}]
  /\ pc = "start" /\ todo = {}
  /\ count = NoCount /\ calls = NoCalls
  /\ failures = 0 /\ errors = 0

Next == Handler \/ Nova

Spec == Init /\ [][Next]_vars

\* The handler and the retry by kopf go on; Nova finishes what it started.
Fairness ==
  /\ WF_vars(Handler)
  /\ \A s \in Server : WF_vars(MigrationDone(s) \/ MigrationFails(s)) /\
                       WF_vars(BuildDone(s))

FairSpec == Spec /\ Fairness

-----------------------------------------------------------------------------
(* Properties. *)

\* The variables hold values of their types.
TypeOK ==
  /\ vm \in [Server -> States] /\ pc \in Steps /\ todo \subseteq Server
  /\ {count, calls} \subseteq [Server -> Nat]
  /\ failures \in 0..MaxFailures /\ errors \in 0..MaxErrors

\* Never more servers of the host migrate than instance_migrate_concurrency,
\* whatever was listed when and however often the handler was restarted.
ConcurrencyRespected == Cardinality(Migrating) <= Concurrency

\* The loop of _do_servers_migration leaves a server alone after the
\* configured number of attempts.
AttemptsRespected == \A s \in Server : calls[s] <= Attempts

\* No pass of _do_servers_migration runs for ever.
PassEnds == pc = "loop" ~> pc \in {"start", "check"}

\* A host whose servers do not break down is emptied, also when migrations
\* fail and have to be tried again, unless the mode stays "manual": in the
\* end the node is handed over.
Evacuated ==
  [](\A s \in Server : vm[s] # "error") /\ []<>(pc # "start" /\ pc # "check")
    => <>(pc \in {"passed", "skipped"})

\* What _check_migration_completed is for: once prepare_node_for_reboot has
\* passed, no server runs on the host, nor comes back from a migration that
\* fails later.  A server that is being built when the node is taken
\* (SERVER_STATES_SAFE_FOR_REBOOT has "building") is the exception.
SafeForReboot ==
  [](\A s \in Server : vm[s] # "building") =>
    [](pc = "passed" => \A s \in Server : vm[s] \in {"stopped", "gone"})
=============================================================================
