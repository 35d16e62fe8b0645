------------------------------- MODULE Service -------------------------------
(***************************************************************************)
(* The life of the backend's instances (main.go) behind a load balancer:    *)
(* an instance migrates the database or checks that it is migrated, serves  *)
(* requests (here those of Channels), and on SIGTERM fails its readiness    *)
(* check, drains, closes its listener and waits for what is under way.  It  *)
(* may also be killed at any time.  The balancer polls readiness at least   *)
(* every HealthInterval ticks and sends requests to what it found ready.    *)
(***************************************************************************)
EXTENDS Migrations, Channels

CONSTANTS
    HealthInterval,
    DrainDelay,        \* SHUTDOWN_DRAIN_DELAY
    ShutdownTimeout,
    MaxStarts          \* bound: process starts

(* main.go: "Set this above the balancer's health-check interval".          *)
ASSUME LifeCycleAssumption ==
    /\ HealthInterval \in Nat /\ DrainDelay \in Nat /\ DrainDelay > HealthInterval
    /\ ShutdownTimeout \in Nat /\ MaxStarts \in Nat

VARIABLES
    pc,         \* instances: exited, killed, migrate, autoMigrate, check, serving, draining, stopping
    signalled,  \* those that got SIGTERM
    left,       \* what is left of the drain delay, then of the shutdown timeout
    routed,     \* the balancer: those it found ready,
    unpolled,   \* and for how long it has not asked each
    starts

lifeVars == <<pc, signalled, left, routed, unpolled, starts>>
vars == <<migrationVars, channelVars, lifeVars>>

Init ==
    /\ MigrationInit /\ ChannelInit
    /\ pc = [i \in Instance |-> "exited"]
    /\ signalled = {} /\ routed = {}
    /\ left = [i \in Instance |-> 0]
    /\ unpolled = [i \in Instance |-> 0]
    /\ starts = 0

Becomes(i, phase) == pc' = [pc EXCEPT ![i] = phase]

Running(i) == pc[i] \notin {"exited", "killed"}

(* `aurarisk-backend migrate', AUTO_MIGRATE=true, or the server alone.      *)
Start(i) ==
    /\ ~Running(i) /\ starts < MaxStarts
    /\ starts' = starts + 1
    /\ tokens' = [tokens EXCEPT ![i] = PerMinute]
    /\ \/ \E mode \in {"migrate", "autoMigrate"} : Becomes(i, mode) /\ StartMigrate(i)
       \/ Becomes(i, "check") /\ UNCHANGED migrationVars
    /\ UNCHANGED <<accounts, linked, linking, reports, request, signalled, left, routed, unpolled>>

Migrating(i) ==
    /\ Migrate(i)
    /\ UNCHANGED <<channelVars, lifeVars>>

MigrationsComplete(i) ==
    /\ Migrated(i)
    /\ IF pc[i] = "migrate" THEN Becomes(i, "exited") /\ signalled' = signalled \ {i}
                            ELSE Becomes(i, "serving") /\ UNCHANGED signalled
    /\ LeaveMigrate(i)
    /\ UNCHANGED <<channelVars, left, routed, unpolled, starts>>

(* log.Fatalf.                                                              *)
MigrationFails(i) ==
    /\ step[i] # "off"
    /\ Becomes(i, "exited") /\ signalled' = signalled \ {i}
    /\ LeaveMigrate(i)
    /\ UNCHANGED <<channelVars, left, routed, unpolled, starts>>

CheckPending(i) ==
    /\ pc[i] = "check"
    /\ IF PendingMigrations(i) = {} THEN Becomes(i, "serving") /\ UNCHANGED signalled
                                    ELSE Becomes(i, "exited") /\ signalled' = signalled \ {i}
    /\ UNCHANGED <<migrationVars, channelVars, left, routed, unpolled, starts>>

Terminate(i) ==
    /\ Running(i) /\ i \notin signalled
    /\ signalled' = signalled \cup {i}
    /\ UNCHANGED <<migrationVars, channelVars, pc, left, routed, unpolled, starts>>

SetDraining(i) ==
    /\ pc[i] = "serving" /\ i \in signalled
    /\ Becomes(i, "draining")
    /\ left' = [left EXCEPT ![i] = DrainDelay]
    /\ UNCHANGED <<migrationVars, channelVars, signalled, routed, unpolled, starts>>

(* server.Shutdown: the listener is closed.                                 *)
Shutdown(i) ==
    /\ pc[i] = "draining" /\ left[i] = 0
    /\ Becomes(i, "stopping")
    /\ left' = [left EXCEPT ![i] = ShutdownTimeout]
    /\ UNCHANGED <<migrationVars, channelVars, signalled, routed, unpolled, starts>>

(* When the requests under way are done, or at the timeout, which cuts them *)
(* off with the database.                                                   *)
Exit(i) ==
    /\ pc[i] = "stopping"
    /\ RequestsAt(i) = {} \/ left[i] = 0
    /\ Becomes(i, "exited") /\ signalled' = signalled \ {i}
    /\ left' = [left EXCEPT ![i] = 0]
    /\ Cut(RequestsAt(i)) /\ UNCHANGED tokens
    /\ UNCHANGED <<migrationVars, routed, unpolled, starts>>

Kill(i) ==
    /\ Running(i)
    /\ Becomes(i, "killed") /\ signalled' = signalled \ {i}
    /\ left' = [left EXCEPT ![i] = 0]
    /\ LeaveMigrate(i)
    /\ Cut(RequestsAt(i)) /\ UNCHANGED tokens
    /\ UNCHANGED <<routed, unpolled, starts>>

Listening(i) == pc[i] \in {"serving", "draining"}

RequestArrives(q, i) ==
    /\ i \in routed /\ Listening(i)
    /\ Request(q, i)
    /\ UNCHANGED <<migrationVars, lifeVars>>

RequestServed(q) ==
    /\ ServeChannel(q)
    /\ UNCHANGED <<migrationVars, lifeVars>>

RequestFails(q) ==
    /\ request[q].pc # "none"
    /\ Cut({q}) /\ UNCHANGED tokens
    /\ UNCHANGED <<migrationVars, lifeVars>>

(* Mutant: draining does not show.                                          *)
BugReady(i) == Listening(i)

(* Ready: 503 when draining, or when the database cannot be reached.        *)
Ready(i) == pc[i] = "serving"

Poll(i) ==
    /\ \/ Ready(i) /\ routed' \in {routed \cup {i}, routed \ {i}}
       \/ ~Ready(i) /\ routed' = routed \ {i}
    /\ unpolled' = [unpolled EXCEPT ![i] = 0]
    /\ UNCHANGED <<migrationVars, channelVars, pc, signalled, left, starts>>

Tick ==
    /\ \A i \in Instance : unpolled[i] < HealthInterval
    /\ unpolled' = [i \in Instance |-> unpolled[i] + 1]
    /\ left' = [i \in Instance |-> IF left[i] = 0 THEN 0 ELSE left[i] - 1]
    /\ ChannelTick
    /\ UNCHANGED <<migrationVars, pc, signalled, routed, starts>>

Next ==
    \/ \E i \in Instance :
        \/ Start(i) \/ Migrating(i) \/ MigrationsComplete(i) \/ MigrationFails(i) \/ CheckPending(i)
        \/ Terminate(i) \/ SetDraining(i) \/ Shutdown(i) \/ Exit(i) \/ Kill(i)
        \/ Poll(i)
    \/ \E q \in Callback :
        \/ \E i \in Instance : RequestArrives(q, i)
        \/ RequestServed(q) \/ RequestFails(q)
    \/ Tick

Spec == Init /\ [][Next]_vars

-----------------------------------------------------------------------------
TypeOK ==
    /\ MigrationTypeOK /\ ChannelTypeOK
    /\ pc \in [Instance -> {"exited", "killed", "migrate", "autoMigrate", "check",
                            "serving", "draining", "stopping"}]
    /\ signalled \subseteq Instance /\ routed \subseteq Instance
    /\ left \in [Instance -> Nat] /\ unpolled \in [Instance -> 0 .. HealthInterval]
    /\ starts \in 0 .. MaxStarts

(* Every migration's SQL is committed once and after the one before it,     *)
(* whatever processes migrate at once or die meanwhile and whatever the old *)
(* mechanism left, and no instance serves without those its binary knows.   *)
SchemaInStep ==
    /\ \A v \in Version : ran[v] =< 1 /\ (ran[v] = 1 => \A u \in 1 .. v : ran[u] = 1)
    /\ \A i \in Instance : Listening(i) => \A v \in 1 .. Known[i] : ran[v] = 1

(* The balancer sends nothing to an instance whose listener has been closed *)
(* by a shutdown (main.go: "Fail readiness first and give the load balancer *)
(* time to notice before refusing connections").                            *)
NothingRefused == \A i \in Instance : pc[i] = "stopping" => i \notin routed

(* A phone has one account, which all its reports go to, and no account is  *)
(* left behind by a request that lost the race for it or was cut off.       *)
OneAccountPerPhone ==
    /\ accounts \subseteq {linked}
    /\ \A q \in Callback : request[q].pc \in {"count", "store"} => request[q].account = linked

(* The hourly limit on a phone's reports is exceeded by no more than the     *)
(* requests that may count at once, at one instance or at several, all but   *)
(* the one that was within it: requests that are over, cut off or retried    *)
(* add nothing (channels.go, storeChannelReport counts and then stores).     *)
Storing == {q \in Callback : request[q].pc = "store"}

ReportsLimited ==
    Recent + Cardinality(Storing) =< ReportsPerHour + Cardinality(Callback) - 1
=============================================================================
