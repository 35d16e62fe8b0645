----------------------------- MODULE Migrations -----------------------------
(***************************************************************************)
(* Schema migrations (internal/database/database.go): the numbered files    *)
(* embedded in each binary, applied one transaction at a time under an      *)
(* advisory lock, by any number of processes at once, on a database that    *)
(* may have been set up by the older schema_version mechanism.  What a      *)
(* transaction did becomes visible, and its lock free, when it ends.        *)
(***************************************************************************)
EXTENDS Naturals, Instances

CONSTANTS
    Known,         \* the last migration in the binary of each
    Latest,
    Legacy         \* what schema_version says, 0 if there is no such table

ASSUME MigrationAssumption ==
    /\ Latest \in Nat /\ Legacy \in 0 .. Latest
    /\ Known \in [Instance -> 0 .. Latest]

Version == 1 .. Latest

VARIABLES
    applied,    \* schema_migrations
    ran,        \* history: how often each file's SQL was committed
    lock,       \* pg_advisory_xact_lock: whose transaction holds it
    step, next  \* where each process is in Migrate, and its migration

migrationVars == <<applied, ran, lock, step, next>>

MigrationInit ==
    /\ applied = {}
    /\ ran = [v \in Version |-> IF v =< Legacy THEN 1 ELSE 0]
    /\ lock = None
    /\ step = [i \in Instance |-> "off"]
    /\ next = [i \in Instance |-> 0]

(* The loader has checked that the files are numbered 1, 2, ... (loadMigrations). *)
StartMigrate(i) ==
    /\ step' = [step EXCEPT ![i] = "bootstrap"]
    /\ UNCHANGED <<applied, ran, lock, next>>

Begin(i, from, to) ==
    /\ step[i] = from /\ lock = None
    /\ lock' = i
    /\ step' = [step EXCEPT ![i] = to]

BootstrapBegin(i) ==
    /\ Begin(i, "bootstrap", "bootstrapping")
    /\ UNCHANGED <<applied, ran, next>>

(* Mutant: what the old mechanism did is not recorded.                      *)
BugRecorded == {}

(* generate_series(1, schema_version), recorded once.                       *)
Recorded == 1 .. Legacy

BootstrapCommit(i) ==
    /\ step[i] = "bootstrapping"
    /\ applied' = applied \cup Recorded
    /\ lock' = None
    /\ step' = [step EXCEPT ![i] = "apply"]
    /\ next' = [next EXCEPT ![i] = 1]
    /\ UNCHANGED ran

(* Someone has applied it: looked up under the lock, which is let go.       *)
ApplyDone(i) ==
    /\ step[i] = "apply" /\ next[i] =< Known[i] /\ lock = None
    /\ next[i] \in applied
    /\ next' = [next EXCEPT ![i] = @ + 1]
    /\ UNCHANGED <<applied, ran, lock, step>>

ApplyBegin(i) ==
    /\ next[i] =< Known[i] /\ next[i] \notin applied
    /\ Begin(i, "apply", "applying")
    /\ UNCHANGED <<applied, ran, next>>

(* The row's primary key would refuse a second one.                         *)
ApplyCommit(i) ==
    /\ step[i] = "applying" /\ next[i] \notin applied
    /\ ran' = [ran EXCEPT ![next[i]] = @ + 1]
    /\ applied' = applied \cup {next[i]}
    /\ lock' = None
    /\ step' = [step EXCEPT ![i] = "apply"]
    /\ next' = [next EXCEPT ![i] = @ + 1]

Migrate(i) ==
    \/ BootstrapBegin(i) \/ BootstrapCommit(i)
    \/ ApplyDone(i) \/ ApplyBegin(i) \/ ApplyCommit(i)

Migrated(i) == step[i] = "apply" /\ next[i] > Known[i]

(* The process leaves Migrate, at the end or anywhere before it: its        *)
(* transaction is rolled back.                                              *)
LeaveMigrate(i) ==
    /\ step' = [step EXCEPT ![i] = "off"]
    /\ next' = [next EXCEPT ![i] = 0]
    /\ lock' = IF lock = i THEN None ELSE lock
    /\ UNCHANGED <<applied, ran>>

PendingMigrations(i) == (1 .. Known[i]) \ (applied \cup 1 .. Legacy)

MigrationTypeOK ==
    /\ applied \subseteq Version /\ ran \in [Version -> Nat]
    /\ lock \in Instance \cup {None}
    /\ step \in [Instance -> {"off", "bootstrap", "bootstrapping", "apply", "applying"}]
    /\ next \in [Instance -> Nat]
=============================================================================
