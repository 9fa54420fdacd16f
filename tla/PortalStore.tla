------------------------------ MODULE PortalStore ------------------------------
(***************************************************************************)
(* How the portal's processes bring the database to their schema           *)
(* (portal_server/db/sqlite.py and db/postgres.py, _init_schema, and       *)
(* db/migrations.py).  Processes of different builds start at the same     *)
(* time, and each may stop at any step.                                    *)
(*                                                                         *)
(* PostgreSQL: an advisory lock, one transaction for each migration, and a *)
(* recorded checksum.  SQLite: executescript() commits the transaction     *)
(* that was begun before it, so that every step of a migration and the     *)
(* version row after them are commits of their own; the steps are          *)
(* idempotent.                                                             *)
(***************************************************************************)
EXTENDS Naturals, FiniteSets, Sequences

CONSTANTS
    StoreProcesses, \* processes that open the database
    BuildSets, \* the builds they may be of: a set of functions to 1..3
    MaxStops   \* bound on the processes that stop while they migrate

ASSUME PortalStoreConstants ==
    /\ StoreProcesses # {} /\ MaxStops \in Nat
    /\ \A b \in BuildSets : b \in [StoreProcesses -> 1..3]

VARIABLES
    backend,   \* "sqlite" or "postgresql"
    build,     \* [process -> SCHEMA_VERSION of its build]
    version,   \* schema_meta's version row
    sums,      \* migrations whose checksum is recorded
    applied,   \* migration steps that took effect
    lock,      \* holder of pg_advisory_lock
    opening,   \* [process -> its position in _init_schema]
    stops      \* processes that stopped in it

psvars == <<backend, build, version, sums, applied, lock, opening, stops>>

\* MIGRATIONS and PG_MIGRATIONS: the steps of each version, in order.
Steps(v) == <<<<"base">>, <<"indexes">>, <<"devapi", "role">>>>[v]
StepsUpTo(v) == UNION {{Steps(i)[j] : j \in 1..Len(Steps(i))} : i \in 1..v}

Closed == [at |-> "closed", v |-> 0, i |-> 0]

PortalStoreInit ==
    /\ backend \in {"sqlite", "postgresql"} /\ build \in BuildSets
    /\ version = 0 /\ sums = {} /\ applied = {} /\ lock = {}
    /\ opening = [p \in StoreProcesses |-> Closed] /\ stops = 0

MovesTo(p, at, v, i) == opening' = [opening EXCEPT ![p] = [at |-> at, v |-> v, i |-> i]]

\* verify_checksums: every recorded migration must be one of this build.
ChecksumsOk(p) == \A v \in sums : v <= build[p]

\* Mutant: no advisory lock.
OpenStoreUnlocked(p) ==
    /\ opening[p].at = "closed" /\ UNCHANGED lock
    /\ IF version > build[p] THEN MovesTo(p, "refused", 0, 0) ELSE MovesTo(p, "migrating", version + 1, 1)
    /\ UNCHANGED <<backend, build, version, sums, applied, stops>>

\* The head of _init_schema: the lock (PostgreSQL), the version read, the
\* refusal of a newer schema and the checksum check.
OpenStore(p) ==
    /\ opening[p].at = "closed"
    /\ \/ /\ backend = "sqlite" /\ UNCHANGED lock
          /\ IF version > build[p] THEN MovesTo(p, "refused", 0, 0)
             ELSE MovesTo(p, "migrating", version + 1, 1)
       \/ /\ backend = "postgresql" /\ lock = {}
          /\ IF version > build[p] \/ ~ChecksumsOk(p) THEN MovesTo(p, "refused", 0, 0) /\ UNCHANGED lock
             ELSE MovesTo(p, "migrating", version + 1, 1) /\ lock' = {p}
    /\ UNCHANGED <<backend, build, version, sums, applied, stops>>

\* A step of a SQLite migration: a script, or _add_user_role, which looks for
\* the column first and skips the ALTER when it is there.
StepSqlite(p) ==
    /\ backend = "sqlite" /\ opening[p].at = "migrating" /\ opening[p].v <= build[p]
    /\ opening[p].i <= Len(Steps(opening[p].v))
    /\ LET s == Steps(opening[p].v)[opening[p].i] IN
       IF s = "role" /\ s \notin applied THEN MovesTo(p, "altering", opening[p].v, opening[p].i) /\ UNCHANGED applied
       ELSE MovesTo(p, "migrating", opening[p].v, opening[p].i + 1) /\ applied' = applied \cup {s}
    /\ UNCHANGED <<backend, build, version, sums, lock, stops>>

\* The ALTER TABLE of _add_user_role: it fails when another process added the
\* column since the look.
AddUserRole(p) ==
    /\ opening[p].at = "altering"
    /\ IF "role" \in applied THEN MovesTo(p, "failed", 0, 0) /\ UNCHANGED applied
       ELSE MovesTo(p, "migrating", opening[p].v, opening[p].i + 1) /\ applied' = applied \cup {"role"}
    /\ UNCHANGED <<backend, build, version, sums, lock, stops>>

\* Mutant: the version row is written before the last step.
CommitSqliteEarly(p) ==
    /\ backend = "sqlite" /\ opening[p].at = "migrating" /\ opening[p].v <= build[p]
    /\ opening[p].i = Len(Steps(opening[p].v))
    /\ version' = opening[p].v /\ MovesTo(p, "migrating", opening[p].v + 1, 1)
    /\ UNCHANGED <<backend, build, sums, applied, lock, stops>>

\* The version row and its commit, after the last step.
CommitSqlite(p) ==
    /\ backend = "sqlite" /\ opening[p].at = "migrating" /\ opening[p].v <= build[p]
    /\ opening[p].i > Len(Steps(opening[p].v))
    /\ version' = opening[p].v /\ MovesTo(p, "migrating", opening[p].v + 1, 1)
    /\ UNCHANGED <<backend, build, sums, applied, lock, stops>>

\* One PostgreSQL migration: SQL, version and checksum in one transaction.
CommitPostgres(p) ==
    /\ backend = "postgresql" /\ opening[p].at = "migrating" /\ opening[p].v <= build[p]
    /\ LET v == opening[p].v IN
       /\ applied' = applied \cup {Steps(v)[j] : j \in 1..Len(Steps(v))}
       /\ version' = v /\ sums' = sums \cup {v} /\ MovesTo(p, "migrating", v + 1, 1)
    /\ UNCHANGED <<backend, build, lock, stops>>

\* Past the last migration; the advisory lock is released.
Opened(p) ==
    /\ opening[p].at = "migrating" /\ opening[p].v > build[p]
    /\ MovesTo(p, "open", 0, 0) /\ lock' = lock \ {p}
    /\ UNCHANGED <<backend, build, version, sums, applied, stops>>

\* A process stops in the middle; its session's lock goes with it.
StopsOpening(p) ==
    /\ opening[p].at \in {"migrating", "altering"} /\ stops < MaxStops /\ stops' = stops + 1
    /\ MovesTo(p, "closed", 0, 0) /\ lock' = lock \ {p}
    /\ UNCHANGED <<backend, build, version, sums, applied>>

\* A process that failed is started again, or one in service is deployed again.
Restarts(p) ==
    /\ opening[p].at \in {"failed", "open"} /\ stops < MaxStops /\ stops' = stops + 1
    /\ MovesTo(p, "closed", 0, 0) /\ UNCHANGED <<backend, build, version, sums, applied, lock>>

PortalStoreNext ==
    \E p \in StoreProcesses :
        OpenStore(p) \/ StepSqlite(p) \/ AddUserRole(p) \/ CommitSqlite(p) \/ CommitPostgres(p)
        \/ Opened(p) \/ StopsOpening(p) \/ Restarts(p)

PortalStoreSpec == PortalStoreInit /\ [][PortalStoreNext]_psvars

-----------------------------------------------------------------------------
(* Properties. *)

\* The recorded version never promises more than was applied, and a process
\* in service finds every table and column of its build, whatever stopped or
\* raced during the migrations; on PostgreSQL the applied steps, the version
\* and the checksums agree exactly.
SchemaHonest ==
    /\ StepsUpTo(version) \subseteq applied
    /\ \A p \in StoreProcesses : opening[p].at = "open" => StepsUpTo(build[p]) \subseteq applied
    /\ backend = "postgresql" => applied = StepsUpTo(version) /\ sums = 1..version

\* Under the advisory lock a schema only moves forward, one migration at a
\* time, and a build never touches a schema newer than its own.
SchemaStep ==
    backend = "postgresql" =>
        /\ version' \in {version, version + 1}
        /\ \A p \in StoreProcesses : opening[p] # opening'[p] /\ version > build[p] => UNCHANGED <<version, applied, sums>>

\* The same claim for both backends (docs/MIGRATIONS.md).
SchemaForwardAlways == [][version' >= version]_psvars
=============================================================================
