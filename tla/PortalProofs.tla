-------------------------- MODULE PortalProofs --------------------------
(***************************************************************************)
(* The portal's database and configuration, for every value of the         *)
(* constants: the migrations, backup and restore, and the judges of a      *)
(* configuration. Each part has its inductive invariant, one lemma per     *)
(* group of actions, and its theorems.                                     *)
(***************************************************************************)
EXTENDS PortalBackup, PortalConfig, Integers, Sequences, FiniteSetTheorems, TLAPS


-----------------------------------------------------------------------------
(***************************************************************************)
(* The portal's schema, for any number of processes, any builds of them    *)
(* and any number of stops, on both backends.                              *)
(*                                                                         *)
(* SchemaHonest is not inductive.  What carries it is what a process in    *)
(* the middle of a migration may rely on (Standing): every earlier         *)
(* migration and every earlier step of its own took effect, and on         *)
(* PostgreSQL it holds the lock and is one migration ahead of the recorded *)
(* version.                                                                *)
(***************************************************************************)

Positions == {"closed", "refused", "migrating", "altering", "failed", "open"}

StoreTypeOK ==
    /\ backend \in {"sqlite", "postgresql"}
    /\ build \in [StoreProcesses -> 1..3]
    /\ version \in Nat
    /\ opening \in [StoreProcesses -> [at : Positions, v : Nat, i : Nat]]

\* What a process of build b at position o stands on, when the steps in done
\* took effect on the backend k.
Standing(o, b, done, k) ==
    o.at \in {"migrating", "altering"} =>
        /\ 1 <= o.v /\ o.v <= b + 1 /\ 1 <= o.i
        /\ StepsUpTo(o.v - 1) \subseteq done
        /\ o.v <= b => \A j \in 1..Len(Steps(o.v)) : j < o.i => Steps(o.v)[j] \in done
        /\ o.at = "altering" => /\ k = "sqlite" /\ o.v <= b
                                /\ o.i <= Len(Steps(o.v)) /\ Steps(o.v)[o.i] = "role"

\* Under the advisory lock one process migrates, from the recorded version.
UnderLock ==
    backend = "postgresql" =>
        \A p \in StoreProcesses : opening[p].at = "migrating" =>
            lock = {p} /\ opening[p].v = version + 1

StoreInv ==
    /\ StoreTypeOK /\ UnderLock /\ SchemaHonest
    /\ \A p \in StoreProcesses : Standing(opening[p], build[p], applied, backend)

\* The steps of one migration.
StepsOf(v) == {Steps(v)[j] : j \in 1..Len(Steps(v))}

\* Each migration adds its steps to those before it.
LEMMA StepsAdd ==
    ASSUME NEW v \in Nat
    PROVE  /\ StepsUpTo(0) = {}
           /\ StepsUpTo(v + 1) = StepsUpTo(v) \cup StepsOf(v + 1)
<1>1. 1..0 = {} /\ 1..(v + 1) = (1..v) \cup {v + 1}
  OBVIOUS
<1>2. StepsUpTo(0) = {}
  BY <1>1 DEF StepsUpTo
<1>3. \A n, x : x \in StepsUpTo(n) <=> \E i \in 1..n : x \in StepsOf(i)
  BY DEF StepsUpTo, StepsOf
<1>4. \A x : x \in StepsUpTo(v + 1) <=> x \in StepsUpTo(v) \/ x \in StepsOf(v + 1)
  BY <1>1, <1>3
<1> QED BY <1>2, <1>4

\* Every migration of a build has finitely many steps.
LEMMA StepsLength ==
    ASSUME NEW v \in 1..3
    PROVE  Len(Steps(v)) \in Nat
<1>1. Len(Steps(1)) = 1 /\ Len(Steps(2)) = 1 /\ Len(Steps(3)) = 2
  BY DEF Steps
<1>2. v = 1 \/ v = 2 \/ v = 3
  OBVIOUS
<1> QED BY <1>1, <1>2

\* A step of one process changes its own position only.
LEMMA MovesOne ==
    ASSUME StoreTypeOK, NEW p \in StoreProcesses, NEW at \in Positions,
           NEW v \in Nat, NEW i \in Nat, MovesTo(p, at, v, i)
    PROVE  /\ opening' \in [StoreProcesses -> [at : Positions, v : Nat, i : Nat]]
           /\ opening'[p].at = at /\ opening'[p].v = v /\ opening'[p].i = i
           /\ \A q \in StoreProcesses : q # p => opening'[q] = opening[q]
BY DEF StoreTypeOK, MovesTo

\* What a process stands on is not taken away by a step that only adds to
\* the schema.
LEMMA StandingKept ==
    ASSUME NEW o, NEW b, NEW old, NEW done, NEW k, Standing(o, b, old, k), old \subseteq done
    PROVE  Standing(o, b, done, k)
BY DEF Standing

\* What a step of process p to position (at, v, i) has to establish; the rest
\* of the invariant follows.
LEMMA MoveKeeps ==
    ASSUME StoreInv, NEW p \in StoreProcesses, NEW at \in Positions, NEW v \in Nat, NEW i \in Nat,
           MovesTo(p, at, v, i), build' = build, backend' = backend,
           version' \in Nat, applied \subseteq applied', StepsUpTo(version') \subseteq applied',
           Standing([at |-> at, v |-> v, i |-> i], build[p], applied', backend),
           at = "open" => StepsUpTo(build[p]) \subseteq applied',
           backend = "postgresql" =>
               /\ applied' = StepsUpTo(version') /\ sums' = 1..version'
               /\ at = "migrating" => lock' = {p} /\ v = version' + 1
               /\ \A q \in StoreProcesses \ {p} : opening[q].at = "migrating" =>
                     lock' = {q} /\ opening[q].v = version' + 1
    PROVE  StoreInv'
<1>1. /\ opening' \in [StoreProcesses -> [at : Positions, v : Nat, i : Nat]]
      /\ opening'[p].at = at /\ opening'[p].v = v /\ opening'[p].i = i
      /\ \A q \in StoreProcesses : q # p => opening'[q] = opening[q]
  BY MovesOne DEF StoreInv
<1>2. StoreTypeOK'
  BY <1>1 DEF StoreInv, StoreTypeOK
<1>3. UnderLock'
  BY <1>1, Zenon DEF UnderLock
<1>4. \A q \in StoreProcesses : opening'[q].at = "open" => StepsUpTo(build[q]) \subseteq applied'
  BY <1>1 DEF StoreInv, SchemaHonest
<1>5. SchemaHonest'
  BY <1>4 DEF SchemaHonest
<1>6. opening'[p] = [at |-> at, v |-> v, i |-> i]
  BY DEF MovesTo, StoreInv, StoreTypeOK
<1>7. \A q \in StoreProcesses : Standing(opening'[q], build[q], applied', backend)
  BY <1>1, <1>6, StandingKept, Zenon DEF StoreInv
<1> QED BY <1>2, <1>3, <1>5, <1>7 DEF StoreInv

\* A process that is not migrating stands on nothing.
LEMMA Idle ==
    ASSUME NEW at \in Positions \ {"migrating", "altering"}, NEW b, NEW done, NEW k
    PROVE  Standing([at |-> at, v |-> 0, i |-> 0], b, done, k)
BY DEF Standing

\* What the invariant says, in the shape the steps below use it.
LEMMA Facts ==
    ASSUME StoreInv, NEW p \in StoreProcesses
    PROVE  /\ build[p] \in 1..3 /\ version \in Nat /\ backend \in {"sqlite", "postgresql"}
           /\ opening[p].at \in Positions /\ opening[p].v \in Nat /\ opening[p].i \in Nat
           /\ StepsUpTo(version) \subseteq applied
           /\ opening[p].at = "open" => StepsUpTo(build[p]) \subseteq applied
           /\ backend = "postgresql" =>
                /\ applied = StepsUpTo(version) /\ sums = 1..version
                /\ \A q \in StoreProcesses : opening[q].at = "migrating" =>
                      lock = {q} /\ opening[q].v = version + 1
           /\ Standing(opening[p], build[p], applied, backend)
BY DEF StoreInv, StoreTypeOK, SchemaHonest, UnderLock

\* The head of _init_schema keeps the invariant.
LEMMA OpenStoreKeeps ==
    ASSUME StoreInv, NEW p \in StoreProcesses, OpenStore(p)
    PROVE  StoreInv'
<1>0. /\ build' = build /\ version' = version /\ applied' = applied /\ sums' = sums
      /\ backend' = backend
  BY DEF OpenStore
<1>1. CASE MovesTo(p, "refused", 0, 0) /\ lock' = lock
  <2>1. Standing([at |-> "refused", v |-> 0, i |-> 0], build[p], applied', backend)
    BY Idle DEF Positions
  <2> QED BY <1>0, <1>1, <2>1, Facts, MoveKeeps DEF Positions
<1>2. CASE /\ MovesTo(p, "migrating", version + 1, 1) /\ version <= build[p]
           /\ \/ backend = "sqlite"
              \/ backend = "postgresql" /\ lock = {} /\ lock' = {p}
  <2>1. (version + 1) - 1 = version /\ version + 1 \in Nat /\ build[p] \in Nat
    BY Facts
  <2>2. Standing([at |-> "migrating", v |-> version + 1, i |-> 1], build[p], applied', backend)
    BY <1>0, <1>2, <2>1, Facts DEF Standing
  <2>3. backend = "postgresql" => \A q \in StoreProcesses : opening[q].at # "migrating"
    BY <1>2, Facts, Zenon
  <2> QED BY <1>0, <1>2, <2>1, <2>2, <2>3, Facts, MoveKeeps, ZenonT(30) DEF Positions
<1>3. ~(version > build[p]) => version <= build[p]
  BY Facts
<1>4. CASE backend = "sqlite"
  BY <1>1, <1>2, <1>3, <1>4, Zenon DEF OpenStore
<1>5. CASE backend = "postgresql"
  BY <1>1, <1>2, <1>3, <1>5, Zenon DEF OpenStore
<1> QED BY <1>4, <1>5, Facts

\* One step further: with the step at i in effect, the process may go to i + 1.
LEMMA StandsOneFurther ==
    ASSUME NEW o \in [at : Positions, v : Nat, i : Nat], NEW b \in 1..3, NEW old, NEW done, NEW k,
           Standing(o, b, old, k), o.at \in {"migrating", "altering"}, o.v <= b,
           old \subseteq done, Steps(o.v)[o.i] \in done
    PROVE  Standing([at |-> "migrating", v |-> o.v, i |-> o.i + 1], b, done, k)
<1>1. /\ 1 <= o.v /\ o.v <= b + 1 /\ 1 <= o.i /\ o.i \in Nat /\ o.v \in 1..3
      /\ StepsUpTo(o.v - 1) \subseteq done
      /\ \A j \in 1..Len(Steps(o.v)) : j < o.i => Steps(o.v)[j] \in done
  BY DEF Standing
<1>2. \A j \in 1..Len(Steps(o.v)) : j < o.i + 1 => Steps(o.v)[j] \in done
  <2> SUFFICES ASSUME NEW j \in 1..Len(Steps(o.v)), j < o.i + 1
               PROVE  Steps(o.v)[j] \in done
    OBVIOUS
  <2>1. j < o.i \/ j = o.i
    BY <1>1, StepsLength
  <2> QED BY <1>1, <2>1
<1> QED BY <1>1, <1>2 DEF Standing

\* A step of a SQLite migration keeps the invariant.
LEMMA StepSqliteKeeps ==
    ASSUME StoreInv, NEW p \in StoreProcesses, StepSqlite(p)
    PROVE  StoreInv'
<1> DEFINE o == opening[p]
           x == Steps(o.v)[o.i]
<1>0. /\ build' = build /\ version' = version /\ backend' = backend /\ backend = "sqlite"
      /\ o.at = "migrating" /\ o.v <= build[p] /\ o.i <= Len(Steps(o.v))
      /\ \/ x = "role" /\ MovesTo(p, "altering", o.v, o.i) /\ applied' = applied
         \/ MovesTo(p, "migrating", o.v, o.i + 1) /\ applied' = applied \cup {x}
  BY DEF StepSqlite
<1>1. /\ o \in [at : Positions, v : Nat, i : Nat] /\ o.v \in Nat /\ o.i \in Nat
      /\ build[p] \in 1..3 /\ Standing(o, build[p], applied, backend)
      /\ version \in Nat /\ StepsUpTo(version) \subseteq applied
  BY Facts DEF StoreInv, StoreTypeOK
<1> HIDE DEF o
<1>2. CASE x = "role" /\ MovesTo(p, "altering", o.v, o.i) /\ applied' = applied
  <2>1. Standing([at |-> "altering", v |-> o.v, i |-> o.i], build[p], applied', backend)
    BY <1>0, <1>1, <1>2 DEF Standing
  <2> QED BY <1>0, <1>1, <1>2, <2>1, MoveKeeps DEF Positions
<1>3. CASE MovesTo(p, "migrating", o.v, o.i + 1) /\ applied' = applied \cup {x}
  <2>1. Standing([at |-> "migrating", v |-> o.v, i |-> o.i + 1], build[p], applied', backend)
    BY <1>0, <1>1, <1>3, StandsOneFurther
  <2>2. o.i + 1 \in Nat /\ applied \subseteq applied'
    BY <1>1, <1>3
  <2> HIDE DEF x
  <2> QED BY <1>0, <1>1, <1>3, <2>1, <2>2, MoveKeeps, Zenon DEF Positions
<1> QED BY <1>0, <1>2, <1>3

\* The ALTER TABLE keeps the invariant, whether it adds the column or fails.
LEMMA AddUserRoleKeeps ==
    ASSUME StoreInv, NEW p \in StoreProcesses, AddUserRole(p)
    PROVE  StoreInv'
<1> DEFINE o == opening[p]
<1>0. /\ build' = build /\ version' = version /\ backend' = backend /\ o.at = "altering"
      /\ \/ MovesTo(p, "failed", 0, 0) /\ applied' = applied
         \/ MovesTo(p, "migrating", o.v, o.i + 1) /\ applied' = applied \cup {"role"}
  BY DEF AddUserRole
<1>1. /\ o \in [at : Positions, v : Nat, i : Nat] /\ o.v \in Nat /\ o.i \in Nat
      /\ build[p] \in 1..3 /\ Standing(o, build[p], applied, backend)
      /\ version \in Nat /\ StepsUpTo(version) \subseteq applied
  BY Facts DEF StoreInv, StoreTypeOK
<1> HIDE DEF o
<1>2. backend = "sqlite" /\ o.v <= build[p] /\ Steps(o.v)[o.i] = "role"
  BY <1>0, <1>1 DEF Standing
<1>3. CASE MovesTo(p, "failed", 0, 0) /\ applied' = applied
  <2>1. Standing([at |-> "failed", v |-> 0, i |-> 0], build[p], applied', backend)
    BY Idle DEF Positions
  <2> QED BY <1>0, <1>1, <1>2, <1>3, <2>1, MoveKeeps DEF Positions
<1>4. CASE MovesTo(p, "migrating", o.v, o.i + 1) /\ applied' = applied \cup {"role"}
  <2>1. Standing([at |-> "migrating", v |-> o.v, i |-> o.i + 1], build[p], applied', backend)
    BY <1>0, <1>1, <1>2, <1>4, StandsOneFurther
  <2>2. o.i + 1 \in Nat /\ applied \subseteq applied'
    BY <1>1, <1>4
  <2> QED BY <1>0, <1>1, <1>2, <1>4, <2>1, <2>2, MoveKeeps, Zenon DEF Positions
<1> QED BY <1>0, <1>3, <1>4

\* With all its steps in effect, a migration is complete.
LEMMA MigrationComplete ==
    ASSUME NEW v \in 1..3, NEW done, StepsUpTo(v - 1) \subseteq done, StepsOf(v) \subseteq done
    PROVE  StepsUpTo(v) \subseteq done
<1>1. v - 1 \in Nat /\ (v - 1) + 1 = v
  OBVIOUS
<1>2. StepsUpTo((v - 1) + 1) = StepsUpTo(v - 1) \cup StepsOf((v - 1) + 1)
  BY <1>1, StepsAdd
<1> QED BY <1>1, <1>2

\* The next migration starts from the one that is complete.
LEMMA StandsAtNext ==
    ASSUME NEW v \in Nat, NEW b \in 1..3, v <= b, NEW done, NEW k, StepsUpTo(v) \subseteq done
    PROVE  Standing([at |-> "migrating", v |-> v + 1, i |-> 1], b, done, k)
<1>1. (v + 1) - 1 = v /\ 1 <= v + 1 /\ v + 1 <= b + 1
  OBVIOUS
<1>2. \A j \in Nat : 1 <= j => ~(j < 1)
  OBVIOUS
<1>3. v + 1 <= b => v + 1 \in 1..3
  OBVIOUS
<1>4. v + 1 <= b => \A j \in 1..Len(Steps(v + 1)) : ~(j < 1)
  BY <1>3, StepsLength
<1> QED BY <1>1, <1>4 DEF Standing

\* The version row of a SQLite migration keeps the invariant.
LEMMA CommitSqliteKeeps ==
    ASSUME StoreInv, NEW p \in StoreProcesses, CommitSqlite(p)
    PROVE  StoreInv'
<1> DEFINE v == opening[p].v
<1>0. /\ build' = build /\ version' = v /\ backend' = backend /\ backend = "sqlite"
      /\ opening[p].at = "migrating" /\ v <= build[p] /\ opening[p].i > Len(Steps(v))
      /\ applied' = applied /\ MovesTo(p, "migrating", v + 1, 1)
  BY DEF CommitSqlite
<1>1. /\ v \in Nat /\ opening[p].i \in Nat /\ build[p] \in 1..3
      /\ Standing(opening[p], build[p], applied, backend)
  BY Facts
<1>2. /\ v \in 1..3 /\ StepsUpTo(v - 1) \subseteq applied
      /\ \A j \in 1..Len(Steps(v)) : j < opening[p].i => Steps(v)[j] \in applied
  BY <1>0, <1>1 DEF Standing
<1> HIDE DEF v
<1>3. \A j \in 1..Len(Steps(v)) : j < opening[p].i
  BY <1>0, <1>1, <1>2, StepsLength
<1>4. StepsOf(v) \subseteq applied
  BY <1>2, <1>3 DEF StepsOf
<1>5. StepsUpTo(v) \subseteq applied
  BY <1>2, <1>4, MigrationComplete
<1>6. Standing([at |-> "migrating", v |-> v + 1, i |-> 1], build[p], applied, backend)
  BY <1>0, <1>1, <1>5, StandsAtNext
<1> QED BY <1>0, <1>1, <1>5, <1>6, MoveKeeps DEF Positions

\* One PostgreSQL migration keeps the invariant: the lock lets no other
\* process migrate, so the version it moves to is the recorded one plus one.
LEMMA CommitPostgresKeeps ==
    ASSUME StoreInv, NEW p \in StoreProcesses, CommitPostgres(p)
    PROVE  StoreInv'
<1> DEFINE v == opening[p].v
<1>0. /\ build' = build /\ version' = v /\ backend' = backend /\ backend = "postgresql"
      /\ opening[p].at = "migrating" /\ v <= build[p] /\ lock' = lock
      /\ applied' = applied \cup StepsOf(v) /\ sums' = sums \cup {v}
      /\ MovesTo(p, "migrating", v + 1, 1)
  BY DEF CommitPostgres, StepsOf
<1>1. /\ v \in Nat /\ version \in Nat /\ build[p] \in 1..3 /\ v = version + 1
      /\ lock = {p} /\ applied = StepsUpTo(version) /\ sums = 1..version
      /\ \A q \in StoreProcesses : opening[q].at = "migrating" => lock = {q}
  BY <1>0, Facts
<1> HIDE DEF v
<1>2. StepsUpTo(v) = StepsUpTo(version) \cup StepsOf(v)
  BY <1>1, StepsAdd
<1>3. (1..version) \cup {v} = 1..v
  BY <1>1
<1>4. \A q \in StoreProcesses \ {p} : opening[q].at # "migrating"
  BY <1>1
<1>5. Standing([at |-> "migrating", v |-> v + 1, i |-> 1], build[p], applied', backend)
  BY <1>0, <1>1, <1>2, StandsAtNext
<1>6. applied' = StepsUpTo(v) /\ sums' = 1..v /\ applied \subseteq applied'
  BY <1>0, <1>1, <1>2, <1>3
<1>7. v + 1 \in Nat /\ "migrating" \in Positions
  BY <1>1 DEF Positions
<1> QED BY <1>0, <1>1, <1>4, <1>5, <1>6, <1>7, MoveKeeps, Zenon

\* A process that leaves _init_schema, by finishing, stopping or being
\* restarted, keeps the invariant.
LEMMA LeavingKeeps ==
    ASSUME StoreInv, NEW p \in StoreProcesses, Opened(p) \/ StopsOpening(p) \/ Restarts(p)
    PROVE  StoreInv'
<1>0. /\ build' = build /\ version' = version /\ applied' = applied /\ sums' = sums
      /\ backend' = backend
      /\ lock' = lock \ {p} \/ lock' = lock
  BY DEF Opened, StopsOpening, Restarts
<1>1. backend = "postgresql" =>
          \A q \in StoreProcesses \ {p} : opening[q].at = "migrating" => lock' = {q}
  BY <1>0, Facts
<1>2. CASE Opened(p)
  <2>1. MovesTo(p, "open", 0, 0) /\ opening[p].at = "migrating" /\ opening[p].v > build[p]
    BY <1>2 DEF Opened
  <2>2. /\ opening[p].v = build[p] + 1 /\ StepsUpTo(opening[p].v - 1) \subseteq applied
        /\ build[p] \in 1..3
    BY <2>1, Facts DEF Standing
  <2>3. opening[p].v - 1 = build[p]
    BY <2>2
  <2>4. StepsUpTo(build[p]) \subseteq applied'
    BY <1>0, <2>2, <2>3
  <2>5. Standing([at |-> "open", v |-> 0, i |-> 0], build[p], applied', backend)
    BY Idle, ZenonT(30) DEF Positions
  <2> QED BY <1>0, <1>1, <2>1, <2>4, <2>5, Facts, MoveKeeps DEF Positions
<1>3. CASE StopsOpening(p) \/ Restarts(p)
  <2>1. MovesTo(p, "closed", 0, 0)
    BY <1>3 DEF StopsOpening, Restarts
  <2>2. Standing([at |-> "closed", v |-> 0, i |-> 0], build[p], applied', backend)
    BY Idle DEF Positions
  <2> QED BY <1>0, <1>1, <2>1, <2>2, Facts, MoveKeeps DEF Positions
<1> QED BY <1>2, <1>3

\* The inductive step, one case per action.
LEMMA StoreInvStep == StoreInv /\ [PortalStoreNext]_psvars => StoreInv'
<1> SUFFICES ASSUME StoreInv, [PortalStoreNext]_psvars PROVE StoreInv'
  OBVIOUS
<1>1. ASSUME NEW p \in StoreProcesses,
             \/ OpenStore(p) \/ StepSqlite(p) \/ AddUserRole(p) \/ CommitSqlite(p)
             \/ CommitPostgres(p) \/ Opened(p) \/ StopsOpening(p) \/ Restarts(p)
      PROVE  StoreInv'
  BY <1>1, OpenStoreKeeps, StepSqliteKeeps, AddUserRoleKeeps, CommitSqliteKeeps,
     CommitPostgresKeeps, LeavingKeeps
<1>2. CASE UNCHANGED psvars
  BY <1>2 DEF psvars, StoreInv, StoreTypeOK, UnderLock, SchemaHonest
<1> QED BY <1>1, <1>2 DEF PortalStoreNext

\* An empty database that nobody has opened.
LEMMA StoreInvInit == PortalStoreInit => StoreInv
<1> SUFFICES ASSUME PortalStoreInit PROVE StoreInv
  OBVIOUS
<1>1. /\ build \in [StoreProcesses -> 1..3] /\ version = 0 /\ applied = {} /\ sums = {}
      /\ opening \in [StoreProcesses -> [at : Positions, v : Nat, i : Nat]]
      /\ \A p \in StoreProcesses : opening[p].at = "closed"
      /\ backend \in {"sqlite", "postgresql"}
  BY PortalStoreConstants DEF PortalStoreInit, Closed, Positions
<1>2. StepsUpTo(0) = {} /\ 1..0 = {}
  BY StepsAdd
<1> QED BY <1>1, <1>2 DEF StoreInv, StoreTypeOK, UnderLock, SchemaHonest, Standing

\* The invariant behind the theorems below.
THEOREM StoreInvHolds == PortalStoreSpec => []StoreInv
BY StoreInvInit, StoreInvStep, PTL DEF PortalStoreSpec

\* Whatever stops or races during the migrations (_init_schema), the recorded
\* version promises no more than was applied, a process in service finds the
\* tables and columns of its build, and on PostgreSQL steps, version and
\* checksums agree exactly.
THEOREM SchemaStaysHonest == PortalStoreSpec => []SchemaHonest
BY StoreInvHolds, PTL DEF StoreInv

\* On PostgreSQL a schema moves forward only, one migration at a time, and a
\* build leaves a newer schema alone (pg_advisory_lock, the refusal in
\* _init_schema).
THEOREM SchemaMovesForward == PortalStoreSpec => [][SchemaStep]_psvars
<1>1. StoreInv /\ [PortalStoreNext]_psvars => [SchemaStep]_psvars
  <2> SUFFICES ASSUME StoreInv, NEW p \in StoreProcesses,
                      \/ OpenStore(p) \/ StepSqlite(p) \/ AddUserRole(p) \/ CommitSqlite(p)
                      \/ CommitPostgres(p) \/ Opened(p) \/ StopsOpening(p) \/ Restarts(p),
                      backend = "postgresql"
               PROVE  SchemaStep
    BY Zenon DEF PortalStoreNext, SchemaStep
  <2>1. CASE OpenStore(p) \/ Opened(p) \/ StopsOpening(p) \/ Restarts(p)
    BY <2>1, Zenon DEF OpenStore, Opened, StopsOpening, Restarts, SchemaStep
  <2>2. CASE StepSqlite(p) \/ CommitSqlite(p)
    BY <2>2, Zenon DEF StepSqlite, CommitSqlite
  <2>3. CASE AddUserRole(p)
    BY <2>3, Facts, Zenon DEF AddUserRole, Standing
  <2>4. CASE CommitPostgres(p)
    <3>1. /\ version' = opening[p].v /\ opening[p].v = version + 1 /\ opening[p].v <= build[p]
          /\ version \in Nat /\ build[p] \in 1..3
      BY <2>4, Facts DEF CommitPostgres
    <3>2. ~(version > build[p])
      BY <3>1
    <3>3. \A q \in StoreProcesses : q # p => opening'[q] = opening[q]
      BY <2>4 DEF CommitPostgres, MovesTo, StoreInv, StoreTypeOK
    <3> QED BY <3>1, <3>2, <3>3, ZenonT(30) DEF SchemaStep
  <2> QED BY <2>1, <2>2, <2>3, <2>4
<1> QED BY <1>1, StoreInvHolds, PTL DEF PortalStoreSpec

-----------------------------------------------------------------------------
(* Backup and restore. *)

\* One more at the end of a sequence.
LEMMA AppendedIs ==
    ASSUME NEW S, NEW s \in Seq(S), NEW x \in S
    PROVE  /\ Append(s, x) \in Seq(S) /\ Append(s, x) # <<>> /\ Len(Append(s, x)) = Len(s) + 1
           /\ \A i \in 1..Len(s) : Append(s, x)[i] = s[i]
           /\ Append(s, x)[Len(s) + 1] = x
OBVIOUS

\* An element of a sequence.
LEMMA ElementIs ==
    ASSUME NEW S, NEW s \in Seq(S), NEW n \in 1..Len(s)
    PROVE  s[n] \in S
OBVIOUS

\* The tables of the model.
TableNames == {"users", "sessions", "devices", "credentials"}
\* A row: its number, the row it refers to, and two flags.
Rows == [id : Nat, of : Nat, live : BOOLEAN, old : BOOLEAN]
\* A database.
Databases == [TableNames -> SUBSET Rows]
\* A backup that is being read.
Dumps == [at : 0 .. 5, data : Databases, quiet : BOOLEAN, schema : Nat]
\* A backup file.
BackupFiles == [data : Databases, quiet : BOOLEAN, damaged : BOOLEAN, schema : Nat]

\* The types of the state.
BackupTypes ==
    /\ liveDb \in Databases /\ freshDb \in Databases /\ dump \in Dumps
    /\ files \in Seq(BackupFiles) /\ schema \in Nat
    /\ restores \in [applied : Nat, failed : SUBSET Nat] /\ restores.failed \subseteq DOMAIN files
    /\ \A t \in TableNames : IsFiniteSet(liveDb[t])

\* The first row of the database is a user's, and users are never deleted.
FirstUser(db) == db["users"] # {} => \E r \in db["users"] : r.id = 1

\* The rows of two tables are the same but for their ages and revocations.
SameRows(S, T) ==
    /\ \A r \in S : \E q \in T : q.id = r.id /\ q.of = r.of
    /\ \A r \in T : \E q \in S : q.id = r.id /\ q.of = r.of

\* What an undisturbed dump has read is what the database holds.
QuietDump ==
    dump.quiet => \A i \in 1 .. 4 : i < dump.at =>
                      SameRows(dump.data[Tables[i]], liveDb[Tables[i]])

\* A file has its first user, and is consistent when nothing disturbed it.
WholeFiles ==
    \A f \in DOMAIN files : FirstUser(files[f].data) /\ (files[f].quiet => RefersOk(files[f].data))

\* The inductive invariant of backup and restore.
BackupInv ==
    /\ BackupTypes /\ RestoreWhole /\ QuietDump /\ WholeFiles
    /\ FirstUser(liveDb) /\ FirstUser(dump.data) /\ FirstUser(freshDb)

-----------------------------------------------------------------------------
\* The order of the tables.
LEMMA TheTables ==
    /\ Tables[1] = "users" /\ Tables[2] = "sessions" /\ Tables[3] = "devices"
    /\ Tables[4] = "credentials" /\ {Tables[i] : i \in 1 .. 4} = TableNames
    /\ EmptyDb \in Databases /\ \A t \in TableNames : EmptyDb[t] = {}
<1>1. /\ Tables[1] = "users" /\ Tables[2] = "sessions" /\ Tables[3] = "devices"
      /\ Tables[4] = "credentials"
  BY DEF Tables
<1>2. {Tables[i] : i \in 1 .. 4} = TableNames
  <2>1. \A i \in 1 .. 4 : i = 1 \/ i = 2 \/ i = 3 \/ i = 4
    OBVIOUS
  <2>2. \A i \in 1 .. 4 : Tables[i] \in TableNames
    BY <1>1, <2>1 DEF TableNames
  <2>3. \A t \in TableNames : \E i \in 1 .. 4 : Tables[i] = t
    BY <1>1 DEF TableNames
  <2> QED BY <2>2, <2>3
<1>3. EmptyDb = [t \in TableNames |-> {}]
  BY <1>2 DEF EmptyDb
<1> QED BY <1>1, <1>2, <1>3 DEF Databases

\* What consistency of references comes to.
LEMMA Refers ==
    ASSUME NEW db \in Databases
    PROVE  RefersOk(db) <=> /\ \A r \in db["sessions"] : \E q \in db["users"] : q.id = r.of
                            /\ \A r \in db["devices"] : \E q \in db["users"] : q.id = r.of
                            /\ \A r \in db["credentials"] : \E q \in db["devices"] : q.id = r.of
<1>1. DOMAIN db = TableNames
  BY DEF Databases
<1>2. /\ References("users") = "none" /\ References("sessions") = "users"
      /\ References("devices") = "users" /\ References("credentials") = "devices"
  BY DEF References
<1>3. \A t \in TableNames : t = "users" \/ t = "sessions" \/ t = "devices" \/ t = "credentials"
  BY DEF TableNames
<1>4. /\ "users" \in TableNames /\ "sessions" \in TableNames /\ "devices" \in TableNames
      /\ "credentials" \in TableNames
  BY DEF TableNames
<1> QED BY <1>1, <1>2, <1>3, <1>4 DEF RefersOk

\* It does not depend on ages and revocations.
LEMMA SameRefers ==
    ASSUME NEW db \in Databases, NEW other \in Databases, RefersOk(other),
           \A t \in TableNames : SameRows(db[t], other[t])
    PROVE  RefersOk(db)
<1>1. /\ SameRows(db["users"], other["users"]) /\ SameRows(db["sessions"], other["sessions"])
      /\ SameRows(db["devices"], other["devices"])
      /\ SameRows(db["credentials"], other["credentials"])
  BY DEF TableNames
<1>2. \A r \in db["sessions"] : \E q \in db["users"] : q.id = r.of
  BY <1>1, Refers DEF SameRows
<1>3. \A r \in db["devices"] : \E q \in db["users"] : q.id = r.of
  BY <1>1, Refers DEF SameRows
<1>4. \A r \in db["credentials"] : \E q \in db["devices"] : q.id = r.of
  BY <1>1, Refers DEF SameRows
<1> QED BY <1>2, <1>3, <1>4, Refers

\* Without users a consistent database is empty.
LEMMA SomeUser ==
    ASSUME NEW db \in Databases, RefersOk(db), db["users"] = {}
    PROVE  db = EmptyDb
<1>1. db["sessions"] = {} /\ db["devices"] = {}
  BY Refers
<1>2. db["credentials"] = {}
  BY <1>1, Refers
<1>3. \A t \in TableNames : db[t] = {}
  BY <1>1, <1>2 DEF TableNames
<1> QED BY <1>3, TheTables DEF Databases

\* A table has the rows it has.
LEMMA SameReflexive ==
    \A S : SameRows(S, S)
BY DEF SameRows

\* The first user stays when the rows do.
LEMMA SameFirst ==
    ASSUME NEW S, NEW T, SameRows(S, T), T # {} => \E r \in T : r.id = 1
    PROVE  S # {} => \E r \in S : r.id = 1
BY DEF SameRows

\* Two databases with a first user cannot be merged.
LEMMA OnlyIntoEmpty ==
    ASSUME NEW into \in Databases, NEW data \in Databases, RefersOk(into), RefersOk(data),
           FirstUser(into), FirstUser(data), ~Clash(into, data)
    PROVE  /\ Inserted(into, data) = into \/ (into = EmptyDb /\ Inserted(into, data) = data)
<1>1. DOMAIN into = TableNames /\ "users" \in TableNames
  BY DEF Databases, TableNames
<1>2. into["users"] = {} \/ data["users"] = {}
  BY <1>1 DEF FirstUser, Clash
<1>3. CASE into["users"] = {}
  <2>1. into = EmptyDb
    BY <1>3, SomeUser
  <2> QED BY <1>1, <2>1, TheTables DEF Inserted, Databases
<1>4. CASE data["users"] = {}
  <2>1. data = EmptyDb
    BY <1>4, SomeUser
  <2> QED BY <1>1, <2>1, TheTables DEF Inserted, Databases
<1> QED BY <1>2, <1>3, <1>4

-----------------------------------------------------------------------------
\* A change of the live database that may only disturb a dump.
LEMMA PortalWrites ==
    ASSUME BackupInv, UNCHANGED <<files, freshDb, schema, restores>>,
           liveDb' \in Databases, \A t \in TableNames : IsFiniteSet(liveDb'[t]),
           RefersOk(liveDb'), FirstUser(liveDb'),
           Disturbed \/ (UNCHANGED dump /\ \A t \in TableNames : SameRows(liveDb[t], liveDb'[t]))
    PROVE  BackupInv'
<1>0. dump \in Dumps
  BY DEF BackupInv, BackupTypes
<1>1. /\ dump' \in Dumps /\ dump'.data = dump.data /\ dump'.at = dump.at /\ dump.at \in 0 .. 5
      /\ Disturbed => dump'.quiet = (dump.at = 0)
  BY <1>0, Zenon DEF Disturbed, Dumps
<1>2. BackupTypes'
  BY <1>1 DEF BackupInv, BackupTypes
<1>3. RestoreWhole' /\ WholeFiles' /\ FirstUser(dump.data)' /\ FirstUser(freshDb)'
  <2>1. FirstUser(dump'.data) /\ FirstUser(freshDb')
    BY <1>1 DEF BackupInv
  <2>2. RestoreWhole'
    <3>1. freshDb' = freshDb /\ files' = files /\ restores' = restores
      OBVIOUS
    <3>2. freshDb = EmptyDb \/ \E f \in DOMAIN files : ~files[f].damaged /\ freshDb = files[f].data
      BY DEF BackupInv, RestoreWhole
    <3>3. \A f \in restores.failed : files[f].quiet => freshDb # EmptyDb
      BY DEF BackupInv, RestoreWhole
    <3>4. RefersOk(freshDb)
      BY DEF BackupInv, RestoreWhole
    <3> QED BY <3>1, <3>2, <3>3, <3>4 DEF RestoreWhole
  <2>3. WholeFiles'
    BY DEF BackupInv, WholeFiles
  <2> QED BY <2>1, <2>2, <2>3
<1>4. QuietDump'
  <2>1. CASE Disturbed
    <3>1. dump'.quiet => dump'.at = 0
      BY <1>1, <2>1, Zenon
    <3>2. \A i \in 1 .. 4 : ~(i < 0)
      OBVIOUS
    <3> QED BY <3>1, <3>2 DEF QuietDump
  <2>2. CASE UNCHANGED dump /\ \A t \in TableNames : SameRows(liveDb[t], liveDb'[t])
    <3> SUFFICES ASSUME dump.quiet, NEW i \in 1 .. 4, i < dump.at
                 PROVE  SameRows(dump.data[Tables[i]], liveDb'[Tables[i]])
      BY <2>2 DEF QuietDump
    <3>1. SameRows(dump.data[Tables[i]], liveDb[Tables[i]])
      BY DEF BackupInv, QuietDump
    <3>2. SameRows(liveDb[Tables[i]], liveDb'[Tables[i]])
      BY <2>2, TheTables
    <3> QED BY <3>1, <3>2 DEF SameRows
  <2> QED BY <2>1, <2>2
<1> QED BY <1>2, <1>3, <1>4 DEF BackupInv

\* The portal inserts a row.
LEMMA InsertKeeps ==
    ASSUME BackupInv, NEW t \in DOMAIN liveDb, InsertRow(t)
    PROVE  BackupInv'
<1>0. /\ liveDb \in Databases /\ DOMAIN liveDb = TableNames /\ t \in TableNames
      /\ RefersOk(liveDb) /\ FirstUser(liveDb) /\ \A s \in TableNames : IsFiniteSet(liveDb[s])
  BY DEF BackupInv, BackupTypes, RestoreWhole, Databases
<1>1. RowCount(liveDb) \in Nat
  <2>1. \A s \in TableNames : Cardinality(liveDb[s]) \in Nat
    BY <1>0, FS_CardinalityType
  <2> QED BY <2>1 DEF RowCount, TableNames
<1>2. PICK o \in IF References(t) = "none" THEN {0} ELSE {q.id : q \in liveDb[References(t)]} :
        liveDb' = [liveDb EXCEPT ![t] = @ \cup {[id |-> RowCount(liveDb) + 1, of |-> o, live |-> TRUE, old |-> FALSE]}]
  BY Zenon DEF InsertRow
<1> DEFINE row == [id |-> RowCount(liveDb) + 1, of |-> o, live |-> TRUE, old |-> FALSE]
<1>3. /\ t # "users" => References(t) \in TableNames \ {"none"}
      /\ t = "users" => References(t) = "none"
      /\ t = "sessions" => References(t) = "users"
      /\ t = "devices" => References(t) = "users"
      /\ t = "credentials" => References(t) = "devices"
  BY <1>0 DEF References, TableNames
<1>4. o \in Nat
  <2>1. CASE t = "users"
    BY <1>2, <1>3, <2>1
  <2>2. CASE t # "users"
    <3>1. PICK q \in liveDb[References(t)] : o = q.id
      BY <1>2, <1>3, <2>2
    <3> QED BY <1>0, <1>3, <2>2, <3>1 DEF Databases, Rows
  <2> QED BY <2>1, <2>2
<1>5. row \in Rows /\ row.id = RowCount(liveDb) + 1 /\ row.of = o
  BY <1>1, <1>4 DEF Rows
<1> HIDE DEF row
<1>6. /\ liveDb' \in Databases /\ liveDb'[t] = liveDb[t] \cup {row}
      /\ \A s \in TableNames : s # t => liveDb'[s] = liveDb[s]
  BY <1>0, <1>2, <1>5, Zenon DEF Databases, row
<1>7. \A s \in TableNames : IsFiniteSet(liveDb'[s])
  BY <1>0, <1>6, FS_AddElement
<1>8. RefersOk(liveDb')
  <2>0. \A s \in TableNames : liveDb[s] \subseteq liveDb'[s]
    BY <1>6
  <2>1. t # "users" => \E q \in liveDb'[References(t)] : q.id = o
    <3> SUFFICES ASSUME t # "users" PROVE \E q \in liveDb'[References(t)] : q.id = o
      OBVIOUS
    <3>1. PICK q \in liveDb[References(t)] : o = q.id
      BY <1>2, <1>3
    <3> QED BY <1>3, <2>0, <3>1
  <2>2. ASSUME NEW r \in liveDb'["sessions"] PROVE \E q \in liveDb'["users"] : q.id = r.of
    BY <1>0, <1>3, <1>5, <1>6, <2>0, <2>1, Refers DEF TableNames
  <2>3. ASSUME NEW r \in liveDb'["devices"] PROVE \E q \in liveDb'["users"] : q.id = r.of
    BY <1>0, <1>3, <1>5, <1>6, <2>0, <2>1, Refers DEF TableNames
  <2>4. ASSUME NEW r \in liveDb'["credentials"] PROVE \E q \in liveDb'["devices"] : q.id = r.of
    BY <1>0, <1>3, <1>5, <1>6, <2>0, <2>1, Refers DEF TableNames
  <2> QED BY <1>6, <2>2, <2>3, <2>4, Refers
<1>9. FirstUser(liveDb')
  <2>1. CASE liveDb["users"] # {}
    BY <1>6, <2>1, <1>0 DEF FirstUser, TableNames
  <2>2. CASE liveDb["users"] = {} /\ t = "users"
    <3>1. liveDb = EmptyDb
      BY <1>0, <2>2, SomeUser
    <3>2. RowCount(liveDb) = 0
      <4>1. /\ liveDb["users"] = {} /\ liveDb["sessions"] = {} /\ liveDb["devices"] = {}
            /\ liveDb["credentials"] = {}
        BY <3>1, TheTables DEF TableNames
      <4>2. Cardinality({}) = 0
        BY FS_EmptySet
      <4> QED BY <4>1, <4>2 DEF RowCount
    <3> QED BY <1>5, <1>6, <2>2, <3>2 DEF FirstUser
  <2>3. CASE liveDb["users"] = {} /\ t # "users"
    <3>1. liveDb'["users"] = {}
      BY <1>6, <2>3 DEF TableNames
    <3> QED BY <3>1 DEF FirstUser
  <2> QED BY <2>1, <2>2, <2>3
<1>10. Disturbed /\ UNCHANGED <<files, freshDb, schema, restores>>
  BY DEF InsertRow
<1> QED BY <1>6, <1>7, <1>8, <1>9, <1>10, PortalWrites

\* Rows that change neither their id nor their reference.
LEMMA Reworked ==
    ASSUME BackupInv, NEW t \in TableNames, NEW rows \in SUBSET Rows, IsFiniteSet(rows),
           SameRows(rows, liveDb[t]), liveDb' = [liveDb EXCEPT ![t] = rows]
    PROVE  /\ liveDb' \in Databases /\ \A s \in TableNames : IsFiniteSet(liveDb'[s])
           /\ RefersOk(liveDb') /\ FirstUser(liveDb')
           /\ \A s \in TableNames : SameRows(liveDb[s], liveDb'[s])
<1>0. liveDb \in Databases /\ RefersOk(liveDb) /\ FirstUser(liveDb)
      /\ \A s \in TableNames : IsFiniteSet(liveDb[s])
  BY DEF BackupInv, BackupTypes, RestoreWhole
<1>1. /\ liveDb' \in Databases /\ liveDb'[t] = rows
      /\ \A s \in TableNames : s # t => liveDb'[s] = liveDb[s]
  BY <1>0 DEF Databases
<1>2. \A s \in TableNames : SameRows(liveDb'[s], liveDb[s]) /\ SameRows(liveDb[s], liveDb'[s])
  BY <1>1 DEF SameRows
<1>3. RefersOk(liveDb')
  BY <1>0, <1>1, <1>2, SameRefers, Zenon
<1>4. FirstUser(liveDb')
  <2>1. SameRows(liveDb'["users"], liveDb["users"])
    BY <1>2 DEF TableNames
  <2> QED BY <1>0, <2>1, SameFirst DEF FirstUser
<1> QED BY <1>0, <1>1, <1>2, <1>3, <1>4

\* The portal revokes a row.
LEMMA RevokeKeepsBackups ==
    ASSUME BackupInv, NEW t \in DOMAIN liveDb, RevokeRow(t)
    PROVE  BackupInv'
<1>0. /\ liveDb \in Databases /\ t \in TableNames /\ IsFiniteSet(liveDb[t]) /\ liveDb[t] \subseteq Rows
  BY DEF BackupInv, BackupTypes, Databases
<1>1. PICK r \in liveDb[t] :
        liveDb' = [liveDb EXCEPT ![t] = (@ \ {r}) \cup {[r EXCEPT !.live = FALSE]}]
  BY Zenon DEF RevokeRow
<1> DEFINE q == [r EXCEPT !.live = FALSE]
           rows == (liveDb[t] \ {r}) \cup {q}
<1>2. q \in Rows /\ q.id = r.id /\ q.of = r.of
  BY <1>0, Zenon DEF Rows
<1> HIDE DEF q
<1>3. IsFiniteSet(rows)
  <2>1. IsFiniteSet(liveDb[t] \ {r})
    BY <1>0, FS_Subset
  <2> QED BY <2>1, FS_AddElement
<1>4. SameRows(rows, liveDb[t])
  BY <1>2 DEF SameRows
<1>5. rows \in SUBSET Rows
  BY <1>0, <1>2
<1>6. liveDb' = [liveDb EXCEPT ![t] = rows]
  BY <1>1 DEF q
<1>7. Disturbed /\ UNCHANGED <<files, freshDb, schema, restores>>
  BY DEF RevokeRow
<1> HIDE DEF rows
<1>8. /\ liveDb' \in Databases /\ \A s \in TableNames : IsFiniteSet(liveDb'[s])
      /\ RefersOk(liveDb') /\ FirstUser(liveDb')
  BY <1>0, <1>3, <1>4, <1>5, <1>6, Reworked, Zenon
<1> QED BY <1>7, <1>8, PortalWrites

\* Sessions grow old.
LEMMA AgeKeeps ==
    ASSUME BackupInv, SessionsAge
    PROVE  BackupInv'
<1>0. /\ liveDb \in Databases /\ "sessions" \in TableNames /\ IsFiniteSet(liveDb["sessions"])
      /\ liveDb["sessions"] \subseteq Rows
  BY DEF BackupInv, BackupTypes, Databases, TableNames
<1> DEFINE f == [r \in liveDb["sessions"] |-> [r EXCEPT !.old = TRUE]]
           rows == {[r EXCEPT !.old = TRUE] : r \in liveDb["sessions"]}
<1>1. \A r \in Rows : /\ [r EXCEPT !.old = TRUE] \in Rows /\ [r EXCEPT !.old = TRUE].id = r.id
                      /\ [r EXCEPT !.old = TRUE].of = r.of
  BY Zenon DEF Rows
<1>2. IsFiniteSet(rows)
  <2>1. f \in Surjection(liveDb["sessions"], rows)
    BY Zenon DEF Surjection
  <2> QED BY <1>0, <2>1, FS_Surjection
<1>3. SameRows(rows, liveDb["sessions"]) /\ rows \in SUBSET Rows
  BY <1>0, <1>1, ZenonT(30) DEF SameRows
<1>4. liveDb' = [liveDb EXCEPT !["sessions"] = rows] /\ UNCHANGED <<dump, files, freshDb, schema, restores>>
  BY DEF SessionsAge
<1> HIDE DEF rows
<1> QED BY <1>0, <1>2, <1>3, <1>4, Reworked, PortalWrites, ZenonT(30)

\* Retention deletes old sessions.
LEMMA RetentionKeeps ==
    ASSUME BackupInv, RunRetention
    PROVE  BackupInv'
<1>0. /\ liveDb \in Databases /\ RefersOk(liveDb) /\ FirstUser(liveDb)
      /\ \A s \in TableNames : IsFiniteSet(liveDb[s])
  BY DEF BackupInv, BackupTypes, RestoreWhole
<1>1. /\ liveDb' = [liveDb EXCEPT !["sessions"] = {r \in @ : r.live \/ ~r.old}]
      /\ Disturbed /\ UNCHANGED <<files, freshDb, schema, restores>>
  BY DEF RunRetention
<1>2. /\ liveDb' \in Databases /\ liveDb'["sessions"] \subseteq liveDb["sessions"]
      /\ \A s \in TableNames : s # "sessions" => liveDb'[s] = liveDb[s]
  BY <1>0, <1>1 DEF Databases, TableNames
<1>3. \A s \in TableNames : IsFiniteSet(liveDb'[s])
  BY <1>0, <1>2, FS_Subset
<1>4. /\ liveDb'["users"] = liveDb["users"] /\ liveDb'["devices"] = liveDb["devices"]
      /\ liveDb'["credentials"] = liveDb["credentials"]
  BY <1>2 DEF TableNames
<1>5. RefersOk(liveDb')
  BY <1>0, <1>2, <1>4, Refers
<1>6. FirstUser(liveDb')
  BY <1>0, <1>4 DEF FirstUser
<1> QED BY <1>1, <1>2, <1>3, <1>5, <1>6, PortalWrites

\* A migration.
LEMMA MigrateKeeps ==
    ASSUME BackupInv, Migrate
    PROVE  BackupInv'
<1>1. UNCHANGED <<liveDb, dump, files, freshDb, restores>> /\ schema' \in Nat
  BY DEF Migrate
<1> QED BY <1>1 DEF BackupInv, BackupTypes, RestoreWhole, QuietDump, WholeFiles

\* The steps that only touch the dump in progress.
LEMMA DumpKeeps ==
    ASSUME BackupInv, UNCHANGED <<liveDb, files, freshDb, schema, restores>>,
           dump' \in Dumps, FirstUser(dump'.data), QuietDump'
    PROVE  BackupInv'
<1>1. BackupTypes'
  BY DEF BackupInv, BackupTypes
<1>2. RestoreWhole' /\ WholeFiles'
  BY DEF BackupInv, RestoreWhole, WholeFiles
<1> QED BY <1>1, <1>2 DEF BackupInv

\* No backup in progress.
LEMMA NoDumpFacts ==
    /\ NoDump \in Dumps /\ NoDump.data = EmptyDb /\ NoDump.at = 0 /\ FirstUser(EmptyDb)
<1>1. FirstUser(EmptyDb)
  BY TheTables DEF FirstUser, TableNames
<1> QED BY <1>1, TheTables DEF NoDump, Dumps

\* A backup starts, or stops half way.
LEMMA StartsAborts ==
    ASSUME BackupInv, BackupStarts \/ BackupAborts
    PROVE  BackupInv'
<1>1. UNCHANGED <<liveDb, files, freshDb, schema, restores>>
  BY DEF BackupStarts, BackupAborts
<1>2. dump' \in Dumps /\ dump'.data = EmptyDb /\ dump'.at \in {0, 1}
  <2>1. CASE BackupAborts
    BY <2>1, NoDumpFacts DEF BackupAborts
  <2>2. CASE BackupStarts
    <3>1. dump' = [at |-> 1, data |-> EmptyDb, quiet |-> TRUE, schema |-> schema] /\ schema \in Nat
      BY <2>2, Zenon DEF BackupStarts, NoDump, BackupInv, BackupTypes
    <3> QED BY <3>1, TheTables DEF Dumps
  <2> QED BY <2>1, <2>2
<1>3. QuietDump'
  <2>1. \A i \in 1 .. 4 : ~(i < 0) /\ ~(i < 1)
    OBVIOUS
  <2> QED BY <1>2, <2>1 DEF QuietDump
<1>4. FirstUser(dump'.data)
  BY <1>2, NoDumpFacts
<1> QED BY <1>1, <1>2, <1>3, <1>4, DumpKeeps

\* A backup reads one more table.
LEMMA DumpTableKeeps ==
    ASSUME BackupInv, DumpTable
    PROVE  BackupInv'
<1>0. /\ dump \in Dumps /\ dump.data \in Databases /\ liveDb \in Databases /\ dump.quiet \in BOOLEAN
      /\ dump.schema \in Nat /\ FirstUser(dump.data) /\ FirstUser(liveDb)
  BY DEF BackupInv, BackupTypes, Dumps
<1>1. PICK n \in 1 .. 4 : n = dump.at
  BY DEF DumpTable
<1>2. PICK t \in TableNames : t = Tables[n]
  BY TheTables
<1> DEFINE data == [dump.data EXCEPT ![t] = liveDb[t]]
<1>3. /\ UNCHANGED <<liveDb, files, freshDb, schema, restores>>
      /\ dump' = [at |-> n + 1, data |-> data, quiet |-> dump.quiet, schema |-> dump.schema]
  BY <1>1, <1>2 DEF DumpTable
<1>4. /\ data \in Databases /\ data[t] = liveDb[t]
      /\ \A s \in TableNames : s # t => data[s] = dump.data[s]
  BY <1>0 DEF Databases
<1> HIDE DEF data
<1>5. dump' \in Dumps /\ dump'.data = data /\ dump'.at = n + 1 /\ dump'.quiet = dump.quiet
  BY <1>0, <1>3, <1>4 DEF Dumps
<1>6. FirstUser(data)
  BY <1>0, <1>4 DEF FirstUser, TableNames
<1>7. QuietDump'
  <2> SUFFICES ASSUME dump.quiet, NEW i \in 1 .. 4, i < n + 1
               PROVE  SameRows(data[Tables[i]], liveDb[Tables[i]])
    BY <1>3, <1>5 DEF QuietDump
  <2>1. Tables[i] \in TableNames
    BY TheTables
  <2>2. CASE Tables[i] = t
    BY <1>4, <2>2, SameReflexive
  <2>3. CASE Tables[i] # t
    <3>1. i < dump.at
      BY <1>1, <1>2, <2>3
    <3> QED BY <1>4, <2>1, <2>3, <3>1 DEF BackupInv, QuietDump
  <2> QED BY <2>2, <2>3, ZenonT(30)
<1> QED BY <1>3, <1>5, <1>6, <1>7, DumpKeeps

\* A backup is written.
LEMMA WriteKeeps_ ==
    ASSUME BackupInv, WriteBackup
    PROVE  BackupInv'
<1>0. /\ dump \in Dumps /\ dump.data \in Databases /\ dump.quiet \in BOOLEAN /\ dump.schema \in Nat
      /\ dump.at = 5 /\ files \in Seq(BackupFiles) /\ FirstUser(dump.data) /\ liveDb \in Databases
      /\ RefersOk(liveDb)
  BY DEF BackupInv, BackupTypes, Dumps, WriteBackup, RestoreWhole
<1>1. PICK d \in BOOLEAN :
        files' = Append(files, [data |-> dump.data, quiet |-> dump.quiet, damaged |-> d, schema |-> dump.schema])
  BY DEF WriteBackup
<1> DEFINE file == [data |-> dump.data, quiet |-> dump.quiet, damaged |-> d, schema |-> dump.schema]
<1>2. file \in BackupFiles /\ file.data = dump.data /\ file.quiet = dump.quiet
  BY <1>0 DEF BackupFiles
<1>3. UNCHANGED <<liveDb, freshDb, schema, restores>> /\ dump' = NoDump /\ files' = Append(files, file)
  BY <1>1 DEF WriteBackup
<1> HIDE DEF file
<1>4. /\ files' \in Seq(BackupFiles) /\ Len(files') = Len(files) + 1 /\ files'[Len(files) + 1] = file
      /\ \A f \in 1 .. Len(files) : files'[f] = files[f]
      /\ Len(files) \in Nat /\ DOMAIN files = 1 .. Len(files) /\ DOMAIN files' = 1 .. Len(files')
  <2>1. /\ files' \in Seq(BackupFiles) /\ Len(files') = Len(files) + 1 /\ files'[Len(files) + 1] = file
        /\ \A f \in 1 .. Len(files) : files'[f] = files[f]
    BY <1>0, <1>2, <1>3, AppendedIs
  <2> QED BY <1>0, <2>1
<1>5. \A f \in DOMAIN files : f \in DOMAIN files' /\ files'[f] = files[f]
  BY <1>4
<1>6. file.quiet => RefersOk(file.data)
  <2> SUFFICES ASSUME dump.quiet PROVE RefersOk(dump.data)
    BY <1>2
  <2>1. \A i \in 1 .. 4 : SameRows(dump.data[Tables[i]], liveDb[Tables[i]])
    BY <1>0 DEF BackupInv, QuietDump
  <2>2. \A t \in TableNames : \E i \in 1 .. 4 : t = Tables[i]
    BY TheTables
  <2>3. \A t \in TableNames : SameRows(dump.data[t], liveDb[t])
    BY <2>1, <2>2
  <2> QED BY <1>0, <2>3, SameRefers
<1>7. WholeFiles'
  <2> SUFFICES ASSUME NEW f \in DOMAIN files'
               PROVE  FirstUser(files'[f].data) /\ (files'[f].quiet => RefersOk(files'[f].data))
    BY DEF WholeFiles
  <2>1. CASE f = Len(files) + 1
    BY <1>0, <1>2, <1>4, <1>6, <2>1, ZenonT(30)
  <2>2. CASE f # Len(files) + 1
    <3>1. f \in DOMAIN files /\ files'[f] = files[f]
      BY <1>4, <2>2
    <3> QED BY <3>1 DEF BackupInv, WholeFiles
  <2> QED BY <2>1, <2>2
<1>8. RestoreWhole'
  <2>1. /\ freshDb = EmptyDb \/ \E f \in DOMAIN files : ~files[f].damaged /\ freshDb = files[f].data
        /\ \A f \in restores.failed : f \in DOMAIN files /\ (files[f].quiet => freshDb # EmptyDb)
        /\ RefersOk(freshDb)
    BY DEF BackupInv, RestoreWhole, BackupTypes
  <2>2. freshDb = EmptyDb \/ \E f \in DOMAIN files' : ~files'[f].damaged /\ freshDb = files'[f].data
    BY <1>5, <2>1
  <2>3. \A f \in restores.failed : files'[f].quiet => freshDb # EmptyDb
    BY <1>5, <2>1
  <2> QED BY <1>0, <1>3, <2>1, <2>2, <2>3, ZenonT(30) DEF RestoreWhole
<1>9. BackupTypes'
  <2>1. restores.failed \subseteq DOMAIN files'
    BY <1>5 DEF BackupInv, BackupTypes
  <2> QED BY <1>3, <1>4, <2>1, NoDumpFacts, ZenonT(30) DEF BackupInv, BackupTypes
<1>10. QuietDump'
  <2>1. \A i \in 1 .. 4 : ~(i < 0)
    OBVIOUS
  <2> QED BY <1>3, <2>1, NoDumpFacts DEF QuietDump
<1>11. FirstUser(dump'.data)
  BY <1>3, NoDumpFacts, Zenon
<1> QED BY <1>3, <1>7, <1>8, <1>9, <1>10, <1>11, ZenonT(30) DEF BackupInv

\* A restore, applied or rolled back.
LEMMA RestoreKeeps ==
    ASSUME BackupInv, NEW f \in DOMAIN files, RestoreBackup(f)
    PROVE  BackupInv'
<1> DEFINE d == files[f].data
           ok == ~Clash(freshDb, d) /\ RefersOk(d)
<1>0. /\ files \in Seq(BackupFiles) /\ freshDb \in Databases /\ RefersOk(freshDb) /\ FirstUser(freshDb)
      /\ restores \in [applied : Nat, failed : SUBSET Nat] /\ restores.failed \subseteq DOMAIN files
      /\ \A g \in restores.failed : files[g].quiet => freshDb # EmptyDb
      /\ freshDb = EmptyDb \/ \E g \in DOMAIN files : ~files[g].damaged /\ freshDb = files[g].data
  BY DEF BackupInv, BackupTypes, RestoreWhole
<1>1. f \in Nat /\ d \in Databases /\ FirstUser(d) /\ (files[f].quiet => RefersOk(d))
  <2>1. files[f] \in BackupFiles /\ f \in Nat
    BY <1>0, ElementIs
  <2> QED BY <2>1 DEF BackupFiles, BackupInv, WholeFiles
<1>2. /\ ~files[f].damaged /\ UNCHANGED <<liveDb, dump, files, schema>>
      /\ freshDb' = IF ok THEN Inserted(freshDb, d) ELSE freshDb
      /\ restores' = [applied |-> restores.applied + 1,
                      failed |-> IF ok THEN restores.failed ELSE restores.failed \cup {f}]
  BY DEF RestoreBackup, Verified
<1>3. /\ restores' \in [applied : Nat, failed : SUBSET Nat]
      /\ restores'.failed = IF ok THEN restores.failed ELSE restores.failed \cup {f}
  <2> HIDE DEF ok
  <2> QED BY <1>0, <1>1, <1>2
<1>4. \/ freshDb' = freshDb
      \/ freshDb = EmptyDb /\ freshDb' = d /\ RefersOk(d)
  BY <1>0, <1>1, <1>2, OnlyIntoEmpty, ZenonT(30)
<1>5. ASSUME freshDb = EmptyDb PROVE ~Clash(freshDb, d)
  BY <1>0, <1>5, TheTables DEF Clash, Databases
<1>6. freshDb' \in Databases /\ FirstUser(freshDb') /\ RefersOk(freshDb')
  BY <1>0, <1>1, <1>4, Zenon
<1>7. freshDb' = EmptyDb \/ \E g \in DOMAIN files : ~files[g].damaged /\ freshDb' = files[g].data
  BY <1>0, <1>2, <1>4, Zenon
<1>8. \A g \in restores'.failed : files[g].quiet => freshDb' # EmptyDb
  <2> SUFFICES ASSUME NEW g \in restores'.failed, files[g].quiet, freshDb' = EmptyDb PROVE FALSE
    OBVIOUS
  <2>1. freshDb = EmptyDb
    BY <1>4
  <2>2. g \notin restores.failed
    BY <1>0, <2>1
  <2>3. g = f /\ ~ok
    BY <1>3, <2>2, Zenon
  <2> QED BY <1>1, <1>5, <2>1, <2>3, ZenonT(30)
<1> HIDE DEF d, ok
<1>9. RestoreWhole'
  <2>1. RefersOk(liveDb)
    BY DEF BackupInv, RestoreWhole
  <2> QED BY <1>2, <1>6, <1>7, <1>8, <2>1, ZenonT(30) DEF RestoreWhole
<1>10. BackupTypes'
  <2>1. restores'.failed \subseteq DOMAIN files
    BY <1>0, <1>3, ZenonT(30)
  <2> QED BY <1>2, <1>3, <1>6, <2>1 DEF BackupInv, BackupTypes
<1>11. QuietDump' /\ WholeFiles'
  BY <1>2 DEF BackupInv, QuietDump, WholeFiles
<1> QED BY <1>2, <1>6, <1>9, <1>10, <1>11, ZenonT(30) DEF BackupInv

\* An empty portal.
LEMMA BackupInvInit == PortalBackupInit => BackupInv
<1> SUFFICES ASSUME PortalBackupInit PROVE BackupInv
  OBVIOUS
<1>1. /\ liveDb = EmptyDb /\ freshDb = EmptyDb /\ dump = NoDump /\ files = <<>>
      /\ schema = 2 /\ restores = [applied |-> 0, failed |-> {}]
  BY DEF PortalBackupInit
<1>2. RefersOk(EmptyDb)
  BY TheTables, Refers DEF TableNames
<1>3. BackupTypes
  <2>1. restores \in [applied : Nat, failed : SUBSET Nat] /\ restores.failed = {}
    BY <1>1
  <2>2. files \in Seq(BackupFiles) /\ schema \in Nat /\ restores.failed \subseteq DOMAIN files
    BY <1>1, <2>1
  <2>3. \A t \in TableNames : IsFiniteSet(liveDb[t])
    BY <1>1, TheTables, FS_EmptySet, Zenon
  <2> QED BY <1>1, <2>1, <2>2, <2>3, TheTables, NoDumpFacts DEF BackupTypes
<1>4. RestoreWhole
  BY <1>1, <1>2 DEF RestoreWhole
<1>5. QuietDump
  <2>1. \A i \in 1 .. 4 : ~(i < 0)
    OBVIOUS
  <2> QED BY <1>1, <2>1, NoDumpFacts DEF QuietDump
<1>6. WholeFiles
  BY <1>1 DEF WholeFiles
<1> QED BY <1>1, <1>3, <1>4, <1>5, <1>6, NoDumpFacts DEF BackupInv

\* Every step keeps the invariant.
LEMMA BackupInvStep == BackupInv /\ [PortalBackupNext]_pbvars => BackupInv'
<1> SUFFICES ASSUME BackupInv, [PortalBackupNext]_pbvars PROVE BackupInv'
  OBVIOUS
<1>1. CASE \E t \in DOMAIN liveDb : InsertRow(t)
  BY <1>1, InsertKeeps
<1>2. CASE \E t \in DOMAIN liveDb : RevokeRow(t)
  BY <1>2, RevokeKeepsBackups
<1>3. CASE SessionsAge
  BY <1>3, AgeKeeps
<1>4. CASE RunRetention
  BY <1>4, RetentionKeeps
<1>5. CASE Migrate
  BY <1>5, MigrateKeeps
<1>6. CASE BackupStarts \/ BackupAborts
  BY <1>6, StartsAborts
<1>7. CASE DumpTable
  BY <1>7, DumpTableKeeps
<1>8. CASE WriteBackup
  BY <1>8, WriteKeeps_
<1>9. CASE \E f \in DOMAIN files : RestoreBackup(f)
  BY <1>9, RestoreKeeps
<1>10. CASE UNCHANGED pbvars
  BY <1>10, Zenon DEF pbvars, BackupInv, BackupTypes, RestoreWhole, QuietDump, WholeFiles
<1> QED BY <1>1, <1>2, <1>3, <1>4, <1>5, <1>6, <1>7, <1>8, <1>9, <1>10 DEF PortalBackupNext

\* What a restore leaves behind is nothing or exactly one intact backup,
\* references hold throughout, and a backup taken while the portal did not
\* write restores into an empty database (restore_backup), for any number of
\* rows, backups and restores.
THEOREM RestoresAreWhole == PortalBackupSpec => []RestoreWhole
<1>1. BackupInv => RestoreWhole
  BY DEF BackupInv
<1> QED BY <1>1, BackupInvInit, BackupInvStep, PTL DEF PortalBackupSpec

-----------------------------------------------------------------------------
(* The judges of a configuration. *)

\* The environments an operator can write.
EnvTypes(e) ==
    /\ e.SESSION_SECRET \in {"secret", "", "development-secret"}
    /\ e.ALLOWED_HOSTS \in {"hosts", "", "*"}
    /\ e.DATABASE_URL \in {"postgres", "", "sqlite"}
    /\ e.PUBLIC_BASE_URL \in {"https", "", "http"}
    /\ e.BACKUP_ENCRYPT \in {"true", "false"}
    /\ e.BACKUP_ENCRYPTION_KEY \in {"key", ""}
    /\ e.RATE_LIMIT_BACKEND \in {"postgresql", "memory", "redis"}

\* Once somebody has judged the environment nobody edits it.
ConfigInv ==
    /\ DOMAIN penv = DOMAIN Values /\ \A n \in DOMAIN Values : penv[n] \in {Values[n][1]} \cup Values[n][2]
    /\ config # NotLoaded => config = Loaded(penv)
    /\ verdict = "none" \/ verdict = (IF MandatoryFails(penv) # {} THEN "FAIL" ELSE "PASS")

\* The values of the variables the judges look at.
LEMMA EnvTyped == 
    ASSUME NEW e, \A n \in DOMAIN Values : e[n] \in {Values[n][1]} \cup Values[n][2]
    PROVE  EnvTypes(e)
<1>1. /\ e["SESSION_SECRET"] \in {"secret", "", "development-secret"}
      /\ e["ALLOWED_HOSTS"] \in {"hosts", "", "*"}
  BY ZenonT(30) DEF Values
<1>2. /\ e["DATABASE_URL"] \in {"postgres", "", "sqlite"}
      /\ e["PUBLIC_BASE_URL"] \in {"https", "", "http"}
  BY ZenonT(30) DEF Values
<1>3. /\ e["BACKUP_ENCRYPT"] \in {"true", "false"} /\ e["BACKUP_ENCRYPTION_KEY"] \in {"key", ""}
  BY ZenonT(30) DEF Values
<1>4. e["RATE_LIMIT_BACKEND"] \in {"postgresql", "memory", "redis"}
  BY Zenon DEF Values
<1> QED BY <1>1, <1>2, <1>3, <1>4, Zenon DEF EnvTypes

\* The fields of the configuration record.
LEMMA ConfigFields ==
    ASSUME NEW a, NEW b, NEW d, NEW f, NEW g, NEW h, NEW i, NEW j, NEW k, NEW l,
           NEW r, r = [state |-> a, app_env |-> b, database |-> d, session_secret |-> f,
                secure_cookies |-> g, email |-> h, base_url |-> i, hosts |-> j, limiter |-> k, backup |-> l]
    PROVE  /\ r.state = a /\ r.app_env = b /\ r.database = d /\ r.session_secret = f
           /\ r.secure_cookies = g /\ r.email = h /\ r.base_url = i /\ r.hosts = j
           /\ r.limiter = k /\ r.backup = l
  OBVIOUS

\* What load_config returns for a production environment it accepts.
LEMMA LoadedProduction ==
    ASSUME NEW e, EnvTypes(e), e.APP_ENV = "production", NEW c, c = Loaded(e)
    PROVE  \/ c = Rejected
           \/ /\ c.state = "loaded" /\ c.session_secret = "secret" /\ c.database = "postgresql"
              /\ c.hosts = "hosts" /\ c.limiter = "postgresql" /\ c.secure_cookies = TRUE
              /\ c.base_url # "http" /\ c.email # "dev" /\ c.backup # <<TRUE, FALSE>>
<1>1. AppEnv(e) = "production"
  BY DEF AppEnv
<1>2. CASE Missing(e) \/ Malformed(e) \/ Unfit(e)
  BY <1>1, <1>2, Zenon DEF Loaded
<1>3. CASE ~(Missing(e) \/ Malformed(e) \/ Unfit(e))
  <2> DEFINE cookies == e.PORTAL_SECURE_COOKIES = "true" \/ AppEnv(e) = "production"
             backup == <<e.BACKUP_ENCRYPT = "true", e.BACKUP_ENCRYPTION_KEY # "">>
  <2>0. c = [state |-> "loaded", app_env |-> AppEnv(e),
          database |-> IF e.DATABASE_URL = "postgres" THEN "postgresql" ELSE "sqlite",
          session_secret |-> IF e.SESSION_SECRET = "" THEN "development-secret" ELSE e.SESSION_SECRET,
          secure_cookies |-> cookies, email |-> e.EMAIL_PROVIDER, base_url |-> e.PUBLIC_BASE_URL,
          hosts |-> e.ALLOWED_HOSTS, limiter |-> e.RATE_LIMIT_BACKEND, backup |-> backup]
    BY <1>1, <1>3, Zenon DEF Loaded
  <2>c. cookies = TRUE
    BY <1>1
  <2> HIDE DEF cookies, backup
  <2> DEFINE db == IF e.DATABASE_URL = "postgres" THEN "postgresql" ELSE "sqlite"
             secret == IF e.SESSION_SECRET = "" THEN "development-secret" ELSE e.SESSION_SECRET
  <2>d. c = [state |-> "loaded", app_env |-> AppEnv(e), database |-> db, session_secret |-> secret,
          secure_cookies |-> cookies, email |-> e.EMAIL_PROVIDER, base_url |-> e.PUBLIC_BASE_URL,
          hosts |-> e.ALLOWED_HOSTS, limiter |-> e.RATE_LIMIT_BACKEND, backup |-> backup]
    BY <2>0, Zenon
  <2> HIDE DEF db, secret
  <2>1. /\ c.state = "loaded" /\ c.hosts = e.ALLOWED_HOSTS
        /\ c.limiter = e.RATE_LIMIT_BACKEND /\ c.base_url = e.PUBLIC_BASE_URL
        /\ c.email = e.EMAIL_PROVIDER /\ c.database = db /\ c.session_secret = secret
        /\ c.secure_cookies = cookies /\ c.backup = backup
    BY <2>d, ConfigFields
  <2>2. /\ e.SESSION_SECRET = "secret" /\ e.DATABASE_URL = "postgres" /\ e.ALLOWED_HOSTS = "hosts"
        /\ e.RATE_LIMIT_BACKEND = "postgresql" /\ e.PUBLIC_BASE_URL # "http" /\ e.EMAIL_PROVIDER # "dev"
        /\ ~(e.BACKUP_ENCRYPT = "true" /\ e.BACKUP_ENCRYPTION_KEY = "")
    BY <1>3, Zenon DEF Missing, Malformed, Unfit, EnvTypes
  <2>3. c.secure_cookies = TRUE
    BY <2>1, <2>c
  <2>4. c.backup # <<TRUE, FALSE>>
    <3>1. backup[1] = (e.BACKUP_ENCRYPT = "true") /\ backup[2] = (e.BACKUP_ENCRYPTION_KEY # "")
      BY DEF backup
    <3>2. ~(backup[1] = TRUE /\ backup[2] = FALSE)
      BY <2>2, <3>1, Zenon
    <3>3. <<TRUE, FALSE>>[1] = TRUE /\ <<TRUE, FALSE>>[2] = FALSE
      OBVIOUS
    <3> QED BY <2>1, <3>2, <3>3, Zenon
  <2> QED BY <2>1, <2>2, <2>3, <2>4, ZenonT(30) DEF db, secret
<1> QED BY <1>2, <1>3, Zenon

\* With APP_ENV spelled "production" the mandatory checks fail exactly where
\* load_config raises.
LEMMA ChecksAgree ==
    ASSUME NEW e, EnvTypes(e), e.APP_ENV = "production"
    PROVE  MandatoryFails(e) = {} <=> Loaded(e).state = "loaded"
<1>0. PICK c : c = Loaded(e)
  OBVIOUS
<1>1. AppEnv(e) = "production"
  BY DEF AppEnv
<1>2. CASE c = Rejected
  <2>1. "configuration" \in MandatoryFails(e)
    BY <1>0, <1>2 DEF MandatoryFails
  <2>2. c.state # "loaded"
    BY <1>2 DEF Rejected
  <2> QED BY <1>0, <2>1, <2>2
<1>3. CASE c # Rejected
  <2>1. /\ c.state = "loaded" /\ c.session_secret = "secret" /\ c.database = "postgresql"
        /\ c.hosts = "hosts" /\ c.limiter = "postgresql" /\ c.secure_cookies = TRUE
        /\ c.base_url # "http" /\ c.email # "dev" /\ c.backup # <<TRUE, FALSE>>
    BY <1>0, <1>3, LoadedProduction, Zenon
  <2>2. MandatoryFails(e) = {}
    <3> SUFFICES ASSUME NEW n \in MandatoryFails(e) PROVE FALSE
      OBVIOUS
    <3>1. n \in {"environment", "configuration", "database", "rate_limiter", "cookies", "https",
                 "hosts", "email", "secret", "backup"}
      BY Zenon DEF MandatoryFails
    <3>2. CASE /\ AppEnv(e) \in {"production", "staging", "development"}
               /\ n \in {"environment", "configuration", "database", "rate_limiter", "cookies"}
      BY <1>0, <1>3, <2>1, <3>2, Zenon DEF MandatoryFails
    <3>3. CASE n \in {"https", "hosts", "email", "secret", "backup"}
      BY <1>0, <1>3, <2>1, <3>3, Zenon DEF MandatoryFails
    <3> QED BY <1>1, <3>1, <3>2, <3>3
  <2> QED BY <1>0, <2>1, <2>2
<1> QED BY <1>2, <1>3

\* Every step keeps the invariant.
LEMMA ConfigInvStep == ConfigInv /\ [PortalConfigNext]_pcvars => ConfigInv'
<1> SUFFICES ASSUME ConfigInv, [PortalConfigNext]_pcvars PROVE ConfigInv'
  OBVIOUS
<1>1. ASSUME NEW n \in DOMAIN Values, NEW v \in Values[n][2], EditEnv(n, v) PROVE ConfigInv'
  <2>1. /\ penv' = [penv EXCEPT ![n] = v] /\ config' = NotLoaded /\ verdict' = "none"
    BY <1>1 DEF EditEnv
  <2>2. /\ DOMAIN penv' = DOMAIN Values
        /\ \A m \in DOMAIN Values : penv'[m] \in {Values[m][1]} \cup Values[m][2]
    <3>1. \A m \in DOMAIN Values : penv'[m] = IF m = n THEN v ELSE penv[m]
      BY <2>1 DEF ConfigInv
    <3>2. DOMAIN penv' = DOMAIN Values
      BY <2>1 DEF ConfigInv
    <3> QED BY <1>1, <3>1, <3>2 DEF ConfigInv
  <2> QED BY <2>1, <2>2 DEF ConfigInv
<1>2. CASE LoadConfig
  BY <1>2 DEF LoadConfig, ConfigInv
<1>3. CASE ProductionCheck
  BY <1>3 DEF ProductionCheck, ConfigInv
<1>4. CASE Readiness
  BY <1>4, Zenon DEF Readiness, ConfigInv
<1>5. CASE UNCHANGED pcvars
  BY <1>5 DEF pcvars, ConfigInv
<1> QED BY <1>1, <1>2, <1>3, <1>4, <1>5 DEF PortalConfigNext

\* load_config, the production check and the readiness probe agree on every
\* environment, however many variables deviate.
THEOREM ConfigJudgesAgree == PortalConfigSpec => []JudgementsAgree
<1>1. PortalConfigInit => ConfigInv
  <2> SUFFICES ASSUME PortalConfigInit PROVE ConfigInv
    OBVIOUS
  <2>1. penv = [n \in DOMAIN Values |-> Values[n][1]] /\ config = NotLoaded /\ verdict = "none"
    BY DEF PortalConfigInit, Ideal
  <2>2. \A n \in DOMAIN Values : penv[n] = Values[n][1]
    BY <2>1
  <2> QED BY <2>1, <2>2 DEF ConfigInv
<1>2. ConfigInv => JudgementsAgree
  <2> SUFFICES ASSUME ConfigInv, penv.APP_ENV = "production", config # NotLoaded
               PROVE  /\ verdict # "none" => (verdict = "PASS") = (config.state = "loaded")
                      /\ config.state = "loaded" =>
                           /\ config.session_secret = "secret" /\ config.database = "postgresql"
                           /\ config.hosts = "hosts"
                           /\ ready = "not_ready" => MandatoryFails(penv) = {}
    BY DEF JudgementsAgree
  <2>1. EnvTypes(penv) /\ config = Loaded(penv)
    BY EnvTyped DEF ConfigInv
  <2>2. MandatoryFails(penv) = {} <=> config.state = "loaded"
    BY <2>1, ChecksAgree
  <2>3. config.state = "loaded" =>
           /\ config.session_secret = "secret" /\ config.database = "postgresql" /\ config.hosts = "hosts"
    <3>1. PICK c : c = config
      OBVIOUS
    <3>2. Rejected.state # "loaded"
      BY DEF Rejected
    <3>3. c.state = "loaded" => c.session_secret = "secret" /\ c.database = "postgresql" /\ c.hosts = "hosts"
      BY <2>1, <3>1, <3>2, LoadedProduction, Zenon
    <3> QED BY <3>1, <3>3
  <2>4. verdict # "none" => (verdict = "PASS" <=> MandatoryFails(penv) = {})
    BY DEF ConfigInv
  <2> QED BY <2>2, <2>3, <2>4
<1> QED BY <1>1, <1>2, ConfigInvStep, PTL DEF PortalConfigSpec

-----------------------------------------------------------------------------
(* The portal's database. *)

\* The schema promises no more than it has (_init_schema), and a restore
\* leaves a whole database or the one it found (backup.py).
THEOREM StoreStaysSafe == PortalStoreSpec /\ PortalBackupSpec => []StoreSafe
<1>1. SchemaHonest /\ RestoreWhole => StoreSafe
  BY DEF StoreSafe
<1> QED BY <1>1, SchemaStaysHonest, RestoresAreWhole, PTL
=============================================================================
