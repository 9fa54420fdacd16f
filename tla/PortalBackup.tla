----------------------------- MODULE PortalBackup ------------------------------
(***************************************************************************)
(* Backups, restores and retention of the portal database                  *)
(* (portal_server/ops/backup.py, ops/retention.py and the commands of      *)
(* ops/manage.py), while the portal goes on writing.                       *)
(*                                                                         *)
(* Four tables stand for the fourteen of _TABLES, with the references that *)
(* matter: sessions and devices refer to users, credentials to devices.    *)
(* create_backup reads the tables one query after the other.  A row is     *)
(* [id, of, live, old]: the row it refers to, whether it is still active,  *)
(* and whether it is beyond its retention age.  The schema of the tables   *)
(* is the subject of PortalStore.                                          *)
(***************************************************************************)
EXTENDS PortalStore, Naturals, Sequences, FiniteSets

CONSTANTS
    MaxRows,    \* bound on the rows the portal inserts
    MaxBackups, \* bound on the backup files
    MaxRestores \* bound on the restores that are applied

ASSUME PortalBackupConstants == {MaxRows, MaxBackups, MaxRestores} \subseteq Nat

VARIABLES
    liveDb,   \* [table -> its rows]
    dump,     \* create_backup in progress: [at, data, quiet, schema]
    files,    \* the backup files: [data, quiet, damaged, schema]
    freshDb,  \* the restore's target
    schema,   \* schema version of the live database
    restores  \* [applied, failed]: restores so far, and the files that failed

pbvars == <<liveDb, dump, files, freshDb, schema, restores>>

Tables == <<"users", "sessions", "devices", "credentials">>
References(t) == CASE t = "users" -> "none" [] t = "sessions" -> "users"
                   [] t = "devices" -> "users" [] t = "credentials" -> "devices"
EmptyDb == [t \in {Tables[i] : i \in 1..4} |-> {}]
RowCount(db) == Cardinality(db["users"]) + Cardinality(db["sessions"])
                + Cardinality(db["devices"]) + Cardinality(db["credentials"])
NoDump == [at |-> 0, data |-> EmptyDb, quiet |-> TRUE, schema |-> 0]

PortalBackupInit ==
    /\ liveDb = EmptyDb /\ freshDb = EmptyDb /\ dump = NoDump /\ files = <<>>
    /\ schema = 2 /\ restores = [applied |-> 0, failed |-> {}]

\* Foreign keys are enforced row by row (PRAGMA foreign_keys, REFERENCES).
RefersOk(db) == \A t \in DOMAIN db : \A r \in db[t] :
    References(t) # "none" => \E q \in db[References(t)] : q.id = r.of

-----------------------------------------------------------------------------
(* The portal at work. *)

Disturbed == dump' = [dump EXCEPT !.quiet = dump.at = 0]

InsertRow(t) ==
    /\ RowCount(liveDb) < MaxRows
    /\ \E o \in IF References(t) = "none" THEN {0} ELSE {q.id : q \in liveDb[References(t)]} :
         liveDb' = [liveDb EXCEPT ![t] = @ \cup {[id |-> RowCount(liveDb) + 1, of |-> o, live |-> TRUE, old |-> FALSE]}]
    /\ (\A s \in DOMAIN liveDb : \A r \in liveDb[s] : r.id # RowCount(liveDb) + 1)
    /\ Disturbed /\ UNCHANGED <<files, freshDb, schema, restores>>

\* A session or a credential is revoked, a device retired.
RevokeRow(t) ==
    /\ t # "users"
    /\ \E r \in liveDb[t] : r.live /\ liveDb' = [liveDb EXCEPT ![t] = (@ \ {r}) \cup {[r EXCEPT !.live = FALSE]}]
    /\ Disturbed /\ UNCHANGED <<files, freshDb, schema, restores>>

\* Retention days pass for the sessions.
SessionsAge ==
    /\ \E r \in liveDb["sessions"] : ~r.old
    /\ liveDb' = [liveDb EXCEPT !["sessions"] = {[r EXCEPT !.old = TRUE] : r \in @}]
    /\ UNCHANGED <<dump, files, freshDb, schema, restores>>

\* Mutant: old sessions go whether they were revoked or not.
RunRetentionAll ==
    /\ \E r \in liveDb["sessions"] : r.old
    /\ liveDb' = [liveDb EXCEPT !["sessions"] = {r \in @ : ~r.old}]
    /\ Disturbed /\ UNCHANGED <<files, freshDb, schema, restores>>

\* run_retention: one transaction; of these tables only sessions that are
\* revoked and beyond their age.
RunRetention ==
    /\ \E r \in liveDb["sessions"] : r.old /\ ~r.live
    /\ liveDb' = [liveDb EXCEPT !["sessions"] = {r \in @ : r.live \/ ~r.old}]
    /\ Disturbed /\ UNCHANGED <<files, freshDb, schema, restores>>

\* The next migration is deployed.
Migrate ==
    /\ schema = 2 /\ schema' = 3 /\ UNCHANGED <<liveDb, dump, files, freshDb, restores>>

-----------------------------------------------------------------------------
(* backup create. *)

\* cmd_backup_create: the schema version is read before the tables.
BackupStarts ==
    /\ dump.at = 0 /\ Len(files) < MaxBackups
    /\ dump' = [NoDump EXCEPT !.at = 1, !.schema = schema]
    /\ UNCHANGED <<liveDb, files, freshDb, schema, restores>>

\* _dump_rows: one query for each table, in the order of _TABLES.
DumpTable ==
    /\ dump.at \in 1..4
    /\ dump' = [at |-> dump.at + 1, data |-> [dump.data EXCEPT ![Tables[dump.at]] = liveDb[Tables[dump.at]]],
               quiet |-> dump.quiet, schema |-> dump.schema]
    /\ UNCHANGED <<liveDb, files, freshDb, schema, restores>>

\* The checksum, the manifest and the file.  A write that is cut short, or a
\* file that is changed afterwards, is damaged.
WriteBackup ==
    /\ dump.at = 5 /\ dump' = NoDump
    /\ \E d \in BOOLEAN :
         files' = Append(files, [data |-> dump.data, quiet |-> dump.quiet, damaged |-> d, schema |-> dump.schema])
    /\ UNCHANGED <<liveDb, freshDb, schema, restores>>

\* create_backup does not finish.
BackupAborts ==
    /\ dump.at > 1 /\ dump' = NoDump /\ UNCHANGED <<liveDb, files, freshDb, schema, restores>>

-----------------------------------------------------------------------------
(* backup restore --apply. *)

\* verify_backup: format, base64 or authenticated decryption, checksum.
Verified(f) == ~files[f].damaged

\* _insert_rows of one table refuses an id that is taken.
Inserted(into, data) == [t \in DOMAIN into |-> into[t] \cup data[t]]
Clash(into, data) == \E t \in DOMAIN into : \E r \in into[t], q \in data[t] : r.id = q.id

\* Mutant: the tables are loaded outside a transaction; what was loaded
\* before the failure stays.
RestoreBackupLoose(f) ==
    /\ restores.applied < MaxRestores /\ Verified(f) /\ files[f].schema = schema
    /\ LET d == files[f].data IN
       IF ~Clash(freshDb, d) /\ RefersOk(d)
         THEN freshDb' = Inserted(freshDb, d) /\ restores' = [restores EXCEPT !.applied = @ + 1]
         ELSE /\ freshDb' = [freshDb EXCEPT !["users"] = @ \cup d["users"]]
              /\ restores' = [restores EXCEPT !.applied = @ + 1, !.failed = @ \cup {f}]
    /\ UNCHANGED <<liveDb, dump, files, schema>>

\* restore_backup: verified first; the schema versions must agree; all
\* tables in one transaction, which a reference or an id that is not right
\* rolls back.  A dry run writes nothing.
RestoreBackup(f) ==
    /\ restores.applied < MaxRestores /\ Verified(f) /\ files[f].schema = schema
    /\ restores' = [applied |-> restores.applied + 1,
           failed |-> IF ~Clash(freshDb, files[f].data) /\ RefersOk(files[f].data)
                      THEN restores.failed ELSE restores.failed \cup {f}]
    /\ freshDb' = IF ~Clash(freshDb, files[f].data) /\ RefersOk(files[f].data)
                    THEN Inserted(freshDb, files[f].data) ELSE freshDb
    /\ UNCHANGED <<liveDb, dump, files, schema>>

PortalBackupNext ==
    \/ \E t \in DOMAIN liveDb : InsertRow(t) \/ RevokeRow(t)
    \/ SessionsAge \/ RunRetention \/ Migrate \/ BackupStarts \/ DumpTable \/ WriteBackup \/ BackupAborts
    \/ \E f \in DOMAIN files : RestoreBackup(f)

PortalBackupSpec == PortalBackupInit /\ [][PortalBackupNext]_pbvars

-----------------------------------------------------------------------------
(* Properties. *)

\* What a restore leaves behind is nothing or whole: the target is empty or
\* is exactly one intact backup of its own schema, revoked rows still
\* revoked; and a backup that was taken while the portal did not write
\* restores into an empty database (restore_backup, docs/DISASTER_RECOVERY.md).
RestoreWhole ==
    /\ freshDb = EmptyDb \/ \E f \in DOMAIN files : ~files[f].damaged /\ freshDb = files[f].data
    /\ RefersOk(liveDb) /\ RefersOk(freshDb)
    /\ \A f \in restores.failed : files[f].quiet => freshDb # EmptyDb

\* Rows disappear from the database only by retention, and then only rows
\* that are beyond their age and no longer active; what was revoked stays
\* revoked, before and after a restore (run_retention, restore_backup).
RetentionStep ==
    /\ \A t \in DOMAIN liveDb : \A r \in liveDb[t] :
         \/ \E q \in liveDb'[t] : q.id = r.id /\ (~r.live => ~q.live)
         \/ t = "sessions" /\ r.old /\ ~r.live
    /\ \A t \in DOMAIN freshDb : freshDb[t] \subseteq freshDb'[t]

\* The portal's database is whole: its recorded schema is the one applied, and
\* a restore leaves nothing or one intact backup (migrations.py, backup.py).
StoreSafe == SchemaHonest /\ RestoreWhole

=============================================================================
