----------------------------- MODULE DeveloperKeys -----------------------------
(***************************************************************************)
(* The local developer account (ghostlink/developer): account.json and     *)
(* credentials.json, the DeveloperManager operations that read, change and *)
(* rewrite them, and the in-memory limiter of verify_credential.           *)
(*                                                                         *)
(* An operation holds its manager's lock, loads both documents, decides,   *)
(* and saves them one after the other, each by an atomic replace.  The     *)
(* lock serializes the threads of one process and nothing else.  A secret  *)
(* is whether it is the right one for its key.                             *)
(***************************************************************************)
EXTENDS Naturals, FiniteSets

CONSTANTS
    DevCallers,    \* the threads that call a manager
    DevProcesses,  \* the processes, one manager each
    DevProcessOf,  \* [caller -> its process]
    MaxActiveKeys, \* MAX_ACTIVE_CREDENTIALS
    MaxFailed,     \* max_failed_attempts
    FailWindow,    \* window_seconds
    Cooldown,      \* cooldown_seconds
    MaxIssued,     \* bound on the keys ever issued
    MaxDevOps,     \* bound on the operations of a behaviour
    MaxDevTime     \* bound on the clock

ASSUME DeveloperKeysConstants ==
    /\ DevProcessOf \in [DevCallers -> DevProcesses]
    /\ {MaxActiveKeys, MaxFailed, FailWindow, Cooldown, MaxIssued, MaxDevOps, MaxDevTime} \subseteq Nat
    /\ MaxActiveKeys > 0
    /\ Cooldown <= FailWindow  \* as DEFAULT_COOLDOWN_SECONDS and DEFAULT_WINDOW_SECONDS are

VARIABLES
    accountFile,   \* account.json: 0 when absent, else the developer id
    keyFile,       \* credentials.json: [key id -> "active" or "revoked"]
    issued,        \* key ids handed out so far
    devLock,       \* [process -> the thread that holds the manager's lock]
    task,          \* [caller -> the operation it runs]
    failures,      \* [process -> [key -> recent failures: <<operation, time>>]]
    lockedUntil,   \* [process -> [key -> end of its cooldown]]
    guesses,       \* [process -> [key -> failures since a secret was right]]
    devNow, devOps

dkvars == <<accountFile, keyFile, issued, devLock, task, failures, lockedUntil, guesses, devNow, devOps>>

DevKeys == 1..MaxIssued
NoKeys == [k \in {} |-> "active"]
NoTask == [op |-> "none", key |-> 0, right |-> FALSE, at |-> "idle", account |-> 0, keys |-> NoKeys]

DeveloperKeysInit ==
    /\ accountFile = 0 /\ keyFile = NoKeys /\ issued = 0
    /\ devLock = [p \in DevProcesses |-> {}]
    /\ task = [c \in DevCallers |-> NoTask]
    /\ failures = [p \in DevProcesses |-> [k \in DevKeys |-> {}]]
    /\ lockedUntil = [p \in DevProcesses |-> [k \in DevKeys |-> 0]]
    /\ guesses = failures /\ devNow = 0 /\ devOps = 0

-----------------------------------------------------------------------------
ActiveKeys(keys) == {k \in DOMAIN keys : keys[k] = "active"}
\* {**stored, **held}: the held entries win.
Merged(stored, held) ==
    [k \in DOMAIN stored \cup DOMAIN held |-> IF k \in DOMAIN held THEN held[k] ELSE stored[k]]
DevAt(c, step) == task[c].at = step
DevGoes(c, step) == task' = [task EXCEPT ![c].at = step]

\* The operation leaves the `with self._lock` block, with a result or an error.
DevReturns(c) ==
    /\ task' = [task EXCEPT ![c] = NoTask]
    /\ devLock' = [devLock EXCEPT ![DevProcessOf[c]] = {}]

TakesLockShared(c) ==
    /\ task[c] = NoTask /\ devOps < MaxDevOps /\ devOps' = devOps + 1
    /\ devLock' = [devLock EXCEPT ![DevProcessOf[c]] = {c}]
    /\ \E op \in {"create", "init", "revoke"}, k \in DevKeys :
         task' = [task EXCEPT ![c] = [NoTask EXCEPT !.op = op, !.key = k, !.right = TRUE, !.at = "load"]]
    /\ UNCHANGED <<accountFile, keyFile, issued, failures, lockedUntil, guesses, devNow>>

\* Any operation begins: with self._lock.
TakesLock(c) ==
    /\ task[c] = NoTask /\ devOps < MaxDevOps /\ devOps' = devOps + 1
    /\ devLock[DevProcessOf[c]] = {}
    /\ devLock' = [devLock EXCEPT ![DevProcessOf[c]] = {c}]
    /\ \E op \in {"init", "create", "rotate", "revoke", "verify"}, k \in DevKeys, right \in BOOLEAN :
         /\ op \notin {"revoke", "verify"} => k = 1
         /\ op # "verify" => right
         /\ task' = [task EXCEPT ![c] = [NoTask EXCEPT !.op = op, !.key = k, !.right = right,
                                           !.at = IF op = "verify" THEN "limit" ELSE "load"]]
    /\ UNCHANGED <<accountFile, keyFile, issued, failures, lockedUntil, guesses, devNow>>

RecentFailures(p, k) == {f \in failures[p][k] : devNow - f[2] < FailWindow}

CheckRateLimitForgetful(c) ==
    LET p == DevProcessOf[c]  k == task[c].key IN
    /\ DevAt(c, "limit")
    /\ IF Cardinality(RecentFailures(p, k)) >= MaxFailed
         THEN DevReturns(c) /\ failures' = [failures EXCEPT ![p][k] = {}]
         ELSE DevGoes(c, "load") /\ failures' = [failures EXCEPT ![p][k] = RecentFailures(p, k)] /\ UNCHANGED devLock
    /\ UNCHANGED <<accountFile, keyFile, issued, lockedUntil, guesses, devNow, devOps>>

\* _check_rate_limit: the attempt that finds the window full starts the cooldown.
CheckRateLimit(c) ==
    LET p == DevProcessOf[c]  k == task[c].key IN
    /\ DevAt(c, "limit")
    /\ IF devNow < lockedUntil[p][k] THEN DevReturns(c) /\ UNCHANGED <<failures, lockedUntil>>
       ELSE IF Cardinality(RecentFailures(p, k)) >= MaxFailed
         THEN /\ DevReturns(c)
              /\ lockedUntil' = [lockedUntil EXCEPT ![p][k] = devNow + Cooldown]
              /\ failures' = [failures EXCEPT ![p][k] = {}]
         ELSE /\ DevGoes(c, "load") /\ UNCHANGED <<devLock, lockedUntil>>
              /\ failures' = [failures EXCEPT ![p][k] = RecentFailures(p, k)]
    /\ UNCHANGED <<accountFile, keyFile, issued, guesses, devNow, devOps>>

\* _load_account: account.json first; without one only init goes on.
LoadAccount(c) ==
    /\ DevAt(c, "load")
    /\ IF accountFile = 0
         THEN IF task[c].op = "init"
                THEN task' = [task EXCEPT ![c] = [@ EXCEPT !.at = "decide", !.keys = NoKeys]] /\ UNCHANGED devLock
                ELSE DevReturns(c)
         ELSE task' = [task EXCEPT ![c] = [@ EXCEPT !.at = "keys", !.account = accountFile]] /\ UNCHANGED devLock
    /\ UNCHANGED <<accountFile, keyFile, issued, failures, lockedUntil, guesses, devNow, devOps>>

\* ... then credentials.json; init refuses, having found an account.
LoadCredentials(c) ==
    /\ DevAt(c, "keys")
    /\ IF task[c].op = "init" THEN DevReturns(c)
       ELSE task' = [task EXCEPT ![c] = [@ EXCEPT !.at = "decide", !.keys = keyFile]] /\ UNCHANGED devLock
    /\ UNCHANGED <<accountFile, keyFile, issued, failures, lockedUntil, guesses, devNow, devOps>>

Saves(c, account, keys) ==
    /\ task' = [task EXCEPT ![c] = [@ EXCEPT !.at = "save", !.account = account, !.keys = keys]]
    /\ UNCHANGED devLock
\* keys.issue_credential: a key id and a secret nobody had before.
IssuedKey == [k \in {issued + 1} |-> "active"]
Issues == issued < MaxIssued /\ issued' = issued + 1

\* _init_account_locked: a new account with one key.
InitAccount(c) ==
    /\ DevAt(c, "decide") /\ task[c].op = "init" /\ Issues
    /\ Saves(c, issued + 1, IssuedKey)
    /\ UNCHANGED <<accountFile, keyFile, failures, lockedUntil, guesses, devNow, devOps>>

\* _create_credential_locked: refused at the ceiling.
CreateCredential(c) ==
    /\ DevAt(c, "decide") /\ task[c].op = "create"
    /\ IF Cardinality(ActiveKeys(task[c].keys)) >= MaxActiveKeys THEN DevReturns(c) /\ UNCHANGED issued
       ELSE Issues /\ Saves(c, task[c].account, Merged(task[c].keys, IssuedKey))
    /\ UNCHANGED <<accountFile, keyFile, failures, lockedUntil, guesses, devNow, devOps>>

RotateCredentialAdds(c) ==
    /\ DevAt(c, "decide") /\ task[c].op = "rotate" /\ Issues
    /\ Saves(c, task[c].account, Merged(task[c].keys, IssuedKey))
    /\ UNCHANGED <<accountFile, keyFile, failures, lockedUntil, guesses, devNow, devOps>>

\* _rotate_credential_locked: every key it loaded is revoked, one fresh one issued.
RotateCredential(c) ==
    /\ DevAt(c, "decide") /\ task[c].op = "rotate" /\ Issues
    /\ Saves(c, task[c].account,
             Merged([k \in DOMAIN task[c].keys |-> "revoked"], IssuedKey))
    /\ UNCHANGED <<accountFile, keyFile, failures, lockedUntil, guesses, devNow, devOps>>

\* _revoke_credential_locked: unknown ids are refused.
RevokeCredential(c) ==
    /\ DevAt(c, "decide") /\ task[c].op = "revoke"
    /\ IF task[c].key \notin DOMAIN task[c].keys THEN DevReturns(c)
       ELSE Saves(c, task[c].account, [task[c].keys EXCEPT ![task[c].key] = "revoked"])
    /\ UNCHANGED <<accountFile, keyFile, issued, failures, lockedUntil, guesses, devNow, devOps>>

\* keys.verify_secret, with the scheme it supports.
Verifies(c) == task[c].key \in ActiveKeys(task[c].keys) /\ task[c].right
RecordFailure(p, k) ==
    /\ failures' = [failures EXCEPT ![p][k] = @ \cup {<<devOps, devNow>>}]
    /\ guesses' = [guesses EXCEPT ![p][k] = @ \cup {<<devOps, devNow>>}]

\* _verify_credential_locked after the limiter: a key that is unknown, revoked or
\* answered with a wrong secret is a failure; a right one clears them and saves.
VerifyCredential(c) ==
    LET p == DevProcessOf[c]  k == task[c].key IN
    /\ DevAt(c, "decide") /\ task[c].op = "verify"
    /\ IF Verifies(c)
         THEN /\ failures' = [failures EXCEPT ![p][k] = {}]
              /\ lockedUntil' = [lockedUntil EXCEPT ![p][k] = 0]
              /\ guesses' = [guesses EXCEPT ![p][k] = {}]
              /\ Saves(c, task[c].account, task[c].keys)
         ELSE RecordFailure(p, k) /\ DevReturns(c) /\ UNCHANGED lockedUntil
    /\ UNCHANGED <<accountFile, keyFile, issued, devNow, devOps>>

\* _save: re-read the stored keys under the held ones, replace account.json ...
SaveAccount(c) ==
    /\ DevAt(c, "save") /\ accountFile' = task[c].account
    /\ task' = [task EXCEPT ![c] = [@ EXCEPT !.at = "write", !.keys = Merged(keyFile, task[c].keys)]]
    /\ UNCHANGED <<keyFile, issued, devLock, failures, lockedUntil, guesses, devNow, devOps>>
\* ... then credentials.json.
SaveCredentials(c) ==
    /\ DevAt(c, "write") /\ keyFile' = task[c].keys /\ DevReturns(c)
    /\ UNCHANGED <<accountFile, issued, failures, lockedUntil, guesses, devNow, devOps>>

\* _secure_dir, _secure_file or a document that does not parse: DeveloperStateError
\* out of a load or a save, which ends the operation where it stands.
StorageRefuses(c) ==
    /\ task[c].at \in {"load", "keys", "save", "write"} /\ DevReturns(c)
    /\ UNCHANGED <<accountFile, keyFile, issued, failures, lockedUntil, guesses, devNow, devOps>>

\* A process is killed and started again: its files stay, its limiter does not.
DevProcessDies(p) ==
    /\ devLock[p] # {} /\ devOps < MaxDevOps /\ devOps' = devOps + 1
    /\ task' = [c \in DevCallers |-> IF DevProcessOf[c] = p THEN NoTask ELSE task[c]]
    /\ devLock' = [devLock EXCEPT ![p] = {}]
    /\ failures' = [failures EXCEPT ![p] = [k \in DevKeys |-> {}]]
    /\ lockedUntil' = [lockedUntil EXCEPT ![p] = [k \in DevKeys |-> 0]]
    /\ guesses' = [guesses EXCEPT ![p] = [k \in DevKeys |-> {}]]
    /\ UNCHANGED <<accountFile, keyFile, issued, devNow>>

DevTick ==
    /\ devNow < MaxDevTime /\ devNow' = devNow + 1
    /\ UNCHANGED <<accountFile, keyFile, issued, devLock, task, failures, lockedUntil, guesses, devOps>>

DeveloperKeysNext ==
    \/ DevTick
    \/ \E p \in DevProcesses : DevProcessDies(p)
    \/ \E c \in DevCallers :
         \/ TakesLock(c) \/ CheckRateLimit(c) \/ LoadAccount(c) \/ LoadCredentials(c)
         \/ InitAccount(c) \/ CreateCredential(c) \/ RotateCredential(c) \/ RevokeCredential(c)
         \/ VerifyCredential(c) \/ SaveAccount(c) \/ SaveCredentials(c) \/ StorageRefuses(c)

DeveloperKeysSpec == DeveloperKeysInit /\ [][DeveloperKeysNext]_dkvars

-----------------------------------------------------------------------------
(* DeveloperKeysSafe: whatever the threads of one process do and wherever it *)
(* is killed, no more than MAX_ACTIVE_CREDENTIALS keys are ever active, and  *)
(* within any span of one cooldown no key is compared with more than         *)
(* max_failed_attempts wrong secrets, counted from the last right one.       *)
(* (DeveloperManager, _check_rate_limit)                                     *)
DeveloperKeysSafe ==
    /\ Cardinality(ActiveKeys(keyFile)) <= MaxActiveKeys
    /\ \A p \in DevProcesses, k \in DevKeys :
         Cardinality({g \in guesses[p][k] : devNow - g[2] < Cooldown}) <= MaxFailed

(* RevokedForGood: a revoked key is never active again and no key is lost:   *)
(* "irreversible until reissued".  (_revoke_credential_locked, _save)        *)
RevokedKeyStep ==
    \A k \in DOMAIN keyFile :
        k \in DOMAIN keyFile' /\ (keyFile[k] = "revoked" => keyFile'[k] = "revoked")
RevokedForGood == [][RevokedKeyStep]_dkvars
=============================================================================
