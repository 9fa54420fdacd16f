---------------------------- MODULE PortalAccounts ----------------------------
(***************************************************************************)
(* The account side of the developer portal's WSGI application             *)
(* (portal/backend/portal_server/app.py): sign-up, verification, sign-in   *)
(* with its second factor, sessions, developer keys, projects, passkeys,   *)
(* password changes, and the audit events.                                 *)
(*                                                                         *)
(* The service runs as several worker processes over one database          *)
(* (deployment/systemd/ghostlink.service).  A statement or a transaction   *)
(* is atomic; a handler is not: it authenticates, reads and checks, writes *)
(* and records its event in separate steps, and requests of other workers  *)
(* come in between.  Tickets and passkey challenges live in the memory of  *)
(* the worker that issued them.  Tables are sequences, an id is an index.  *)
(***************************************************************************)
EXTENDS Naturals, Sequences, FiniteSets

CONSTANTS
    Workers,     \* the worker processes
    PortalUsers, \* the account holders
    Plays,       \* a set of sequences of [op, user]: the requests of a behaviour
    MaxMishaps   \* bound on the workers that die and the rows that expire

ASSUME PortalAccountsConstants ==
    /\ Workers # {} /\ MaxMishaps \in Nat
    /\ \A p \in Plays : p \in Seq([op : STRING, user : PortalUsers])

VARIABLES
    pdb,      \* the database
    pmem,     \* [worker -> its preauth tickets and passkey challenges]
    handler,  \* [worker -> the request it serves]
    requests, \* the requests still to come
    audit,    \* security_events
    mishaps   \* workers that died and rows that expired so far

pavars == <<pdb, pmem, handler, requests, audit, mishaps>>

Free == [op |-> "none", user |-> "none", cookie |-> 0, arg |-> 0, step |-> "idle"]
EmptyMemory == [ticket |-> [u \in PortalUsers |-> 0], challenge |-> [u \in PortalUsers |-> 0]]

\* The tables as the first migration leaves them.
PortalAccountsInit ==
    /\ pdb = [user |-> [u \in PortalUsers |->
                          [status |-> "none", pw |-> 0, mfa |-> "none", passkeys |-> 0]],
              tokens |-> <<>>, sessions |-> <<>>, credentials |-> <<>>, projects |-> <<>>]
    /\ pmem = [w \in Workers |-> EmptyMemory]
    /\ handler = [w \in Workers |-> Free]
    /\ requests \in Plays /\ audit = {} /\ mishaps = 0

-----------------------------------------------------------------------------
(* Serving a request. *)

SessionOps == {"credential_create", "credential_rotate", "credential_revoke", "project_create",
               "project_action", "session_revoke", "signout_others", "change_password",
               "mfa_setup", "mfa_confirm", "mfa_disable", "webauthn_begin", "webauthn_register"}
LimitedOps == {"signup", "signin", "password_reset_request", "credential_create",
               "credential_rotate", "credential_revoke", "session_revoke"}

At(w, op, step) == handler[w].op = op /\ handler[w].step = step
Holder(w) == handler[w].user
Arg(w) == handler[w].arg
Reply(w) == handler' = [handler EXCEPT ![w] = Free]
Goes(w, step) == handler' = [handler EXCEPT ![w].step = step]
\* A check that fails is the handler's early return.
Proceeds(w, ok) == IF ok THEN Goes(w, "write") ELSE Reply(w)
Log(w, action) == handler' = [handler EXCEPT ![w].step = "audit", ![w].op = action]

\* The rows a request may name: any row of the table, also another user's.
RowsFor(op) ==
    CASE op \in {"email_verify", "password_reset"} -> DOMAIN pdb.tokens
      [] op \in {"credential_rotate", "credential_revoke", "credential_verify"} -> DOMAIN pdb.credentials
      [] op = "project_action" -> DOMAIN pdb.projects
      [] op = "session_revoke" -> DOMAIN pdb.sessions
      [] OTHER -> {}
CookiesOf(u) == {s \in DOMAIN pdb.sessions : pdb.sessions[s].owner = u}

\* _dispatch and _route_request hand the request to a worker.
Dispatch(w) ==
    /\ handler[w] = Free /\ requests # <<>>
    /\ \E c \in CookiesOf(Head(requests).user) \cup {0}, a \in RowsFor(Head(requests).op) \cup {0} :
         /\ (c = 0) = (CookiesOf(Head(requests).user) = {} \/ Head(requests).op \notin SessionOps \cup {"signout"})
         /\ (a = 0) = (RowsFor(Head(requests).op) = {})
         /\ handler' = [handler EXCEPT ![w] =
              [op |-> Head(requests).op, user |-> Head(requests).user, cookie |-> c, arg |-> a,
               step |-> IF Head(requests).op \in SessionOps THEN "auth" ELSE "run"]]
    /\ requests' = Tail(requests)
    /\ UNCHANGED <<pdb, pmem, audit, mishaps>>

\* _authenticate: the session must exist and be live; one idle for too long
\* is revoked on the spot; an unsafe request needs the session's CSRF token.
Authenticate(w) ==
    /\ handler[w].step = "auth"
    /\ LET c == handler[w].cookie IN
       IF c = 0 THEN Reply(w) /\ UNCHANGED pdb
       ELSE IF pdb.sessions[c].revoked \/ pdb.sessions[c].age = "expired" THEN Reply(w) /\ UNCHANGED pdb
       ELSE IF pdb.sessions[c].age = "idle"
         THEN Reply(w) /\ pdb' = [pdb EXCEPT !.sessions[c].revoked = TRUE]
       ELSE \/ Reply(w) /\ UNCHANGED pdb
            \/ Goes(w, "run") /\ UNCHANGED pdb
    /\ UNCHANGED <<pmem, requests, audit, mishaps>>

\* A request beyond the limit of its scope is answered with 429.
RateLimited(w) ==
    /\ handler[w].op \in LimitedOps /\ handler[w].step = "run"
    /\ Reply(w) /\ UNCHANGED <<pdb, pmem, requests, audit, mishaps>>

\* _record_event, a statement of its own after the handler's writes.
RecordEvent(w) ==
    /\ handler[w].step = "audit"
    /\ audit' = audit \cup {<<handler[w].op, Holder(w), Arg(w)>>}
    /\ Reply(w) /\ UNCHANGED <<pdb, pmem, requests, mishaps>>

\* A worker dies: its request and its memory are gone, the database stays.
WorkerDies(w) ==
    /\ handler[w] # Free /\ mishaps < MaxMishaps /\ mishaps' = mishaps + 1
    /\ Reply(w) /\ pmem' = [pmem EXCEPT ![w] = EmptyMemory]
    /\ UNCHANGED <<pdb, requests, audit>>

\* Time passes for a session or for a mailed token.
SessionAges(s) ==
    /\ ~pdb.sessions[s].revoked /\ pdb.sessions[s].age # "expired"
    /\ \E a \in {"idle", "expired"} : pdb' = [pdb EXCEPT !.sessions[s].age = a]
    /\ mishaps < MaxMishaps /\ mishaps' = mishaps + 1
    /\ UNCHANGED <<pmem, handler, requests, audit>>
TokenExpires(t) ==
    /\ ~pdb.tokens[t].expired /\ pdb' = [pdb EXCEPT !.tokens[t].expired = TRUE]
    /\ mishaps < MaxMishaps /\ mishaps' = mishaps + 1
    /\ UNCHANGED <<pmem, handler, requests, audit>>

-----------------------------------------------------------------------------
(* Sign-up, verification, sign-in. *)

TokenRow(u, kind) == [owner |-> u, kind |-> kind, used |-> FALSE, expired |-> FALSE]
UsableToken(t, kind) == t # 0 /\ LET k == pdb.tokens[t] IN k.kind = kind /\ ~k.used /\ ~k.expired

\* handle_signup: the user row, then the verification token, then the mail,
\* then the event; the email column is UNIQUE, and a mail that cannot be
\* sent ends the request.
Signup(w) ==
    /\ \/ At(w, "signup", "run") /\ Proceeds(w, pdb.user[Holder(w)].status = "none") /\ UNCHANGED pdb
       \/ /\ At(w, "signup", "write")
          /\ IF pdb.user[Holder(w)].status = "none"
               THEN Goes(w, "token") /\ pdb' = [pdb EXCEPT !.user[Holder(w)].status = "pending"]
               ELSE Reply(w) /\ UNCHANGED pdb
       \/ /\ At(w, "signup", "token")
          /\ pdb' = [pdb EXCEPT !.tokens = Append(@, TokenRow(Holder(w), "email_verify"))]
          /\ (Reply(w) \/ Log(w, "signup"))
    /\ UNCHANGED <<pmem, requests, audit, mishaps>>

\* handle_email_verify.
EmailVerify(w) ==
    /\ \/ At(w, "email_verify", "run") /\ Proceeds(w, UsableToken(Arg(w), "email_verify")) /\ UNCHANGED pdb
       \/ /\ At(w, "email_verify", "write")
          /\ pdb' = [pdb EXCEPT !.tokens[Arg(w)].used = TRUE,
                                !.user[pdb.tokens[Arg(w)].owner].status = "active"]
          /\ handler' = [handler EXCEPT ![w] = [@ EXCEPT !.step = "audit", !.op = "email_verified",
                                                         !.user = pdb.tokens[Arg(w)].owner]]
    /\ UNCHANGED <<pmem, requests, audit, mishaps>>

\* Mutant: an account that is not verified yet may sign in.
SigninUnverified(w) ==
    /\ At(w, "signin", "run")
    /\ Proceeds(w, pdb.user[Holder(w)].status # "none")
    /\ UNCHANGED <<pdb, pmem, requests, audit, mishaps>>

\* handle_signin: a wrong password is counted and recorded; with a second
\* factor the answer is a ticket in this worker's memory.
Signin(w) ==
    /\ At(w, "signin", "run")
    /\ LET u == pdb.user[Holder(w)] IN
       \/ u.status # "none" /\ Log(w, "failed_signin") /\ UNCHANGED pmem
       \/ (u.status = "none" \/ u.status = "pending") /\ Reply(w) /\ UNCHANGED pmem
       \/ /\ u.status = "active" /\ u.mfa = "on" /\ Reply(w)
          /\ pmem' = [pmem EXCEPT ![w].ticket[Holder(w)] = @ + 1]
       \/ u.status = "active" /\ u.mfa # "on" /\ Goes(w, "write") /\ UNCHANGED pmem
    /\ UNCHANGED <<pdb, requests, audit, mishaps>>

\* handle_mfa_verify: the ticket is spent whatever the code is; it is only
\* known to the worker that issued it.
MfaVerify(w) ==
    /\ At(w, "mfa_verify", "run")
    /\ IF pmem[w].ticket[Holder(w)] = 0 THEN Reply(w) /\ UNCHANGED pmem
       ELSE /\ pmem' = [pmem EXCEPT ![w].ticket[Holder(w)] = @ - 1]
            /\ \/ Log(w, "mfa_failed")
               \/ pdb.user[Holder(w)].mfa = "on" /\ Goes(w, "write")
    /\ UNCHANGED <<pdb, requests, audit, mishaps>>

\* _complete_signin.
CompleteSignin(w) ==
    /\ handler[w].op \in {"signin", "mfa_verify"} /\ handler[w].step = "write"
    /\ pdb' = [pdb EXCEPT !.sessions = Append(@, [owner |-> Holder(w), revoked |-> FALSE, age |-> "fresh"])]
    /\ Log(w, "signed_in") /\ UNCHANGED <<pmem, requests, audit, mishaps>>

\* handle_signout.
Signout(w) ==
    /\ At(w, "signout", "run") /\ Reply(w)
    /\ pdb' = IF handler[w].cookie = 0 THEN pdb ELSE [pdb EXCEPT !.sessions[handler[w].cookie].revoked = TRUE]
    /\ UNCHANGED <<pmem, requests, audit, mishaps>>

\* handle_password_reset_request: the answer is the same for unknown emails.
PasswordResetRequest(w) ==
    /\ At(w, "password_reset_request", "run") /\ Reply(w)
    /\ pdb' = IF pdb.user[Holder(w)].status = "none" THEN pdb
              ELSE [pdb EXCEPT !.tokens = Append(@, TokenRow(Holder(w), "password_reset"))]
    /\ UNCHANGED <<pmem, requests, audit, mishaps>>

\* handle_password_reset.
PasswordReset(w) ==
    /\ \/ At(w, "password_reset", "run") /\ Proceeds(w, UsableToken(Arg(w), "password_reset")) /\ UNCHANGED pdb
       \/ /\ At(w, "password_reset", "write") /\ Log(w, "password_changed")
          /\ pdb' = [pdb EXCEPT !.tokens[Arg(w)].used = TRUE, !.user[pdb.tokens[Arg(w)].owner].pw = @ + 1]
    /\ UNCHANGED <<pmem, requests, audit, mishaps>>

-----------------------------------------------------------------------------
(* Developer keys, projects, sessions. *)

Owned(table, w) == Arg(w) # 0 /\ table[Arg(w)].owner = Holder(w)
KeyRow(u, parent) == [owner |-> u, status |-> "active", parent |-> parent]

\* handle_credential_create.
CredentialCreate(w) ==
    /\ At(w, "credential_create", "run") /\ Log(w, "key_created")
    /\ pdb' = [pdb EXCEPT !.credentials = Append(@, KeyRow(Holder(w), 0))]
    /\ UNCHANGED <<pmem, requests, audit, mishaps>>

\* Mutant: rotation leaves the old key in use.
CredentialRotateKeeps(w) ==
    /\ \/ /\ At(w, "credential_rotate", "run") /\ Proceeds(w, Owned(pdb.credentials, w))
          /\ UNCHANGED pdb
       \/ /\ At(w, "credential_rotate", "write") /\ Log(w, "key_rotated")
          /\ pdb' = [pdb EXCEPT !.credentials = Append(@, KeyRow(Holder(w), Arg(w)))]
    /\ UNCHANGED <<pmem, requests, audit, mishaps>>

\* handle_credential_rotate: the old key is revoked and the new one inserted
\* in one transaction; the status was read before it.
CredentialRotate(w) ==
    /\ \/ /\ At(w, "credential_rotate", "run")
          /\ Proceeds(w, Owned(pdb.credentials, w) /\ pdb.credentials[Arg(w)].status = "active")
          /\ UNCHANGED pdb
       \/ /\ At(w, "credential_rotate", "write") /\ Log(w, "key_rotated")
          /\ pdb' = [pdb EXCEPT !.credentials =
                       Append([@ EXCEPT ![Arg(w)].status = "revoked"], KeyRow(Holder(w), Arg(w)))]
    /\ UNCHANGED <<pmem, requests, audit, mishaps>>

\* handle_credential_revoke.
CredentialRevoke(w) ==
    /\ \/ At(w, "credential_revoke", "run") /\ Proceeds(w, Owned(pdb.credentials, w)) /\ UNCHANGED pdb
       \/ /\ At(w, "credential_revoke", "write") /\ Log(w, "key_revoked")
          /\ pdb' = [pdb EXCEPT !.credentials[Arg(w)].status = "revoked"]
    /\ UNCHANGED <<pmem, requests, audit, mishaps>>

\* handle_credential_verify: anybody may present a key and its secret.
CredentialVerify(w) ==
    /\ At(w, "credential_verify", "run")
    /\ \/ Reply(w)
       \/ /\ Arg(w) # 0 /\ pdb.credentials[Arg(w)].status = "active"
          /\ handler' = [handler EXCEPT ![w] = [@ EXCEPT !.step = "audit", !.op = "key_verified",
                                                         !.user = pdb.credentials[Arg(w)].owner]]
    /\ UNCHANGED <<pdb, pmem, requests, audit, mishaps>>

\* handle_project_create: the slug is UNIQUE for the user; one name here.
ProjectCreate(w) ==
    /\ At(w, "project_create", "run")
    /\ IF \E p \in DOMAIN pdb.projects : pdb.projects[p].owner = Holder(w)
         THEN Reply(w) /\ UNCHANGED pdb
         ELSE /\ Log(w, "project_created")
              /\ pdb' = [pdb EXCEPT !.projects = Append(@, [owner |-> Holder(w), status |-> "active"])]
    /\ UNCHANGED <<pmem, requests, audit, mishaps>>

\* handle_project_action: PATCH renames, POST archives.
ProjectAction(w) ==
    /\ \/ At(w, "project_action", "run") /\ Proceeds(w, Owned(pdb.projects, w)) /\ UNCHANGED pdb
       \/ At(w, "project_action", "write") /\ (Log(w, "project_renamed") \/ Reply(w)) /\ UNCHANGED pdb
       \/ /\ At(w, "project_action", "write") /\ Log(w, "project_archived")
          /\ pdb' = [pdb EXCEPT !.projects[Arg(w)].status = "archived"]
    /\ UNCHANGED <<pmem, requests, audit, mishaps>>

\* Mutant: the session is looked up by its id alone.
SessionRevokeAny(w) ==
    /\ \/ At(w, "session_revoke", "run") /\ Proceeds(w, Arg(w) # 0) /\ UNCHANGED pdb
       \/ /\ At(w, "session_revoke", "write") /\ Log(w, "session_revoked")
          /\ pdb' = [pdb EXCEPT !.sessions[Arg(w)].revoked = TRUE]
    /\ UNCHANGED <<pmem, requests, audit, mishaps>>

\* handle_session_revoke.
SessionRevoke(w) ==
    /\ \/ At(w, "session_revoke", "run") /\ Proceeds(w, Owned(pdb.sessions, w)) /\ UNCHANGED pdb
       \/ /\ At(w, "session_revoke", "write") /\ Log(w, "session_revoked")
          /\ pdb' = [pdb EXCEPT !.sessions[Arg(w)].revoked = TRUE]
    /\ UNCHANGED <<pmem, requests, audit, mishaps>>

RevokeSessions(S) == [s \in DOMAIN pdb.sessions |->
    IF s \in S THEN [pdb.sessions[s] EXCEPT !.revoked = TRUE] ELSE pdb.sessions[s]]

\* handle_signout_others.
SignoutOthers(w) ==
    /\ At(w, "signout_others", "run") /\ Log(w, "sessions_revoked_others")
    /\ pdb' = [pdb EXCEPT !.sessions = RevokeSessions(CookiesOf(Holder(w)) \ {handler[w].cookie})]
    /\ UNCHANGED <<pmem, requests, audit, mishaps>>

\* handle_change_password: every session goes, this one included.
ChangePassword(w) ==
    /\ \/ At(w, "change_password", "run") /\ (Goes(w, "write") \/ Reply(w)) /\ UNCHANGED pdb
       \/ /\ At(w, "change_password", "write") /\ Log(w, "password_changed")
          /\ pdb' = [pdb EXCEPT !.user[Holder(w)].pw = @ + 1,
                                !.sessions = RevokeSessions(CookiesOf(Holder(w)))]
    /\ UNCHANGED <<pmem, requests, audit, mishaps>>

-----------------------------------------------------------------------------
(* The second factor and passkeys. *)

\* handle_mfa_setup without a code: the secret is inserted once (the user id
\* is the primary key) and shown again afterwards.
MfaSetup(w) ==
    /\ \/ At(w, "mfa_setup", "run") /\ Proceeds(w, pdb.user[Holder(w)].mfa = "none") /\ UNCHANGED pdb
       \/ /\ At(w, "mfa_setup", "write") /\ Reply(w)
          /\ pdb' = IF pdb.user[Holder(w)].mfa = "none" THEN [pdb EXCEPT !.user[Holder(w)].mfa = "setup"] ELSE pdb
    /\ UNCHANGED <<pmem, requests, audit, mishaps>>

\* handle_mfa_setup with a code: the update touches nothing when the row was
\* deleted in between.
MfaConfirm(w) ==
    /\ \/ /\ At(w, "mfa_confirm", "run") /\ UNCHANGED pdb
          /\ (Reply(w) \/ (pdb.user[Holder(w)].mfa # "none" /\ Goes(w, "write")))
       \/ /\ At(w, "mfa_confirm", "write") /\ Log(w, "mfa_enabled")
          /\ pdb' = IF pdb.user[Holder(w)].mfa = "none" THEN pdb ELSE [pdb EXCEPT !.user[Holder(w)].mfa = "on"]
    /\ UNCHANGED <<pmem, requests, audit, mishaps>>

\* handle_mfa_disable.
MfaDisable(w) ==
    /\ At(w, "mfa_disable", "run") /\ Log(w, "mfa_disabled")
    /\ pdb' = [pdb EXCEPT !.user[Holder(w)].mfa = "none"]
    /\ UNCHANGED <<pmem, requests, audit, mishaps>>

\* handle_webauthn_begin.
WebauthnBegin(w) ==
    /\ At(w, "webauthn_begin", "run") /\ Reply(w)
    /\ pmem' = [pmem EXCEPT ![w].challenge[Holder(w)] = @ + 1]
    /\ UNCHANGED <<pdb, requests, audit, mishaps>>

\* handle_webauthn_register: the challenge is popped first; an expired one,
\* a foreign origin or an unsupported key ends the request.
WebauthnRegister(w) ==
    /\ \/ /\ At(w, "webauthn_register", "run") /\ UNCHANGED pdb
          /\ IF pmem[w].challenge[Holder(w)] = 0 THEN Reply(w) /\ UNCHANGED pmem
             ELSE /\ pmem' = [pmem EXCEPT ![w].challenge[Holder(w)] = @ - 1]
                  /\ (Reply(w) \/ Goes(w, "write"))
       \/ /\ At(w, "webauthn_register", "write") /\ Log(w, "passkey_registered") /\ UNCHANGED pmem
          /\ pdb' = [pdb EXCEPT !.user[Holder(w)].passkeys = @ + 1]
    /\ UNCHANGED <<requests, audit, mishaps>>

-----------------------------------------------------------------------------
ServeAccount(w) ==
    \/ Dispatch(w) \/ Authenticate(w) \/ RateLimited(w) \/ RecordEvent(w) \/ WorkerDies(w)
    \/ Signup(w) \/ EmailVerify(w) \/ Signin(w) \/ MfaVerify(w) \/ CompleteSignin(w) \/ Signout(w)
    \/ PasswordResetRequest(w) \/ PasswordReset(w)
    \/ CredentialCreate(w) \/ CredentialRotate(w) \/ CredentialRevoke(w) \/ CredentialVerify(w)
    \/ ProjectCreate(w) \/ ProjectAction(w) \/ SessionRevoke(w) \/ SignoutOthers(w)
    \/ ChangePassword(w) \/ MfaSetup(w) \/ MfaConfirm(w) \/ MfaDisable(w)
    \/ WebauthnBegin(w) \/ WebauthnRegister(w)

PortalAccountsNext ==
    \/ \E w \in Workers : ServeAccount(w)
    \/ \E s \in DOMAIN pdb.sessions : SessionAges(s)
    \/ \E t \in DOMAIN pdb.tokens : TokenExpires(t)

PortalAccountsSpec == PortalAccountsInit /\ [][PortalAccountsNext]_pavars

-----------------------------------------------------------------------------
(* Properties. *)

\* Sessions and sign-in tickets exist only for accounts whose email was
\* verified by a mailed token; a key that was rotated is revoked in the same
\* transaction that creates its successor; an event in the audit log tells
\* of a change that is in the database (handle_signin, handle_mfa_verify,
\* handle_credential_rotate, _record_event).
AccountsConsistent ==
    /\ \A u \in PortalUsers :
         (CookiesOf(u) # {} \/ \E w \in Workers : pmem[w].ticket[u] > 0) =>
            /\ pdb.user[u].status = "active"
            /\ \E t \in DOMAIN pdb.tokens : pdb.tokens[t] = [pdb.tokens[t] EXCEPT !.owner = u, !.used = TRUE,
                                                                             !.kind = "email_verify"]
    /\ \A k \in DOMAIN pdb.credentials :
         LET p == pdb.credentials[k].parent IN
         p # 0 => pdb.credentials[p].status = "revoked" /\ pdb.credentials[p].owner = pdb.credentials[k].owner
    /\ \A e \in audit :
         /\ e[1] \in {"key_rotated", "key_revoked"} => pdb.credentials[e[3]].status = "revoked"
         /\ e[1] = "session_revoked" => pdb.sessions[e[3]].revoked
         /\ e[1] = "project_archived" => pdb.projects[e[3]].status = "archived"
         /\ e[1] = "email_verified" => pdb.user[e[2]].status = "active"
         /\ e[1] = "password_changed" => pdb.user[e[2]].pw > 0

\* What is revoked, used or archived stays so, and a request only touches
\* rows of the account it was authenticated for, however the requests of the
\* workers interleave (the UPDATE statements of the handlers and the
\* "AND user_id=?" of the reads before them).
RevokedFinalStep ==
    /\ \A s \in DOMAIN pdb.sessions :
         /\ pdb.sessions[s].revoked => pdb'.sessions[s].revoked
         /\ pdb'.sessions[s].revoked # pdb.sessions[s].revoked =>
              \E w \in Workers : handler[w] # handler'[w] /\ Holder(w) = pdb.sessions[s].owner
    /\ \A k \in DOMAIN pdb.credentials :
         /\ pdb.credentials[k].status = "revoked" => pdb'.credentials[k] = pdb.credentials[k]
         /\ pdb'.credentials[k] # pdb.credentials[k] =>
              \E w \in Workers : handler[w] # handler'[w] /\ Holder(w) = pdb.credentials[k].owner
    /\ \A t \in DOMAIN pdb.tokens : pdb.tokens[t].used => pdb'.tokens[t].used
    /\ \A p \in DOMAIN pdb.projects : pdb.projects[p].status = "archived" => pdb'.projects[p] = pdb.projects[p]

\* Concurrent rotations of one key leave one active successor
\* (test_concurrent_credential_rotation_no_duplicate_active).
NoDuplicateActive ==
    \A j, k \in DOMAIN pdb.credentials :
        /\ pdb.credentials[j].parent # 0 /\ pdb.credentials[j].parent = pdb.credentials[k].parent
        /\ pdb.credentials[j].status = "active" /\ pdb.credentials[k].status = "active" => j = k
=============================================================================
