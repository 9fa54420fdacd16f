---------------------------- MODULE PortalDevices -----------------------------
(***************************************************************************)
(* The developer API of the portal (portal_server/devapi_handlers.py and   *)
(* the /devapi handlers of app.py): pairing a device, exchanging its       *)
(* credential for tokens, refreshing them, rotating and revoking.          *)
(*                                                                         *)
(* As in PortalAccounts, a handler reads, then writes in one statement or  *)
(* one transaction, then records its activity, and handlers of several     *)
(* workers interleave between those steps.  One account; rows are indices. *)
(***************************************************************************)
EXTENDS Naturals, Sequences, FiniteSets

CONSTANTS
    ApiWorkers, \* the worker processes
    ApiPlays,   \* a set of sequences of operations: the requests of a behaviour
    MaxLapses   \* bound on the rows that expire and the workers that die

ASSUME PortalDevicesConstants == ApiWorkers # {} /\ MaxLapses \in Nat /\ ApiPlays # {}

VARIABLES
    pairings,  \* pairing_codes: [bound: has a user_id, status, expired]
    devices,   \* developer_devices: [pairing: whose device_id, status]
    apikeys,   \* api_credentials: [device, pairing, parent, status]
    apitokens, \* api_tokens: [kind, key, device, parent, revoked, expired]
    activity,  \* api_activity
    job,       \* [worker -> the request it serves]
    calls,     \* the requests still to come
    lapses     \* expiries and deaths so far

pdvars == <<pairings, devices, apikeys, apitokens, activity, job, calls, lapses>>

Waiting == [op |-> "none", row |-> 0, token |-> 0, step |-> "idle"]

PortalDevicesInit ==
    /\ pairings = <<>> /\ devices = <<>> /\ apikeys = <<>> /\ apitokens = <<>>
    /\ activity = {} /\ job = [w \in ApiWorkers |-> Waiting] /\ calls \in ApiPlays /\ lapses = 0

-----------------------------------------------------------------------------
BearerOps == {"device_revoke", "credential_rotate", "credential_revoke"}
TableOf(op) ==
    CASE op \in {"pair_approve", "pair_complete", "pairing_status"} -> pairings
      [] op \in {"device_revoke", "device_revoke_web"} -> devices
      [] op \in {"token", "credential_rotate", "credential_revoke", "credential_revoke_web"} -> apikeys
      [] op = "refresh" -> apitokens
      [] OTHER -> <<>>
AccessTokens == {t \in DOMAIN apitokens : apitokens[t].kind = "access"}

Doing(w, op, step) == job[w].op = op /\ job[w].step = step
Row(w) == job[w].row
Answer(w) == job' = [job EXCEPT ![w] = Waiting]
Step(w, step) == job' = [job EXCEPT ![w].step = step]
Checked(w, ok) == Row(w) # 0 /\ IF ok THEN Step(w, "write") ELSE Answer(w)
Done(w, result) == job' = [job EXCEPT ![w] = [@ EXCEPT !.op = result, !.step = "log"]]

\* A request arrives at a worker and names a row, when there is one to name.
Accept(w) ==
    /\ job[w] = Waiting /\ calls # <<>> /\ calls' = Tail(calls)
    /\ LET op == Head(calls) IN
       \E r \in DOMAIN TableOf(op) \cup {0}, t \in AccessTokens \cup {0} :
         /\ (r = 0) = (TableOf(op) = <<>>)
         /\ (t = 0) = (op \notin BearerOps \/ AccessTokens = {})
         /\ job' = [job EXCEPT ![w] = [op |-> op, row |-> r, token |-> t,
                                       step |-> IF op \in BearerOps THEN "auth" ELSE "run"]]
    /\ UNCHANGED <<pairings, devices, apikeys, apitokens, activity, lapses>>

\* _rate_limit, a body that is not valid, or nothing to name: an error reply.
RefusesCall(w) ==
    /\ job[w].step = "run" /\ Answer(w)
    /\ UNCHANGED <<pairings, devices, apikeys, apitokens, activity, calls, lapses>>

\* _resolve_access: token, account, project binding and scope, in this order.
ResolveAccess(w) ==
    /\ job[w].step = "auth"
    /\ LET t == job[w].token IN
       IF t = 0 \/ Row(w) = 0 THEN Answer(w) /\ UNCHANGED activity
       ELSE IF apitokens[t].revoked \/ apitokens[t].expired
         THEN Answer(w) /\ activity' = activity \cup {<<"expired", t>>}
       ELSE \/ Answer(w) /\ activity' = activity \cup {<<"scope_denied", t>>}
            \/ Step(w, "run") /\ activity' = activity \cup {<<"ok", t>>}
    /\ UNCHANGED <<pairings, devices, apikeys, apitokens, calls, lapses>>

\* _record_api_activity after the writes, and the reply.
RecordActivity(w) ==
    /\ job[w].step = "log" /\ Answer(w)
    /\ activity' = activity \cup {<<job[w].op, Row(w)>>}
    /\ UNCHANGED <<pairings, devices, apikeys, apitokens, calls, lapses>>

\* A worker dies in the middle of a request.
ApiWorkerDies(w) ==
    /\ job[w] # Waiting /\ lapses < MaxLapses /\ lapses' = lapses + 1 /\ Answer(w)
    /\ UNCHANGED <<pairings, devices, apikeys, apitokens, activity, calls>>

\* A pairing code or a token passes its expiry.
PairingExpires(p) ==
    /\ ~pairings[p].expired /\ lapses < MaxLapses /\ lapses' = lapses + 1
    /\ pairings' = [pairings EXCEPT ![p].expired = TRUE]
    /\ UNCHANGED <<devices, apikeys, apitokens, activity, job, calls>>
ApiTokenExpires(t) ==
    /\ ~apitokens[t].expired /\ lapses < MaxLapses /\ lapses' = lapses + 1
    /\ apitokens' = [apitokens EXCEPT ![t].expired = TRUE]
    /\ UNCHANGED <<pairings, devices, apikeys, activity, job, calls>>

-----------------------------------------------------------------------------
(* Pairing. *)

NewPairing(bound) == [bound |-> bound, status |-> "pending", expired |-> FALSE]
NewKey(d, p, parent) == [device |-> d, pairing |-> p, parent |-> parent, status |-> "active"]
NewTokens(d, k, parent) ==
    <<[kind |-> "access", key |-> k, device |-> d, parent |-> parent, revoked |-> FALSE, expired |-> FALSE],
      [kind |-> "refresh", key |-> k, device |-> d, parent |-> parent, revoked |-> FALSE, expired |-> FALSE]>>
Pending(p) == pairings[p].status = "pending" /\ ~pairings[p].expired
Registered(p) == \E d \in DOMAIN devices : devices[d].pairing = p

\* handle_pair_begin: asked for by the device, bound to nobody.
PairBegin(w) ==
    /\ Doing(w, "pair_begin", "run") /\ Answer(w) /\ pairings' = Append(pairings, NewPairing(FALSE))
    /\ UNCHANGED <<devices, apikeys, apitokens, activity, calls, lapses>>

\* handle_pairing_create: asked for in the portal, bound to the account.
PairingCreate(w) ==
    /\ Doing(w, "pairing_create", "run") /\ Done(w, "created") /\ pairings' = Append(pairings, NewPairing(TRUE))
    /\ UNCHANGED <<devices, apikeys, apitokens, activity, calls, lapses>>

\* handle_pairing_status.
PairingStatus(w) ==
    /\ Doing(w, "pairing_status", "run") /\ Answer(w)
    /\ UNCHANGED <<pairings, devices, apikeys, apitokens, activity, calls, lapses>>

\* handle_pair_approve: the code is used and the device registered in one
\* transaction that the UNIQUE device_id rolls back for the second of two
\* racing requests; the credential follows in a statement of its own.
PairApprove(w) ==
    /\ \/ /\ Doing(w, "pair_approve", "run") /\ Checked(w, Row(w) # 0 /\ Pending(Row(w)))
          /\ UNCHANGED <<pairings, devices, apikeys>>
       \/ /\ Doing(w, "pair_approve", "write") /\ UNCHANGED apikeys
          /\ IF Registered(Row(w)) THEN Answer(w) /\ UNCHANGED <<pairings, devices>>
             ELSE /\ Step(w, "issue")
                  /\ pairings' = [pairings EXCEPT ![Row(w)].status = "used"]
                  /\ devices' = Append(devices, [pairing |-> Row(w), status |-> "active"])
       \/ /\ Doing(w, "pair_approve", "issue") /\ Done(w, "approved")
          /\ apikeys' = Append(apikeys, NewKey(0, Row(w), 0))
          /\ UNCHANGED <<pairings, devices>>
    /\ UNCHANGED <<apitokens, activity, calls, lapses>>

\* Mutant: the four inserts of handle_pair_complete without a transaction:
\* the one the UNIQUE column refuses does not undo the others.
PairCompleteLoose(w) ==
    /\ \/ /\ Doing(w, "pair_complete", "run")
          /\ Checked(w, Row(w) # 0 /\ Pending(Row(w)) /\ pairings[Row(w)].bound)
          /\ UNCHANGED <<pairings, devices, apikeys, apitokens>>
       \/ /\ Doing(w, "pair_complete", "write") /\ Done(w, "completed")
          /\ pairings' = [pairings EXCEPT ![Row(w)].status = "used"]
          /\ devices' = IF Registered(Row(w)) THEN devices
                        ELSE Append(devices, [pairing |-> Row(w), status |-> "active"])
          /\ apikeys' = Append(apikeys, NewKey(Len(devices'), Row(w), 0))
          /\ apitokens' = apitokens \o NewTokens(Len(devices'), Len(apikeys'), 0)
    /\ UNCHANGED <<activity, calls, lapses>>

\* handle_pair_complete: only for a code bound to an account; everything in
\* one transaction.
PairComplete(w) ==
    /\ \/ /\ Doing(w, "pair_complete", "run")
          /\ Checked(w, Row(w) # 0 /\ Pending(Row(w)) /\ pairings[Row(w)].bound)
          /\ UNCHANGED <<pairings, devices, apikeys, apitokens>>
       \/ /\ Doing(w, "pair_complete", "write")
          /\ IF Registered(Row(w)) THEN Answer(w) /\ UNCHANGED <<pairings, devices, apikeys, apitokens>>
             ELSE /\ Done(w, "completed")
                  /\ pairings' = [pairings EXCEPT ![Row(w)].status = "used"]
                  /\ devices' = Append(devices, [pairing |-> Row(w), status |-> "active"])
                  /\ apikeys' = Append(apikeys, NewKey(Len(devices'), Row(w), 0))
                  /\ apitokens' = apitokens \o NewTokens(Len(devices'), Len(apikeys'), 0)
    /\ UNCHANGED <<activity, calls, lapses>>

-----------------------------------------------------------------------------
(* Tokens and credentials. *)

\* handle_token: an active credential buys an access and a refresh token.
IssueTokens(w) ==
    /\ \/ /\ Doing(w, "token", "run") /\ Checked(w, Row(w) # 0 /\ apikeys[Row(w)].status = "active")
          /\ UNCHANGED apitokens
       \/ /\ Doing(w, "token", "write") /\ Done(w, "token_ok")
          /\ apitokens' = apitokens \o NewTokens(apikeys[Row(w)].device, Row(w), 0)
    /\ UNCHANGED <<pairings, devices, apikeys, activity, calls, lapses>>

\* handle_refresh: the old refresh token is revoked in the transaction that
\* inserts its successors; the check was made before it.
Refresh(w) ==
    /\ \/ /\ Doing(w, "refresh", "run") /\ UNCHANGED apitokens
          /\ Checked(w, Row(w) # 0 /\ LET t == apitokens[Row(w)] IN
                                      t.kind = "refresh" /\ ~t.revoked /\ ~t.expired)
       \/ /\ Doing(w, "refresh", "write") /\ Answer(w)
          /\ apitokens' = [apitokens EXCEPT ![Row(w)].revoked = TRUE]
                          \o NewTokens(apitokens[Row(w)].device, apitokens[Row(w)].key, Row(w))
    /\ UNCHANGED <<pairings, devices, apikeys, activity, calls, lapses>>

RevokeTokens(S) == [t \in DOMAIN apitokens |->
    IF t \in S THEN [apitokens[t] EXCEPT !.revoked = TRUE] ELSE apitokens[t]]

\* handle_device_revoke, handle_devapi_device_revoke: the device and the
\* tokens bound to it, in one transaction.
DeviceRevoke(w) ==
    /\ job[w].op \in {"device_revoke", "device_revoke_web"}
    /\ \/ job[w].step = "run" /\ Checked(w, TRUE) /\ UNCHANGED <<devices, apitokens>>
       \/ /\ job[w].step = "write" /\ Done(w, "device_revoked")
          /\ devices' = [devices EXCEPT ![Row(w)].status = "revoked"]
          /\ apitokens' = RevokeTokens({t \in DOMAIN apitokens : apitokens[t].device = Row(w)})
    /\ UNCHANGED <<pairings, apikeys, activity, calls, lapses>>

\* handle_credential_rotate: the successor keeps device and scopes.
ApiKeyRotate(w) ==
    /\ \/ /\ Doing(w, "credential_rotate", "run") /\ Checked(w, Row(w) # 0 /\ apikeys[Row(w)].status = "active")
          /\ UNCHANGED apikeys
       \/ /\ Doing(w, "credential_rotate", "write") /\ Done(w, "rotated")
          /\ apikeys' = Append([apikeys EXCEPT ![Row(w)].status = "revoked"],
                               [apikeys[Row(w)] EXCEPT !.parent = Row(w), !.pairing = 0, !.status = "active"])
    /\ UNCHANGED <<pairings, devices, apitokens, activity, calls, lapses>>

\* Mutant: the credential is revoked, its tokens are not.
ApiKeyRevokeOnly(w) ==
    /\ job[w].op \in {"credential_revoke", "credential_revoke_web"}
    /\ \/ job[w].step = "run" /\ Checked(w, TRUE) /\ UNCHANGED apikeys
       \/ /\ job[w].step = "write" /\ Done(w, "key_revoked")
          /\ apikeys' = [apikeys EXCEPT ![Row(w)].status = "revoked"]
    /\ UNCHANGED <<pairings, devices, apitokens, activity, calls, lapses>>

\* handle_credential_revoke, handle_devapi_credential_revoke.
ApiKeyRevoke(w) ==
    /\ job[w].op \in {"credential_revoke", "credential_revoke_web"}
    /\ \/ job[w].step = "run" /\ Checked(w, TRUE) /\ UNCHANGED <<apikeys, apitokens>>
       \/ /\ job[w].step = "write" /\ Done(w, "key_revoked")
          /\ apikeys' = [apikeys EXCEPT ![Row(w)].status = "revoked"]
          /\ apitokens' = RevokeTokens({t \in DOMAIN apitokens : apitokens[t].key = Row(w)})
    /\ UNCHANGED <<pairings, devices, activity, calls, lapses>>

ServeApi(w) ==
    \/ Accept(w) \/ RefusesCall(w) \/ ResolveAccess(w) \/ RecordActivity(w) \/ ApiWorkerDies(w)
    \/ PairBegin(w) \/ PairingCreate(w) \/ PairingStatus(w) \/ PairApprove(w) \/ PairComplete(w)
    \/ IssueTokens(w) \/ Refresh(w) \/ DeviceRevoke(w) \/ ApiKeyRotate(w) \/ ApiKeyRevoke(w)

PortalDevicesNext ==
    \/ \E w \in ApiWorkers : ServeApi(w)
    \/ \E p \in DOMAIN pairings : PairingExpires(p)
    \/ \E t \in DOMAIN apitokens : ApiTokenExpires(t)

PortalDevicesSpec == PortalDevicesInit /\ [][PortalDevicesNext]_pdvars

-----------------------------------------------------------------------------
(* Properties. *)

\* A pairing code pays once, also when two requests present it at the same
\* time: a used code has exactly one device and at most one credential, an
\* unused one has neither; a rotated credential or refresh token is revoked,
\* and a token is never live for longer than the credential that the same
\* transaction revoked (handle_pair_complete, handle_pair_approve,
\* handle_refresh, handle_credential_rotate, handle_credential_revoke).
PairedOnce ==
    /\ \A p \in DOMAIN pairings :
         LET of == {d \in DOMAIN devices : devices[d].pairing = p}
             keys == {k \in DOMAIN apikeys : apikeys[k].pairing = p}
         IN /\ Cardinality(of) = IF pairings[p].status = "used" THEN 1 ELSE 0
            /\ Cardinality(keys) <= Cardinality(of)
    /\ \A k \in DOMAIN apikeys : apikeys[k].parent # 0 => apikeys[apikeys[k].parent].status = "revoked"
    /\ \A t \in DOMAIN apitokens : apitokens[t].parent # 0 => apitokens[apitokens[t].parent].revoked
    /\ \A e \in activity :
         /\ e[1] \in {"approved", "completed"} => Registered(e[2])
         /\ e[1] = "device_revoked" => devices[e[2]].status = "revoked"

\* Revocation is final and takes the tokens along: no step brings a revoked
\* device, credential or token back, and the step that revokes a credential
\* through its revoke handler leaves none of its tokens live.
RevocationStep ==
    /\ \A d \in DOMAIN devices : devices[d].status = "revoked" => devices'[d].status = "revoked"
    /\ \A t \in DOMAIN apitokens : apitokens[t].revoked => apitokens'[t].revoked
    /\ \A k \in DOMAIN apikeys :
         /\ apikeys[k].status = "revoked" => apikeys'[k].status = "revoked"
         /\ apikeys'[k].status # apikeys[k].status =>
              \/ \E j \in DOMAIN apikeys' : apikeys'[j].parent = k
              \/ \A t \in DOMAIN apitokens' : apitokens'[t].key = k => apitokens'[t].revoked
=============================================================================
