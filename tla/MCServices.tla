----------------------------- MODULE MCServices -----------------------------
(***************************************************************************)
(* The developer portal (accounts, devices, store, backups, rate limits,   *)
(* configuration) and the developer commands on a user's machine (keys,    *)
(* servers).  They share no state the models keep; each is checked on a    *)
(* small instance of its own: `subject` says which one a behaviour is      *)
(* about, and the others rest in one initial state.                        *)
(***************************************************************************)
EXTENDS PortalAccounts, PortalDevices, PortalStore, PortalBackup, RateLimits,
        PortalConfig, DeveloperKeys, DeveloperServers

CONSTANTS t1, t2, p1, p2

VARIABLE subject

By(u, ops) == [i \in DOMAIN ops |-> [op |-> ops[i], user |-> u]]
Signed(u) == By(u, <<"signup", "email_verify", "signin">>)

\* Requests that bring every handler, and the pairs of handlers that meet.
PortalPlays ==
    {Signed("ann") \o By("ann", <<"credential_create", "credential_rotate", "credential_rotate">>),
     Signed("ann") \o By("ann", <<"credential_create", "credential_rotate", "credential_revoke">>),
     Signed("ann") \o By("ann", <<"credential_create">>) \o By("bob", <<"credential_verify">>),
     Signed("ann") \o By("ann", <<"signin", "session_revoke", "signout_others">>),
     Signed("ann") \o By("ann", <<"change_password", "signin", "signout">>),
     Signed("ann") \o By("ann", <<"mfa_setup", "mfa_confirm", "signin", "mfa_verify">>),
     Signed("ann") \o By("ann", <<"mfa_setup", "mfa_disable", "mfa_confirm">>),
     Signed("ann") \o By("ann", <<"webauthn_begin", "webauthn_register">>),
     Signed("ann") \o By("ann", <<"project_create", "project_create", "project_action">>),
     Signed("ann") \o Signed("bob") \o By("bob", <<"session_revoke">>),
     By("ann", <<"signup", "signup", "signin", "email_verify", "email_verify">>),
     By("ann", <<"signup", "password_reset_request", "password_reset", "password_reset">>)}

Paired == <<"pairing_create", "pair_complete">>

\* Requests in which every operation of the developer API is raced by another.
DevicePlays ==
    {Paired \o <<"pair_complete", "pairing_status">>,
     <<"pairing_create", "pair_approve", "pair_complete", "token">>,
     <<"pair_begin", "pair_complete", "pair_approve", "pair_approve">>,
     Paired \o <<"refresh", "refresh">>,
     Paired \o <<"token", "credential_revoke_web">>,
     Paired \o <<"device_revoke", "token">>,
     Paired \o <<"credential_rotate", "credential_rotate">>,
     Paired \o <<"device_revoke_web", "refresh">>,
     Paired \o <<"credential_revoke", "refresh">>}

\* Two workers of one build, and a rolling upgrade.
TwoBuilds == {[p \in StoreProcesses |-> 3], [p \in StoreProcesses |-> IF p = "p1" THEN 2 ELSE 3]}

\* Two threads of one process; a process for each.
SameProcess == t1 :> p1 @@ t2 :> p1
OwnProcess == t1 :> p1 @@ t2 :> p2

portalVars == <<pavars, pdvars, psvars, pbvars, rlvars, pcvars>>
servicesVars == <<subject, portalVars, dkvars, dsvars>>

ServicesInit ==
    /\ subject \in {"accounts", "devices", "store", "backup", "limits", "config", "keys", "servers"}
    /\ PortalAccountsInit /\ PortalDevicesInit /\ PortalStoreInit /\ PortalBackupInit
    /\ RateLimitsInit /\ PortalConfigInit /\ DeveloperKeysInit /\ DeveloperServersInit
    /\ subject # "accounts" => requests[2].op = "password_reset_request"
    /\ subject # "devices" => calls[1] = "pair_begin"
    /\ subject # "store" => backend = "sqlite" /\ build["p1"] = 3
    /\ subject # "limits" => limiter = "memory"
    /\ subject # "servers" => node /\ ~squatter

ServicesNext ==
    /\ UNCHANGED subject
    /\ \/ /\ subject = "accounts" /\ PortalAccountsNext
          /\ UNCHANGED <<pdvars, psvars, pbvars, rlvars, pcvars, dkvars, dsvars>>
       \/ /\ subject = "devices" /\ PortalDevicesNext
          /\ UNCHANGED <<pavars, psvars, pbvars, rlvars, pcvars, dkvars, dsvars>>
       \/ /\ subject = "store" /\ PortalStoreNext
          /\ UNCHANGED <<pavars, pdvars, pbvars, rlvars, pcvars, dkvars, dsvars>>
       \/ /\ subject = "backup" /\ PortalBackupNext
          /\ UNCHANGED <<pavars, pdvars, psvars, rlvars, pcvars, dkvars, dsvars>>
       \/ /\ subject = "limits" /\ RateLimitsNext
          /\ UNCHANGED <<pavars, pdvars, psvars, pbvars, pcvars, dkvars, dsvars>>
       \/ /\ subject = "config" /\ PortalConfigNext
          /\ UNCHANGED <<pavars, pdvars, psvars, pbvars, rlvars, dkvars, dsvars>>
       \/ /\ subject = "keys" /\ DeveloperKeysNext
          /\ UNCHANGED <<portalVars, dsvars>>
       \/ /\ subject = "servers" /\ DeveloperServersNext
          /\ UNCHANGED <<portalVars, dkvars>>

ServicesSpec == ServicesInit /\ [][ServicesNext]_servicesVars

\* What the portal lets through: no more calls than the limit, and no
\* configuration one of its judges refuses (ratelimit.py, config.py).
GatesHold == LimitsHold /\ JudgementsAgree

\* What ended stays ended: revoked sessions, keys, tokens and devices stay
\* revoked, a schema moves forward only, and retention drops nothing active.
EndedStaysEnded ==
    [][RevokedFinalStep /\ RevocationStep /\ SchemaStep /\ RetentionStep /\ RevokedKeyStep]_<<portalVars, dkvars>>
=============================================================================
