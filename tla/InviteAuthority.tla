-------------------------- MODULE InviteAuthority --------------------------
(***************************************************************************)
(* The relay's registry of invites (ghostlink/invites/authority.py).       *)
(*                                                                         *)
(* Every method is synchronous, so each one is a single action; a refused  *)
(* call changes nothing and is only a verdict.  Time is the monotonic      *)
(* clock, counted in ticks from 1 (the code reads a redemption time of 0   *)
(* as "never redeemed").  A token stands for its SHA-256 digest.           *)
(***************************************************************************)
EXTENDS Naturals, FiniteSets

CONSTANTS
    Tokens,
    Sessions,        \* relay sessions
    NoSession,       \* bound_session is None
    MaxRedemptions,  \* INVITE_MAX_REDEMPTIONS
    MaxTtl,          \* INVITE_MAX_TTL_SECONDS
    Retention,       \* retention_hours
    MaxTime          \* bound on the clock

ASSUME InviteConstants ==
    /\ NoSession \notin Sessions
    /\ MaxRedemptions \in Nat \ {0}
    /\ MaxTtl \in Nat \ {0}
    /\ Retention \in Nat /\ MaxTtl <= Retention
    /\ MaxTime \in Nat \ {0}

VARIABLES
    entries,  \* _entries: a function on the registered tokens
    now       \* time.monotonic()

inviteVars == <<entries, now>>

\* _Entry; last is last_redeemed_at_mono, 0 for None.
Entries == [kind : {"chat", "group"}, creator : Sessions, expires : Nat,
            max : 1..MaxRedemptions, uses : Nat, revoked : BOOLEAN,
            bound : Sessions \cup {NoSession}, last : Nat]

InviteTypeOK ==
    /\ DOMAIN entries \subseteq Tokens
    /\ entries \in [DOMAIN entries -> Entries]
    /\ \A t \in DOMAIN entries : entries[t].uses <= entries[t].max
    /\ now \in Nat \ {0}

InviteInit ==
    /\ entries = [t \in {} |-> 0]
    /\ now = 1

\* _expired
Expired(t) == now >= entries[t].expires

\* MUTANT: one redemption too many.
ExhaustedLate(t) == entries[t].uses > entries[t].max

Exhausted(t) == entries[t].uses >= entries[t].max

\* The verdict redeem returns.
Verdict(t) ==
    IF t \notin DOMAIN entries THEN "unknown"
    ELSE IF entries[t].revoked THEN "revoked"
    ELSE IF Expired(t) THEN "expired"
    ELSE IF Exhausted(t) THEN "already-used"
    ELSE "redeemed"

\* The state _status_of reports, in its own order of tests.
Status(t) ==
    IF entries[t].revoked THEN "revoked"
    ELSE IF Exhausted(t) THEN "redeemed"
    ELSE IF Expired(t) THEN "expired"
    ELSE "active"

\* MUTANT: an expired invite still counts.
ActiveGroupInvitesStale ==
    {t \in DOMAIN entries :
        /\ entries[t].kind = "group"
        /\ ~entries[t].revoked
        /\ entries[t].uses < entries[t].max}

\* What count_active_group_invites counts.
ActiveGroupInvites ==
    {t \in DOMAIN entries :
        /\ entries[t].kind = "group"
        /\ ~entries[t].revoked /\ ~Expired(t)
        /\ entries[t].uses < entries[t].max}

\* register; a token that is already there is refused.
Register(t, s, kind, ttl, uses) ==
    /\ t \notin DOMAIN entries
    /\ entries' = [u \in DOMAIN entries \cup {t} |->
                     IF u # t THEN entries[u]
                     ELSE [kind |-> kind, creator |-> s, expires |-> now + ttl,
                           max |-> uses, uses |-> 0, revoked |-> FALSE,
                           bound |-> NoSession, last |-> 0]]
    /\ UNCHANGED now

\* MUTANT: a redemption renews the deadline.
RedeemRenew(t, s) ==
    /\ t \in DOMAIN entries /\ ~entries[t].revoked /\ ~Exhausted(t)
    /\ entries' = [entries EXCEPT ![t].uses = @ + 1, ![t].bound = s,
                                  ![t].last = now, ![t].expires = now + 1]
    /\ UNCHANGED now

\* redeem, when its verdict is "redeemed".
Redeem(t, s) ==
    /\ Verdict(t) = "redeemed"
    /\ entries' = [entries EXCEPT ![t].uses = @ + 1, ![t].bound = s,
                                  ![t].last = now]
    /\ UNCHANGED now

\* revoke, by the creating session only.
Revoke(t, s) ==
    /\ t \in DOMAIN entries
    /\ entries[t].creator = s
    /\ entries' = [entries EXCEPT ![t].revoked = TRUE]
    /\ UNCHANGED now

\* MUTANT: the age is counted from the first use, terminal or not.
PurgeableEarly(t) ==
    LET e == entries[t]
    IN  /\ e.revoked \/ Exhausted(t) \/ Expired(t)
        /\ e.last + Retention < now

\* The entries purge_terminal drops.
Purgeable(t) ==
    LET e == entries[t]
        reference == IF e.last # 0 THEN e.last ELSE e.expires
    IN  /\ e.revoked \/ Exhausted(t) \/ Expired(t)
        /\ reference + Retention < now

\* sweep
PurgeTerminal ==
    /\ entries' = [t \in {u \in DOMAIN entries : ~Purgeable(u)} |-> entries[t]]
    /\ UNCHANGED now

Tick ==
    /\ now < MaxTime
    /\ now' = now + 1
    /\ UNCHANGED entries

InviteNext ==
    \/ \E t \in Tokens, s \in Sessions :
          \/ \E kind \in {"chat", "group"}, ttl \in 1..MaxTtl,
                uses \in 1..MaxRedemptions : Register(t, s, kind, ttl, uses)
          \/ Redeem(t, s)
          \/ Revoke(t, s)
    \/ PurgeTerminal
    \/ Tick

InviteSpec == InviteInit /\ [][InviteNext]_inviteVars

-----------------------------------------------------------------------------
(* Properties. *)

\* The three places that judge an invite agree on which ones are live: the
\* state a query reports (_status_of), the verdict of a redemption (redeem,
\* which tests in another order) and the count that limits the invites of a
\* group (count_active_group_invites).
JudgesAgree ==
    \A t \in DOMAIN entries :
        /\ (Status(t) = "active") = (Verdict(t) = "redeemed")
        /\ (t \in ActiveGroupInvites) =
               (entries[t].kind = "group" /\ Status(t) = "active")

\* A dead invite stays dead: as long as the entry is kept, no order of
\* redemptions, revocations and purges makes it redeemable again.
DeadStep ==
    \A t \in DOMAIN entries \cap DOMAIN entries' :
        Verdict(t) # "redeemed" => Verdict(t)' # "redeemed"
DeadStaysDead == [][DeadStep]_inviteVars

\* An entry is forgotten only after its deadline, although purge_terminal
\* counts the retention from the last redemption: a link that was used up or
\* revoked cannot be registered a second time while the first is still within
\* its lifetime, and a live one is never dropped.
ForgetStep ==
    \A t \in DOMAIN entries \ DOMAIN entries' : Expired(t)
ForgottenAfterDeadline == [][ForgetStep]_inviteVars

\* The end of an invite is final: it is not revived while its entry is kept,
\* and its entry is kept until the deadline (redeem, revoke, purge_terminal).
InviteEndsForGood == [][DeadStep /\ ForgetStep]_inviteVars
=============================================================================
