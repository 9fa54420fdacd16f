--------------------------- MODULE GroupAdmission ---------------------------
(***************************************************************************)
(* Joining a group by invite: the relay handlers that use the invite       *)
(* authority and the group authority together (_handle_invite_create and   *)
(* _handle_group_redeem in ghostlink/transport/relay/server.py).           *)
(*                                                                         *)
(* Of the group only its seats are kept here: the sessions that hold a     *)
(* pending join and the number of members and candidates, which the        *)
(* operations of module GroupAuthority move.                               *)
(***************************************************************************)
EXTENDS InviteAuthority

CONSTANTS
    OwnerSession,     \* the session the owner has attested
    MaxGroupMembers,  \* MAX_GROUP_MEMBERS
    MaxActiveInvites  \* GROUP_MAX_ACTIVE_INVITES

ASSUME AdmissionConstants ==
    /\ IsFiniteSet(Tokens) /\ IsFiniteSet(Sessions)
    /\ OwnerSession \in Sessions
    /\ MaxGroupMembers \in Nat \ {0}
    /\ MaxActiveInvites \in Nat \ {0}

VARIABLES
    pendingJoins,  \* sessions with a reserved slot
    roster         \* members and candidates

admissionVars == <<entries, now, pendingJoins, roster>>

AdmissionTypeOK ==
    /\ InviteTypeOK
    /\ pendingJoins \subseteq Sessions
    /\ roster \in 1..MaxGroupMembers

AdmissionInit ==
    /\ InviteInit
    /\ pendingJoins = {}
    /\ roster = 1

\* _reserved_count
Reserved == roster + Cardinality(pendingJoins)

\* MUTANT: the limit on active invites is checked one too late.
CreateGroupInviteLate(t, uses, ttl) ==
    /\ uses <= MaxGroupMembers - Reserved
    /\ Cardinality(ActiveGroupInvites) <= MaxActiveInvites
    /\ Register(t, OwnerSession, "group", ttl, uses)
    /\ UNCHANGED <<pendingJoins, roster>>

\* _handle_invite_create: allow_invite_mint, the limit, then register.
CreateGroupInvite(t, uses, ttl) ==
    /\ uses <= MaxGroupMembers - Reserved
    /\ Cardinality(ActiveGroupInvites) < MaxActiveInvites
    /\ Register(t, OwnerSession, "group", ttl, uses)
    /\ UNCHANGED <<pendingJoins, roster>>

\* MUTANT: one slot too many is reserved.
MayBeginOver(s) ==
    /\ s \notin pendingJoins
    /\ Reserved <= MaxGroupMembers

\* begin_join_redemption lets the session in.
MayBegin(s) ==
    /\ s \notin pendingJoins
    /\ Reserved < MaxGroupMembers

\* MUTANT: the invite is consumed before the group is asked.
GroupRedeemConsumeFirst(t, s) ==
    /\ Redeem(t, s)
    /\ pendingJoins' = IF MayBegin(s) THEN pendingJoins \cup {s} ELSE pendingJoins
    /\ UNCHANGED roster

\* _handle_group_redeem: the slot is reserved, the invite consumed; when the
\* invite is refused cancel_pending_join takes the slot back in the same
\* stretch, which leaves everything as it was.
GroupRedeem(t, s) ==
    /\ MayBegin(s)
    /\ Redeem(t, s)
    /\ pendingJoins' = pendingJoins \cup {s}
    /\ UNCHANGED roster

\* attest turns the pending join into a candidate.
Attest(s) ==
    /\ s \in pendingJoins
    /\ pendingJoins' = pendingJoins \ {s}
    /\ roster' = roster + 1
    /\ UNCHANGED inviteVars

\* A pending join expires, or its session disconnects.
DropPendingJoin(s) ==
    /\ s \in pendingJoins
    /\ pendingJoins' = pendingJoins \ {s}
    /\ UNCHANGED <<inviteVars, roster>>

\* A member departs or a candidate's admission is aborted; the owner stays.
Depart ==
    /\ roster > 1
    /\ roster' = roster - 1
    /\ UNCHANGED <<inviteVars, pendingJoins>>

AdmissionNext ==
    \/ \E t \in Tokens :
          \/ \E uses \in 1..MaxRedemptions, ttl \in 1..MaxTtl :
                CreateGroupInvite(t, uses, ttl)
          \/ Revoke(t, OwnerSession) /\ UNCHANGED <<pendingJoins, roster>>
          \/ \E s \in Sessions : GroupRedeem(t, s)
    \/ \E s \in Sessions : Attest(s) \/ DropPendingJoin(s)
    \/ Depart
    \/ (PurgeTerminal \/ Tick) /\ UNCHANGED <<pendingJoins, roster>>

AdmissionSpec == AdmissionInit /\ [][AdmissionNext]_admissionVars

-----------------------------------------------------------------------------
(* Properties. *)

\* Redemptions and reservations come in pairs: a redemption of an invite is
\* consumed exactly when its redeemer is given a slot, so that neither a full
\* group burns an invite nor a refused invite leaves a slot taken
\* (_handle_group_redeem).
Consumed(t) ==
    /\ t \in DOMAIN entries /\ t \in DOMAIN entries'
    /\ entries'[t].uses # entries[t].uses
PairStep ==
    /\ \A t \in Tokens : Consumed(t) =>
          /\ entries'[t].bound \notin pendingJoins
          /\ pendingJoins' = pendingJoins \cup {entries'[t].bound}
    /\ pendingJoins' \ pendingJoins # {} => \E t \in Tokens : Consumed(t)
RedeemedMeansReserved == [][PairStep]_admissionVars

\* The group never has more live invites than the limit, whatever is minted,
\* used up, revoked or left to expire in between (the limit is only checked
\* when an invite is minted).
FanOutBounded == Cardinality(ActiveGroupInvites) <= MaxActiveInvites

\* Seats and invites stay within their limits: members, candidates and
\* reservations are well formed, and so is the number of live invites.
AdmissionSafe == AdmissionTypeOK /\ FanOutBounded
=============================================================================
