-------------------------- MODULE InviteProofs --------------------------
(***************************************************************************)
(* The relay's invites, and the two that stand behind them, for every      *)
(* value of their constants: the admission to a group and the room of two. *)
(* Each part has its inductive invariant, one lemma per group of actions,  *)
(* and its theorems.                                                       *)
(***************************************************************************)
EXTENDS GroupAdmission, RelayRoom, FiniteSetTheorems, TLAPS


-----------------------------------------------------------------------------
(***************************************************************************)
(* What holds of the invite authority for every number of tokens,          *)
(* sessions, redemptions and every lifetime and retention, provided that   *)
(* no lifetime is longer than the retention.                               *)
(***************************************************************************)

\* The deadline is never more than a lifetime ahead of the clock, nor of the
\* last redemption.  This is what relates the retention, counted from the last
\* redemption, to the deadline.
DeadlinesNear ==
    \A t \in DOMAIN entries :
        /\ entries[t].expires <= now + MaxTtl
        /\ entries[t].last # 0 => entries[t].expires <= entries[t].last + MaxTtl

InviteInv == InviteTypeOK /\ DeadlinesNear

\* An entry has its fields.
LEMMA EntryFields ==
    ASSUME NEW e \in Entries
    PROVE  /\ e.kind \in {"chat", "group"} /\ e.creator \in Sessions
           /\ e.expires \in Nat /\ e.max \in 1..MaxRedemptions /\ e.uses \in Nat
           /\ e.revoked \in BOOLEAN /\ e.bound \in Sessions \cup {NoSession}
           /\ e.last \in Nat
BY DEF Entries

\* The entry e after its n-th redemption, by s at time c.
Redeemed(e, n, s, c) == [e EXCEPT !.uses = n, !.bound = s, !.last = c]

\* A redeemed entry is an entry, with its limit and its deadline unchanged.
LEMMA RedeemedEntry ==
    ASSUME NEW e \in Entries, NEW n \in Nat, NEW s \in Sessions, NEW c \in Nat
    PROVE  /\ Redeemed(e, n, s, c) \in Entries
           /\ Redeemed(e, n, s, c).uses = n
           /\ Redeemed(e, n, s, c).last = c
           /\ Redeemed(e, n, s, c).max = e.max
           /\ Redeemed(e, n, s, c).expires = e.expires
BY Zenon DEF Entries, Redeemed

\* Registration keeps the invariant (register).
LEMMA RegisterKeeps ==
    ASSUME InviteInv, NEW t \in Tokens, NEW s \in Sessions,
           NEW kind \in {"chat", "group"}, NEW ttl \in 1..MaxTtl,
           NEW uses \in 1..MaxRedemptions, Register(t, s, kind, ttl, uses)
    PROVE  InviteInv'
<1> DEFINE e == [kind |-> kind, creator |-> s, expires |-> now + ttl,
                 max |-> uses, uses |-> 0, revoked |-> FALSE,
                 bound |-> NoSession, last |-> 0]
<1>1. /\ now \in Nat \ {0} /\ now' = now /\ ttl \in Nat /\ ttl <= MaxTtl
      /\ MaxTtl \in Nat /\ uses \in Nat /\ 1 <= uses
  BY InviteConstants DEF InviteInv, InviteTypeOK, Register
<1>2. /\ e \in Entries /\ e.uses <= e.max /\ e.expires <= now + MaxTtl
      /\ e.last = 0
  BY <1>1 DEF Entries
<1>3. entries' = [u \in DOMAIN entries \cup {t} |->
                    IF u # t THEN entries[u] ELSE e]
  BY DEF Register
<1> HIDE DEF e
<1>4. /\ DOMAIN entries' = DOMAIN entries \cup {t}
      /\ \A u \in DOMAIN entries' :
            entries'[u] = IF u # t THEN entries[u] ELSE e
  BY <1>3
<1>5. \A u \in DOMAIN entries : entries[u] \in Entries
  BY DEF InviteInv, InviteTypeOK
<1>6. entries' \in [DOMAIN entries' -> Entries]
  BY <1>2, <1>3, <1>5
<1>7. InviteTypeOK'
  BY <1>1, <1>2, <1>4, <1>6 DEF InviteInv, InviteTypeOK
<1>8. DeadlinesNear'
  BY <1>1, <1>2, <1>4 DEF InviteInv, DeadlinesNear
<1> QED BY <1>7, <1>8 DEF InviteInv

\* Redemption keeps the invariant (redeem).
LEMMA RedeemKeeps ==
    ASSUME InviteInv, NEW t \in Tokens, NEW s \in Sessions, Redeem(t, s)
    PROVE  InviteInv'
<1> DEFINE e == Redeemed(entries[t], entries[t].uses + 1, s, now)
<1>1. /\ t \in DOMAIN entries /\ ~Exhausted(t) /\ now' = now
      /\ now \in Nat \ {0} /\ MaxTtl \in Nat
  BY InviteConstants DEF Redeem, Verdict, InviteInv, InviteTypeOK
<1>2. entries[t] \in Entries
  BY <1>1 DEF InviteInv, InviteTypeOK
<1>3. /\ entries[t].uses \in Nat /\ entries[t].max \in Nat
      /\ entries[t].expires \in Nat
  BY <1>2, EntryFields
<1>4. /\ e \in Entries /\ e.uses = entries[t].uses + 1 /\ e.last = now
      /\ e.max = entries[t].max /\ e.expires = entries[t].expires
  <2>1. entries[t].uses + 1 \in Nat /\ now \in Nat
    BY <1>1, <1>3
  <2> DEFINE x == entries[t]
             n == x.uses + 1
  <2>2. x \in Entries /\ n \in Nat /\ now \in Nat
    BY <1>2, <2>1
  <2>3. e = Redeemed(x, n, s, now)
    OBVIOUS
  <2> HIDE DEF x, n, e
  <2>4. /\ e \in Entries /\ e.uses = n /\ e.last = now
        /\ e.max = x.max /\ e.expires = x.expires
    BY <2>2, <2>3, RedeemedEntry
  <2> QED BY <2>4 DEF x, n
<1>5. entries' = [entries EXCEPT ![t] = e]
  BY <1>1, <1>2, Zenon DEF Redeem, Redeemed, InviteInv, InviteTypeOK, Entries
<1> HIDE DEF e
<1>6. e.uses <= e.max
  BY <1>1, <1>3, <1>4 DEF Exhausted
<1>7. entries[t].expires <= now + MaxTtl
  BY <1>1 DEF InviteInv, DeadlinesNear
<1>8. /\ DOMAIN entries' = DOMAIN entries
      /\ entries' \in [DOMAIN entries -> Entries]
      /\ entries'[t] = e
      /\ \A u \in DOMAIN entries : u # t => entries'[u] = entries[u]
  BY <1>1, <1>4, <1>5 DEF InviteInv, InviteTypeOK
<1>9. InviteTypeOK'
  BY <1>1, <1>6, <1>8 DEF InviteInv, InviteTypeOK
<1>10. DeadlinesNear'
  BY <1>1, <1>4, <1>7, <1>8 DEF InviteInv, DeadlinesNear
<1> QED BY <1>9, <1>10 DEF InviteInv

\* The entry e, revoked.
Revoked(e) == [e EXCEPT !.revoked = TRUE]

\* A revoked entry is an entry that differs in nothing else.
LEMMA RevokedEntry ==
    ASSUME NEW e \in Entries
    PROVE  /\ Revoked(e) \in Entries /\ Revoked(e).revoked
           /\ Revoked(e).uses = e.uses /\ Revoked(e).max = e.max
           /\ Revoked(e).expires = e.expires /\ Revoked(e).last = e.last
BY Zenon DEF Entries, Revoked

\* Revocation keeps the invariant (revoke).
LEMMA RevokeKeeps ==
    ASSUME InviteInv, NEW t \in Tokens, NEW s \in Sessions, Revoke(t, s)
    PROVE  InviteInv'
<1> DEFINE e == Revoked(entries[t])
<1>1. t \in DOMAIN entries /\ now' = now /\ entries[t] \in Entries
  BY DEF Revoke, InviteInv, InviteTypeOK
<1>2. /\ e \in Entries /\ e.uses = entries[t].uses /\ e.max = entries[t].max
      /\ e.expires = entries[t].expires /\ e.last = entries[t].last
  BY <1>1, RevokedEntry
<1>3. entries' = [entries EXCEPT ![t] = e]
  BY <1>1 DEF Revoke, Revoked, InviteInv, InviteTypeOK, Entries
<1> HIDE DEF e
<1>4. /\ DOMAIN entries' = DOMAIN entries
      /\ entries' \in [DOMAIN entries -> Entries]
      /\ entries'[t] = e
      /\ \A u \in DOMAIN entries : u # t => entries'[u] = entries[u]
  BY <1>1, <1>2, <1>3 DEF InviteInv, InviteTypeOK
<1>5. InviteTypeOK'
  BY <1>1, <1>2, <1>4 DEF InviteInv, InviteTypeOK
<1>6. DeadlinesNear'
  BY <1>1, <1>2, <1>4 DEF InviteInv, DeadlinesNear
<1> QED BY <1>5, <1>6 DEF InviteInv

\* A sweep keeps the invariant (purge_terminal).
LEMMA PurgeKeeps ==
    ASSUME InviteInv, PurgeTerminal
    PROVE  InviteInv'
<1>1. /\ DOMAIN entries' \subseteq DOMAIN entries /\ now' = now
      /\ entries' \in [DOMAIN entries' -> Entries]
      /\ \A u \in DOMAIN entries' : entries'[u] = entries[u]
  BY DEF PurgeTerminal, InviteInv, InviteTypeOK
<1> QED BY <1>1 DEF InviteInv, InviteTypeOK, DeadlinesNear

\* The passing of time keeps the invariant.
LEMMA TickKeeps ==
    ASSUME InviteInv, Tick
    PROVE  InviteInv'
<1>1. now \in Nat /\ now' = now + 1 /\ entries' = entries /\ MaxTtl \in Nat
  BY InviteConstants DEF Tick, InviteInv, InviteTypeOK
<1>2. \A t \in DOMAIN entries : entries[t].expires \in Nat
  BY EntryFields DEF InviteInv, InviteTypeOK
<1> QED BY <1>1, <1>2 DEF InviteInv, InviteTypeOK, DeadlinesNear

\* The inductive step, one case per method.
LEMMA InviteInvStep == InviteInv /\ [InviteNext]_inviteVars => InviteInv'
<1> SUFFICES ASSUME InviteInv, [InviteNext]_inviteVars PROVE InviteInv'
  OBVIOUS
<1>1. ASSUME NEW t \in Tokens, NEW s \in Sessions,
             \E kind \in {"chat", "group"}, ttl \in 1..MaxTtl,
                uses \in 1..MaxRedemptions : Register(t, s, kind, ttl, uses)
      PROVE  InviteInv'
  BY <1>1, RegisterKeeps
<1>2. ASSUME NEW t \in Tokens, NEW s \in Sessions, Redeem(t, s)
      PROVE  InviteInv'
  BY <1>2, RedeemKeeps
<1>3. ASSUME NEW t \in Tokens, NEW s \in Sessions, Revoke(t, s)
      PROVE  InviteInv'
  BY <1>3, RevokeKeeps
<1>4. CASE PurgeTerminal
  BY <1>4, PurgeKeeps
<1>5. CASE Tick
  BY <1>5, TickKeeps
<1>6. CASE UNCHANGED inviteVars
  BY <1>6 DEF inviteVars, InviteInv, InviteTypeOK, DeadlinesNear
<1> QED BY <1>1, <1>2, <1>3, <1>4, <1>5, <1>6 DEF InviteNext

\* The invariant holds of the empty registry.
LEMMA InviteInvInit == InviteInit => InviteInv
BY DEF InviteInit, InviteInv, InviteTypeOK, DeadlinesNear

\* The invariant behind the theorems below.
THEOREM InvariantHolds == InviteSpec => []InviteInv
BY InviteInvInit, InviteInvStep, PTL DEF InviteSpec

\* No invite is redeemed more often than it allows (the redemption counter of
\* redeem), and every entry keeps its type.
THEOREM TypeCorrect == InviteSpec => []InviteTypeOK
BY InvariantHolds, PTL DEF InviteInv

\* An entry that can still be redeemed at time c.
Live(e, c) == ~e.revoked /\ ~(c >= e.expires) /\ ~(e.uses >= e.max)

\* redeem and _status_of test revocation, deadline and count in different
\* orders; "redeemed" and "active" are the verdicts of a live entry all the
\* same.
LEMMA VerdictIsLive ==
    \A t \in DOMAIN entries :
        /\ (Verdict(t) = "redeemed") <=> Live(entries[t], now)
        /\ (Status(t) = "active") <=> Live(entries[t], now)
BY DEF Verdict, Status, Live, Expired, Exhausted

\* The query, the redemption and the count of a group's invites agree.
THEOREM JudgesAlwaysAgree == InviteSpec => []JudgesAgree
<1>1. InviteInv => JudgesAgree
  <2> SUFFICES ASSUME InviteInv, NEW t \in DOMAIN entries
               PROVE  /\ (Status(t) = "active") = (Verdict(t) = "redeemed")
                      /\ (t \in ActiveGroupInvites) =
                             (entries[t].kind = "group" /\ Status(t) = "active")
    BY DEF JudgesAgree
  <2>1. (Status(t) = "active") <=> (Verdict(t) = "redeemed")
    BY VerdictIsLive
  <2>2. /\ entries[t].uses \in Nat /\ entries[t].max \in Nat
    BY EntryFields, InviteConstants DEF InviteInv, InviteTypeOK
  <2>3. (entries[t].uses < entries[t].max) <=> ~(entries[t].uses >= entries[t].max)
    BY <2>2
  <2>4. (t \in ActiveGroupInvites) <=>
            (entries[t].kind = "group" /\ Live(entries[t], now))
    BY <2>3 DEF ActiveGroupInvites, Live, Expired
  <2>5. (t \in ActiveGroupInvites) <=>
            (entries[t].kind = "group" /\ Status(t) = "active")
    BY <2>4, VerdictIsLive
  <2> QED BY <2>1, <2>5
<1> QED BY <1>1, InvariantHolds, PTL

\* No step revives an entry it keeps: a redemption only raises the count, a
\* revocation only sets the flag, and the clock only moves on.
LEMMA NoneRevived ==
    ASSUME InviteInv, [InviteNext]_inviteVars,
           NEW t \in DOMAIN entries \cap DOMAIN entries',
           Live(entries'[t], now')
    PROVE  Live(entries[t], now)
<1>1. /\ entries[t] \in Entries /\ now \in Nat
      /\ entries \in [DOMAIN entries -> Entries]
  BY DEF InviteInv, InviteTypeOK
<1>2. /\ entries[t].uses \in Nat /\ entries[t].max \in Nat
      /\ entries[t].expires \in Nat
  BY <1>1, EntryFields, InviteConstants
<1>3. ASSUME NEW u \in Tokens, NEW s \in Sessions,
             \E kind \in {"chat", "group"}, ttl \in 1..MaxTtl,
                uses \in 1..MaxRedemptions : Register(u, s, kind, ttl, uses)
      PROVE  entries'[t] = entries[t] /\ now' = now
  BY <1>3 DEF Register
<1>4. ASSUME NEW u \in Tokens, NEW s \in Sessions, Redeem(u, s)
      PROVE  Live(entries[t], now)
  <2>1. CASE u = t
    BY <2>1, <1>4, <1>1, VerdictIsLive DEF Redeem
  <2>2. CASE u # t
    BY <2>2, <1>4, <1>1 DEF Redeem
  <2> QED BY <2>1, <2>2
<1>5. ASSUME NEW u \in Tokens, NEW s \in Sessions, Revoke(u, s)
      PROVE  Live(entries[t], now)
  <2>1. CASE u = t
    <3>1. entries'[t] = Revoked(entries[t])
      BY <2>1, <1>5, <1>1 DEF Revoke, Revoked, Entries
    <3> QED BY <3>1, <1>1, RevokedEntry DEF Live
  <2>2. CASE u # t
    BY <2>2, <1>5, <1>1 DEF Revoke
  <2> QED BY <2>1, <2>2
<1>6. CASE PurgeTerminal
  BY <1>6 DEF PurgeTerminal
<1>7. CASE Tick
  BY <1>7, <1>1, <1>2 DEF Tick, Live
<1>8. CASE UNCHANGED inviteVars
  BY <1>8 DEF inviteVars
<1> QED BY <1>3, <1>4, <1>5, <1>6, <1>7, <1>8 DEF InviteNext

\* An invite that was refused once is refused for as long as it is kept.
THEOREM DeadForGood == InviteSpec => DeadStaysDead
<1>1. InviteInv /\ [InviteNext]_inviteVars => DeadStep
  <2> SUFFICES ASSUME InviteInv, [InviteNext]_inviteVars,
                      NEW t \in DOMAIN entries \cap DOMAIN entries',
                      Verdict(t)' = "redeemed"
               PROVE  Verdict(t) = "redeemed"
    BY DEF DeadStep
  <2>1. Live(entries'[t], now')
    BY DEF Verdict, Live, Expired, Exhausted
  <2>2. Live(entries[t], now)
    BY <2>1, NoneRevived
  <2> QED BY <2>2, VerdictIsLive
<1> QED BY <1>1, InvariantHolds, PTL DEF InviteSpec, DeadStaysDead

\* A sweep forgets an entry only after its deadline, although it counts the
\* retention from the last redemption.
THEOREM ForgottenOnlyAfterDeadline == InviteSpec => ForgottenAfterDeadline
<1>1. InviteInv /\ [InviteNext]_inviteVars => ForgetStep
  <2> SUFFICES ASSUME InviteInv, [InviteNext]_inviteVars,
                      NEW t \in DOMAIN entries, t \notin DOMAIN entries'
               PROVE  Expired(t)
    BY Zenon DEF ForgetStep
  <2>1. PurgeTerminal
    BY ZenonT(30) DEF InviteNext, Register, Redeem, Revoke, Tick, inviteVars
  <2>2. Purgeable(t)
    BY <2>1 DEF PurgeTerminal
  <2>3. /\ now \in Nat /\ entries[t].expires \in Nat /\ entries[t].last \in Nat
        /\ MaxTtl \in Nat /\ Retention \in Nat /\ MaxTtl <= Retention
    BY EntryFields, InviteConstants DEF InviteInv, InviteTypeOK
  <2>4. entries[t].last # 0 => entries[t].expires <= entries[t].last + MaxTtl
    BY DEF InviteInv, DeadlinesNear
  <2> QED BY <2>2, <2>3, <2>4 DEF Purgeable, Expired
<1> QED BY <1>1, InvariantHolds, PTL DEF InviteSpec, ForgottenAfterDeadline

\* Both together: the end of an invite is final.
THEOREM EndsForGood == InviteSpec => InviteEndsForGood
BY DeadForGood, ForgottenOnlyAfterDeadline, PTL
   DEF DeadStaysDead, ForgottenAfterDeadline, InviteEndsForGood

-----------------------------------------------------------------------------
(***************************************************************************)
(* Admission to a group by invite, for every number of sessions, tokens,   *)
(* seats and invites.                                                      *)
(*                                                                         *)
(* AdmissionSafe is not inductive: attest turns a reservation into a       *)
(* member without asking for room.  What makes that safe is that members,  *)
(* candidates and reservations together never exceed the seats             *)
(* (SeatsKept), which only begin_join_redemption has to check.             *)
(***************************************************************************)

SeatsKept ==
    /\ pendingJoins \subseteq Sessions
    /\ roster \in Nat /\ 1 <= roster
    /\ Reserved <= MaxGroupMembers

AdmissionInv == InviteInv /\ SeatsKept /\ FanOutBounded

\* The reservations are finitely many.
LEMMA PendingFinite ==
    ASSUME SeatsKept
    PROVE  IsFiniteSet(pendingJoins) /\ Cardinality(pendingJoins) \in Nat
BY AdmissionConstants, FS_Subset, FS_CardinalityType DEF SeatsKept

\* Whatever the group does with its seats, the registry of invites makes one
\* of its own steps or none.
LEMMA AdmissionIsInvite ==
    ASSUME AdmissionNext
    PROVE  [InviteNext]_inviteVars
<1>1. ASSUME NEW t \in Tokens, NEW uses \in 1..MaxRedemptions, NEW ttl \in 1..MaxTtl,
             CreateGroupInvite(t, uses, ttl)
      PROVE  InviteNext
  BY <1>1, AdmissionConstants DEF CreateGroupInvite, InviteNext
<1>2. ASSUME NEW t \in Tokens, Revoke(t, OwnerSession) PROVE InviteNext
  BY <1>2, AdmissionConstants DEF InviteNext
<1>3. ASSUME NEW t \in Tokens, NEW s \in Sessions, GroupRedeem(t, s) PROVE InviteNext
  BY <1>3 DEF GroupRedeem, InviteNext
<1>4. ASSUME NEW s \in Sessions, Attest(s) \/ DropPendingJoin(s)
      PROVE  UNCHANGED inviteVars
  BY <1>4 DEF Attest, DropPendingJoin
<1>5. CASE Depart
  BY <1>5 DEF Depart
<1>6. CASE PurgeTerminal \/ Tick
  BY <1>6 DEF InviteNext
<1> QED BY <1>1, <1>2, <1>3, <1>4, <1>5, <1>6 DEF AdmissionNext

\* The seats are kept by every handler: a redemption takes a free one, attest
\* exchanges a reservation for a member, and the others only give seats back.
LEMMA SeatsStep ==
    ASSUME SeatsKept, [AdmissionNext]_admissionVars
    PROVE  SeatsKept'
<1>0. /\ IsFiniteSet(pendingJoins) /\ Cardinality(pendingJoins) \in Nat
      /\ MaxGroupMembers \in Nat
  BY PendingFinite, AdmissionConstants
<1>1. CASE UNCHANGED <<pendingJoins, roster>>
  BY <1>1 DEF SeatsKept, Reserved
<1>2. ASSUME NEW t \in Tokens, NEW s \in Sessions, GroupRedeem(t, s)
      PROVE  SeatsKept'
  <2>1. s \notin pendingJoins /\ Reserved < MaxGroupMembers
    BY <1>2 DEF GroupRedeem, MayBegin
  <2>2. Cardinality(pendingJoins \cup {s}) = Cardinality(pendingJoins) + 1
    BY <1>0, <2>1, FS_AddElement, Zenon
  <2>3. pendingJoins' = pendingJoins \cup {s} /\ roster' = roster
    BY <1>2 DEF GroupRedeem
  <2>4. Cardinality(pendingJoins') = Cardinality(pendingJoins) + 1
    BY <2>2, <2>3
  <2> QED BY <1>0, <2>1, <2>3, <2>4 DEF SeatsKept, Reserved
<1>3. ASSUME NEW s \in pendingJoins, pendingJoins' = pendingJoins \ {s},
             roster' \in {roster, roster + 1}
      PROVE  SeatsKept'
  <2>1. Cardinality(pendingJoins \ {s}) = Cardinality(pendingJoins) - 1
    BY <1>0, <1>3, FS_RemoveElement
  <2>2. Cardinality(pendingJoins') = Cardinality(pendingJoins) - 1
    BY <2>1, <1>3
  <2> QED BY <1>0, <1>3, <2>2 DEF SeatsKept, Reserved
<1>4. CASE Depart
  BY <1>0, <1>4 DEF Depart, SeatsKept, Reserved
<1>5. ASSUME NEW s \in Sessions, Attest(s) \/ DropPendingJoin(s) PROVE SeatsKept'
  BY <1>3, <1>5 DEF Attest, DropPendingJoin
<1> QED BY <1>1, <1>2, <1>4, <1>5 DEF AdmissionNext, CreateGroupInvite, admissionVars

\* The live invites are finitely many.
LEMMA LiveFinite ==
    ASSUME InviteInv
    PROVE  IsFiniteSet(ActiveGroupInvites) /\ Cardinality(ActiveGroupInvites) \in Nat
<1>1. ActiveGroupInvites \in SUBSET Tokens
  BY DEF ActiveGroupInvites, InviteInv, InviteTypeOK
<1> QED BY <1>1, AdmissionConstants, FS_Subset, FS_CardinalityType

\* Minting adds one live invite at most.
LEMMA MintAddsOne ==
    ASSUME InviteInv, NEW t \in Tokens, NEW s \in Sessions, NEW kind \in {"chat", "group"},
           NEW ttl, NEW uses, Register(t, s, kind, ttl, uses)
    PROVE  ActiveGroupInvites' \subseteq ActiveGroupInvites \cup {t}
<1>1. /\ DOMAIN entries' = DOMAIN entries \cup {t} /\ now' = now
      /\ \A u \in DOMAIN entries' : u # t => entries'[u] = entries[u]
  BY DEF Register
<1> QED BY <1>1 DEF ActiveGroupInvites, Expired

\* Redeeming, revoking, sweeping and waiting make no invite live.
LEMMA OthersAddNone ==
    ASSUME InviteInv,
           \/ \E t \in Tokens, s \in Sessions : Redeem(t, s) \/ Revoke(t, s)
           \/ PurgeTerminal \/ Tick \/ UNCHANGED inviteVars
    PROVE  ActiveGroupInvites' \subseteq ActiveGroupInvites
<1>0. \A u \in DOMAIN entries : entries[u] \in Entries
  BY DEF InviteInv, InviteTypeOK
<1>1. ASSUME NEW t \in Tokens, NEW s \in Sessions, Redeem(t, s)
      PROVE  ActiveGroupInvites' \subseteq ActiveGroupInvites
  <2>1. /\ t \in DOMAIN entries /\ DOMAIN entries' = DOMAIN entries /\ now' = now
        /\ \A u \in DOMAIN entries : u # t => entries'[u] = entries[u]
        /\ ~entries[t].revoked /\ ~Expired(t) /\ ~Exhausted(t)
    BY <1>1, Zenon DEF Redeem, Verdict
  <2>2. entries'[t] = [entries[t] EXCEPT !.uses = @ + 1, !.bound = s, !.last = now]
    BY <1>1, <2>1, <1>0, Zenon DEF Redeem, Entries
  <2>3. entries'[t].kind = entries[t].kind
    BY <2>1, <2>2, <1>0 DEF Entries
  <2>4. entries[t].uses \in Nat /\ entries[t].max \in Nat
    BY <1>0, <2>1, EntryFields
  <2>5. entries[t].uses < entries[t].max
    BY <2>1, <2>4 DEF Exhausted
  <2> QED BY <2>1, <2>3, <2>5, Zenon DEF ActiveGroupInvites, Expired
<1>2. ASSUME NEW t \in Tokens, NEW s \in Sessions, Revoke(t, s)
      PROVE  ActiveGroupInvites' \subseteq ActiveGroupInvites
  <2>1. /\ t \in DOMAIN entries /\ DOMAIN entries' = DOMAIN entries /\ now' = now
        /\ \A u \in DOMAIN entries : u # t => entries'[u] = entries[u]
    BY <1>2 DEF Revoke
  <2>2. entries'[t] = [entries[t] EXCEPT !.revoked = TRUE]
    BY <1>2, <2>1, <1>0 DEF Revoke, Entries
  <2>3. entries'[t].revoked
    BY <2>1, <2>2, <1>0 DEF Entries
  <2> QED BY <2>1, <2>3 DEF ActiveGroupInvites, Expired
<1>3. CASE PurgeTerminal
  <2>1. /\ DOMAIN entries' \subseteq DOMAIN entries /\ now' = now
        /\ \A u \in DOMAIN entries' : entries'[u] = entries[u]
    BY <1>3 DEF PurgeTerminal
  <2> QED BY <2>1 DEF ActiveGroupInvites, Expired
<1>4. CASE Tick
  <2>1. \A u \in DOMAIN entries : entries[u].expires \in Nat
    BY <1>0, EntryFields
  <2>2. entries' = entries /\ now \in Nat /\ now' = now + 1
    BY <1>4 DEF Tick, InviteInv, InviteTypeOK
  <2> QED BY <2>1, <2>2 DEF ActiveGroupInvites, Expired
<1>5. CASE UNCHANGED inviteVars
  BY <1>5 DEF inviteVars, ActiveGroupInvites, Expired
<1> QED BY <1>1, <1>2, <1>3, <1>4, <1>5

\* The limit on live invites is kept although only minting checks it.
LEMMA FanOutStep ==
    ASSUME InviteInv, FanOutBounded, [AdmissionNext]_admissionVars
    PROVE  FanOutBounded'
<1>0. /\ IsFiniteSet(ActiveGroupInvites) /\ Cardinality(ActiveGroupInvites) \in Nat
      /\ MaxActiveInvites \in Nat
  BY LiveFinite, AdmissionConstants
<1>1. ASSUME NEW t \in Tokens, NEW uses \in 1..MaxRedemptions, NEW ttl \in 1..MaxTtl,
             CreateGroupInvite(t, uses, ttl)
      PROVE  FanOutBounded'
  <2>1. ActiveGroupInvites' \in SUBSET (ActiveGroupInvites \cup {t})
    BY <1>1, MintAddsOne, AdmissionConstants DEF CreateGroupInvite
  <2>2. /\ IsFiniteSet(ActiveGroupInvites \cup {t})
        /\ Cardinality(ActiveGroupInvites \cup {t}) \in Nat
        /\ Cardinality(ActiveGroupInvites \cup {t}) <= Cardinality(ActiveGroupInvites) + 1
    <3> DEFINE A == ActiveGroupInvites
    <3>1. IsFiniteSet(A) /\ Cardinality(A) \in Nat
      BY <1>0
    <3> HIDE DEF A
    <3>2. /\ IsFiniteSet(A \cup {t})
          /\ Cardinality(A \cup {t}) = IF t \in A THEN Cardinality(A) ELSE Cardinality(A) + 1
      BY <3>1, FS_AddElement
    <3>3. /\ Cardinality(A \cup {t}) \in Nat
          /\ Cardinality(A \cup {t}) <= Cardinality(A) + 1
      BY <3>1, <3>2
    <3> QED BY <3>2, <3>3 DEF A
  <2>3. /\ Cardinality(ActiveGroupInvites') <= Cardinality(ActiveGroupInvites \cup {t})
        /\ Cardinality(ActiveGroupInvites') \in Nat
    BY <2>1, <2>2, FS_Subset, FS_CardinalityType
  <2>4. Cardinality(ActiveGroupInvites) < MaxActiveInvites
    BY <1>1 DEF CreateGroupInvite
  <2> QED BY <1>0, <2>2, <2>3, <2>4 DEF FanOutBounded
<1>2. ASSUME ActiveGroupInvites' \in SUBSET ActiveGroupInvites
      PROVE  FanOutBounded'
  <2>1. /\ Cardinality(ActiveGroupInvites') <= Cardinality(ActiveGroupInvites)
        /\ Cardinality(ActiveGroupInvites') \in Nat
    BY <1>0, <1>2, FS_Subset, FS_CardinalityType
  <2> QED BY <1>0, <2>1 DEF FanOutBounded
<1>3. ASSUME NEW t \in Tokens, Revoke(t, OwnerSession) PROVE FanOutBounded'
  BY <1>2, <1>3, OthersAddNone, AdmissionConstants
<1>4. ASSUME NEW t \in Tokens, NEW s \in Sessions, GroupRedeem(t, s) PROVE FanOutBounded'
  BY <1>2, <1>4, OthersAddNone DEF GroupRedeem
<1>5. CASE PurgeTerminal \/ Tick \/ UNCHANGED inviteVars
  BY <1>2, <1>5, OthersAddNone
<1> QED
  BY <1>1, <1>3, <1>4, <1>5
  DEF AdmissionNext, Attest, DropPendingJoin, Depart, admissionVars, inviteVars

\* The inductive step.
LEMMA AdmissionInvStep == AdmissionInv /\ [AdmissionNext]_admissionVars => AdmissionInv'
<1> SUFFICES ASSUME AdmissionInv, [AdmissionNext]_admissionVars PROVE AdmissionInv'
  OBVIOUS
<1>1. [InviteNext]_inviteVars
  BY AdmissionIsInvite DEF admissionVars, inviteVars
<1>2. InviteInv'
  BY <1>1, InviteInvStep DEF AdmissionInv
<1>3. SeatsKept' /\ FanOutBounded'
  BY SeatsStep, FanOutStep DEF AdmissionInv
<1> QED BY <1>2, <1>3 DEF AdmissionInv

\* An empty registry and a group with its owner alone.
LEMMA AdmissionInvInit == AdmissionInit => AdmissionInv
<1> SUFFICES ASSUME AdmissionInit PROVE AdmissionInv
  OBVIOUS
<1>1. InviteInv
  BY InviteInvInit DEF AdmissionInit
<1>2. SeatsKept
  BY FS_EmptySet, AdmissionConstants DEF AdmissionInit, SeatsKept, Reserved
<1>3. ActiveGroupInvites = {}
  BY DEF AdmissionInit, InviteInit, ActiveGroupInvites
<1>4. FanOutBounded
  BY <1>3, FS_EmptySet, AdmissionConstants DEF FanOutBounded
<1> QED BY <1>1, <1>2, <1>4 DEF AdmissionInv

\* The invariant behind the theorems below.
THEOREM AdmissionInvHolds == AdmissionSpec => []AdmissionInv
BY AdmissionInvInit, AdmissionInvStep, PTL DEF AdmissionSpec

\* Members, candidates and reservations never exceed the seats of the group,
\* and its live invites never exceed their limit, although attest and the
\* sweep check neither (_handle_group_redeem, attest, _handle_invite_create).
THEOREM AdmissionStaysSafe == AdmissionSpec => []AdmissionSafe
<1>1. AdmissionInv => AdmissionSafe
  <2> SUFFICES ASSUME AdmissionInv PROVE AdmissionSafe
    OBVIOUS
  <2>1. /\ roster \in Nat /\ 1 <= roster /\ Reserved <= MaxGroupMembers
        /\ Cardinality(pendingJoins) \in Nat /\ MaxGroupMembers \in Nat
    BY PendingFinite, AdmissionConstants DEF AdmissionInv, SeatsKept
  <2>2. roster \in 1..MaxGroupMembers
    BY <2>1 DEF Reserved
  <2> QED BY <2>2 DEF AdmissionInv, InviteInv, SeatsKept, AdmissionSafe, AdmissionTypeOK
<1> QED BY <1>1, AdmissionInvHolds, PTL

\* No step but a redemption changes how often an invite was used.
LEMMA NothingConsumed ==
    ASSUME InviteInv,
           \/ \E t \in Tokens, s \in Sessions :
                  Revoke(t, s) \/ \E kind, ttl, uses : Register(t, s, kind, ttl, uses)
           \/ PurgeTerminal \/ Tick \/ UNCHANGED inviteVars,
           NEW x \in Tokens
    PROVE  ~Consumed(x)
<1>1. ASSUME NEW t \in Tokens, NEW s \in Sessions, NEW kind, NEW ttl, NEW uses,
             Register(t, s, kind, ttl, uses)
      PROVE  ~Consumed(x)
  BY <1>1 DEF Register, Consumed
<1>2. ASSUME NEW t \in Tokens, NEW s \in Sessions, Revoke(t, s) PROVE ~Consumed(x)
  <2>1. /\ t \in DOMAIN entries /\ entries[t] \in Entries
        /\ \A u \in DOMAIN entries : u # t => entries'[u] = entries[u]
    BY <1>2 DEF Revoke, InviteInv, InviteTypeOK
  <2>2. entries'[t] = Revoked(entries[t])
    BY <1>2, <2>1 DEF Revoke, Revoked, Entries
  <2>3. entries'[t].uses = entries[t].uses
    BY <2>1, <2>2, RevokedEntry
  <2> QED BY <2>1, <2>3 DEF Consumed
<1>3. CASE PurgeTerminal
  BY <1>3 DEF PurgeTerminal, Consumed
<1>4. CASE Tick \/ UNCHANGED inviteVars
  BY <1>4 DEF Tick, inviteVars, Consumed
<1> QED BY <1>1, <1>2, <1>3, <1>4

\* A redemption consumes one use of one invite and seats its redeemer.
LEMMA RedemptionPairs ==
    ASSUME InviteInv, NEW t \in Tokens, NEW s \in Sessions, GroupRedeem(t, s)
    PROVE  PairStep
<1>1. /\ Redeem(t, s) /\ s \notin pendingJoins /\ pendingJoins' = pendingJoins \cup {s}
  BY DEF GroupRedeem, MayBegin
<1>2. /\ t \in DOMAIN entries /\ DOMAIN entries' = DOMAIN entries
      /\ entries[t] \in Entries /\ now \in Nat
      /\ \A u \in DOMAIN entries : u # t => entries'[u] = entries[u]
  BY <1>1 DEF Redeem, Verdict, InviteInv, InviteTypeOK
<1>3. entries'[t] = [entries[t] EXCEPT !.uses = @ + 1, !.bound = s, !.last = now]
  BY <1>1, <1>2 DEF Redeem, Entries
<1>4. entries'[t].uses = entries[t].uses + 1 /\ entries'[t].bound = s
  BY <1>2, <1>3 DEF Entries
<1>5. entries[t].uses \in Nat
  BY <1>2, EntryFields
<1>6. Consumed(t) /\ \A u \in Tokens : Consumed(u) => u = t
  BY <1>2, <1>4, <1>5 DEF Consumed
<1> QED BY <1>1, <1>4, <1>6 DEF PairStep

\* An invite is consumed exactly when its redeemer is given a seat: neither a
\* full group burns an invite nor a refused invite leaves a seat taken
\* (_handle_group_redeem).
THEOREM RedemptionsArePaired == AdmissionSpec => RedeemedMeansReserved
<1>1. AdmissionInv /\ [AdmissionNext]_admissionVars => [PairStep]_admissionVars
  <2> SUFFICES ASSUME AdmissionInv, AdmissionNext PROVE PairStep
    OBVIOUS
  <2>0. InviteInv
    BY DEF AdmissionInv
  <2>1. ASSUME NEW t \in Tokens, NEW s \in Sessions, GroupRedeem(t, s) PROVE PairStep
    BY <2>0, <2>1, RedemptionPairs
  <2>2. ASSUME pendingJoins' \subseteq pendingJoins, \A x \in Tokens : ~Consumed(x)
        PROVE  PairStep
    BY <2>2 DEF PairStep
  <2>3. ASSUME NEW t \in Tokens, NEW uses \in 1..MaxRedemptions, NEW ttl \in 1..MaxTtl,
               CreateGroupInvite(t, uses, ttl)
        PROVE  PairStep
    BY <2>0, <2>2, <2>3, NothingConsumed, AdmissionConstants DEF CreateGroupInvite
  <2>4. ASSUME NEW t \in Tokens, Revoke(t, OwnerSession), UNCHANGED <<pendingJoins, roster>>
        PROVE  PairStep
    BY <2>0, <2>2, <2>4, NothingConsumed, AdmissionConstants
  <2>5. ASSUME NEW s \in Sessions, Attest(s) \/ DropPendingJoin(s) PROVE PairStep
    BY <2>0, <2>2, <2>5, NothingConsumed DEF Attest, DropPendingJoin
  <2>6. CASE Depart
    BY <2>0, <2>2, <2>6, NothingConsumed DEF Depart
  <2>7. CASE (PurgeTerminal \/ Tick) /\ UNCHANGED <<pendingJoins, roster>>
    BY <2>0, <2>2, <2>7, NothingConsumed
  <2> QED BY <2>1, <2>3, <2>4, <2>5, <2>6, <2>7 DEF AdmissionNext
<1> QED BY <1>1, AdmissionInvHolds, PTL DEF AdmissionSpec, RedeemedMeansReserved

\* Admission implements the registry of invites: an empty registry at the
\* start, and then only steps of its own, so that what is proved of the
\* registry holds of the composed system.
THEOREM AdmissionImplementsInvite == AdmissionSpec => InviteSpec
<1>1. AdmissionInit => InviteInit
  BY DEF AdmissionInit
<1>2. [AdmissionNext]_admissionVars => [InviteNext]_inviteVars
  BY AdmissionIsInvite DEF admissionVars, inviteVars
<1> QED BY <1>1, <1>2, PTL DEF AdmissionSpec, InviteSpec

\* In the composed system too the three judges of an invite agree, and the
\* end of an invite is final.
THEOREM InvitesOfTheGroup == AdmissionSpec => []JudgesAgree /\ InviteEndsForGood
BY AdmissionImplementsInvite, JudgesAlwaysAgree, EndsForGood, PTL

-----------------------------------------------------------------------------
(* The room: its two slots, its invites, and who is told of whom. *)

\* The types of what the relay keeps for the channel.
SlotTypes ==
    /\ link \in [Sessions -> Links]
    /\ members \subseteq Sessions
    /\ task \in [Sessions -> {"idle", "attached", "notify"}]
    /\ told \in [Sessions -> BOOLEAN]

\* The types of what the clients keep.
ClientTypes ==
    /\ request \in [Sessions -> Requests]
    /\ current \in [Users -> Sessions \cup {NoConn}]
    /\ wants \in [Users -> BOOLEAN]

\* The channel: its slots agree with the links, and a peer was told.
SlotInv == SlotTypes /\ IsFiniteSet(members) /\ SlotsConsistent /\ PresenceTold

\* The inductive invariant of the room, with the one of its invites.
RoomInv ==
    InviteInv /\ ClientTypes /\ SlotInv

\* What the clients do on their own: the relay's tables are left alone.
ClientStep(u) ==
    \/ \E c \in Sessions : Dial(u, c)
    \/ SendAttach(u) \/ ReceiveReply(u) \/ LinkLost(u) \/ ClientDisconnects(u)

\* In a channel of two slots, nobody is left besides two members.
LEMMA TwoSlots ==
    ASSUME NEW S, IsFiniteSet(S), Cardinality(S) <= ChannelCapacity,
           NEW c \in S, NEW d \in S, c # d
    PROVE  S \ {c} = {d}
<1>1. /\ IsFiniteSet(S \ {c}) /\ Cardinality(S \ {c}) = Cardinality(S) - 1
      /\ Cardinality(S) \in Nat
  BY FS_RemoveElement, FS_CardinalityType
<1>2. /\ IsFiniteSet((S \ {c}) \ {d})
      /\ Cardinality((S \ {c}) \ {d}) = Cardinality(S \ {c}) - 1
      /\ Cardinality((S \ {c}) \ {d}) \in Nat
  BY <1>1, FS_RemoveElement, FS_CardinalityType, Zenon
<1>3. Cardinality((S \ {c}) \ {d}) = 0
  BY <1>1, <1>2, RoomConstants
<1>4. (S \ {c}) \ {d} = {}
  BY <1>2, <1>3, FS_EmptySet
<1> QED BY <1>4

\* The channel has room for a member that was in it, or for one more while it
\* is not full.
LEMMA SlotTaken ==
    ASSUME IsFiniteSet(members), Cardinality(members) <= ChannelCapacity,
           NEW c, c \in members \/ ~Full
    PROVE  /\ IsFiniteSet(members \cup {c})
           /\ Cardinality(members \cup {c}) <= ChannelCapacity
<1>1. CASE c \in members
  <2>1. members \cup {c} = members BY <1>1
  <2> QED BY <2>1
<1>2. CASE c \notin members
  <2>1. Cardinality(members) \in Nat /\ Cardinality(members) < 2
    BY <1>2, FS_CardinalityType, RoomConstants DEF Full
  <2>2. /\ IsFiniteSet(members \cup {c})
        /\ Cardinality(members \cup {c}) = Cardinality(members) + 1
    BY <1>2, FS_AddElement
  <2> QED BY <2>1, <2>2, RoomConstants
<1> QED BY <1>1, <1>2

\* A slot given up.
LEMMA SlotFreed ==
    ASSUME IsFiniteSet(members), Cardinality(members) <= ChannelCapacity, NEW c
    PROVE  /\ IsFiniteSet(members \ {c})
           /\ Cardinality(members \ {c}) <= ChannelCapacity
<1>1. CASE c \in members
  <2>1. /\ IsFiniteSet(members \ {c}) /\ Cardinality(members) \in Nat
        /\ Cardinality(members \ {c}) = Cardinality(members) - 1
    BY <1>1, FS_RemoveElement, FS_CardinalityType
  <2> QED BY <2>1, RoomConstants
<1>2. CASE c \notin members
  <2>1. members \ {c} = members BY <1>2
  <2> QED BY <2>1
<1> QED BY <1>1, <1>2

\* The registry of invites makes a step of its own, or the relay restarts.
LEMMA RoomInvites ==
    ASSUME InviteInv, RoomNext
    PROVE  InviteInv'
<1>1. ASSUME NEW u \in Users, ClientStep(u) PROVE UNCHANGED inviteVars
  BY <1>1 DEF ClientStep, Dial, SendAttach, ReceiveReply, LinkLost, ClientDisconnects
<1>2. ASSUME NEW c \in Sessions,
             \/ RefuseAttach(c) \/ HandleAttach(c) \/ SendAttached(c)
             \/ NotifyPeerJoined(c) \/ HandleDetach(c) \/ DetachClient(c)
             \/ ForwardFails(c) \/ SweepSession(c)
      PROVE  UNCHANGED inviteVars
  BY <1>2, Zenon DEF RefuseAttach, HandleAttach, SendAttached, NotifyPeerJoined, HandleDetach,
              DetachClient, ForwardFails, SweepSession
<1>3. ASSUME NEW c \in Sessions, NEW t \in Tokens,
             HandleRedeem(c, t) \/ RedeemRoomFull(c, t) \/ RevokeInvite(c, t)
      PROVE  InviteNext
  BY <1>3 DEF HandleRedeem, RedeemRoomFull, RevokeInvite, InviteNext
<1>4. ASSUME NEW c \in Sessions, NEW t \in Tokens, NEW uses \in 1..MaxRedemptions,
             CreateInvite(c, t, uses)
      PROVE  InviteNext
  <2>1. MaxTtl \in 1..MaxTtl
    BY InviteConstants
  <2>2. Register(t, c, "chat", MaxTtl, uses)
    BY <1>4 DEF CreateInvite
  <2> QED BY <2>1, <2>2 DEF InviteNext
<1>5. CASE RelayRestart
  BY <1>5 DEF RelayRestart, InviteInv, InviteTypeOK, DeadlinesNear
<1> QED
  BY <1>1, <1>2, <1>3, <1>4, <1>5, InviteInvStep DEF RoomNext, ClientStep

\* Clients keep their own tables typed.
LEMMA RoomClients ==
    ASSUME ClientTypes, RoomNext
    PROVE  ClientTypes'
<1> USE DEF ClientTypes, Requests
<1>1. ASSUME NEW u \in Users, ClientStep(u) PROVE ClientTypes'
  <2>1. ASSUME NEW c \in Sessions, Dial(u, c) PROVE ClientTypes'
    BY <2>1 DEF Dial
  <2>2. CASE SendAttach(u) \/ LinkLost(u)
    BY <2>2 DEF SendAttach, LinkLost
  <2>3. CASE ReceiveReply(u)
    BY <2>3, Zenon DEF ReceiveReply
  <2>4. CASE ClientDisconnects(u)
    BY <2>4 DEF ClientDisconnects
  <2> QED BY <1>1, <2>1, <2>2, <2>3, <2>4 DEF ClientStep
<1>2. ASSUME NEW c \in Sessions,
             \/ RefuseAttach(c) \/ HandleAttach(c) \/ SendAttached(c)
             \/ NotifyPeerJoined(c) \/ HandleDetach(c) \/ DetachClient(c)
             \/ ForwardFails(c) \/ SweepSession(c)
      PROVE  ClientTypes'
  BY <1>2, Zenon DEF RefuseAttach, HandleAttach, SendAttached, NotifyPeerJoined, HandleDetach,
              DetachClient, ForwardFails, SweepSession
<1>3. ASSUME NEW c \in Sessions, NEW t \in Tokens,
             HandleRedeem(c, t) \/ RedeemRoomFull(c, t) \/ RevokeInvite(c, t)
      PROVE  ClientTypes'
  BY <1>3 DEF HandleRedeem, RedeemRoomFull, RevokeInvite, roomVars
<1>4. ASSUME NEW c \in Sessions, NEW t \in Tokens, NEW uses \in 1..MaxRedemptions,
             CreateInvite(c, t, uses)
      PROVE  ClientTypes'
  BY <1>4 DEF CreateInvite, roomVars
<1>5. CASE RelayRestart
  BY <1>5 DEF RelayRestart
<1> QED
  BY <1>1, <1>2, <1>3, <1>4, <1>5 DEF RoomNext, ClientStep

\* A connection that has no slot may come and go; one that has a slot keeps it
\* while the relay holds it.
LEMMA LinkMoves ==
    ASSUME SlotInv, NEW c \in Sessions, NEW how \in Links,
           link' = [link EXCEPT ![c] = how], how \in {"up", "closed", "silent", "swept"},
           UNCHANGED <<members, task, told>>
    PROVE  SlotInv'
<1>1. SlotTypes' /\ IsFiniteSet(members)'
  BY DEF SlotInv, SlotTypes
<1>2. Held \subseteq Held'
  BY DEF SlotInv, SlotTypes, Held
<1>3. SlotsConsistent'
  BY <1>2 DEF SlotInv, SlotsConsistent
<1>4. PresenceTold'
  BY DEF SlotInv, PresenceTold, Others
<1> QED BY <1>1, <1>3, <1>4 DEF SlotInv

\* _leave_channel: the slot is free, and whoever is left is told.
LEMMA LeaveKeeps ==
    ASSUME SlotInv, NEW c \in Sessions, LeaveChannel(c),
           link' \in [Sessions -> Links], \A d \in Sessions \ {c} : link'[d] = link[d],
           task' = [task EXCEPT ![c] = "idle"]
    PROVE  SlotInv'
<1>1. members' = members \ {c} /\ told' \in [Sessions -> BOOLEAN]
  BY Zenon DEF LeaveChannel, Tell, SlotInv, SlotTypes
<1>2. SlotTypes'
  BY <1>1, Zenon DEF SlotInv, SlotTypes
<1>3. IsFiniteSet(members') /\ Cardinality(members') <= ChannelCapacity
  BY <1>1, SlotFreed, Zenon DEF SlotInv, SlotsConsistent
<1>4. members' \subseteq Held'
  BY <1>1 DEF SlotInv, SlotTypes, SlotsConsistent, Held
<1>5. ASSUME NEW d \in Sessions, task'[d] # "idle" PROVE d \in members'
  BY <1>1, <1>5 DEF SlotInv, SlotTypes, SlotsConsistent
<1>6. PresenceTold'
  <2> SUFFICES ASSUME NEW d \in members'
               PROVE  (\/ told[d] = (Others(d) # {})
                       \/ task[d] = "attached"
                       \/ ~told[d] /\ \E e \in Others(d) : task[e] \in {"attached", "notify"})'
    BY DEF PresenceTold
  <2>1. d \in members /\ d # c /\ d \in Sessions
    BY <1>1 DEF SlotInv, SlotTypes
  <2>2. CASE c \in members
    <3>1. members \ {c} = {d}
      BY <2>1, <2>2, TwoSlots DEF SlotInv, SlotsConsistent
    <3>2. told'[d] = FALSE /\ Others(d)' = {}
      BY <1>1, <2>1, <2>2, <3>1 DEF LeaveChannel, Tell, Others
    <3> QED BY <3>2, Zenon
  <2>3. CASE c \notin members
    <3>1. members' = members /\ told' = told
      BY <1>1, <2>3 DEF LeaveChannel
    <3>2. \A e \in members : task'[e] = task[e]
      BY <2>3 DEF SlotInv, SlotTypes
    <3> QED BY <2>1, <3>1, <3>2 DEF SlotInv, PresenceTold, Others
  <2> QED BY <2>2, <2>3
<1> QED BY <1>2, <1>3, <1>4, <1>5, <1>6 DEF SlotInv, SlotsConsistent

\* _attach_membership: the connection takes a slot, and its handler owes the
\* words it has not written.
LEMMA AttachKeeps ==
    ASSUME SlotInv, NEW c \in Sessions, c \in Held, c \in members \/ ~Full,
           members' = members \cup {c}, link' = link,
           \/ /\ task' = [task EXCEPT ![c] = "notify"]
              /\ told' = [told EXCEPT ![c] = Others(c) # {}]
           \/ /\ task' = [task EXCEPT ![c] = "attached"]
              /\ told' = told
    PROVE  SlotInv'
<1>1. SlotTypes'
  BY Zenon DEF SlotInv, SlotTypes
<1>2. IsFiniteSet(members') /\ Cardinality(members') <= ChannelCapacity
  BY SlotTaken DEF SlotInv, SlotsConsistent
<1>3. members' \subseteq Held'
  BY DEF SlotInv, SlotsConsistent, Held
<1>4. ASSUME NEW d \in Sessions, task'[d] # "idle" PROVE d \in members'
  BY <1>4 DEF SlotInv, SlotTypes, SlotsConsistent
<1>5. PresenceTold'
  <2> SUFFICES ASSUME NEW d \in members'
               PROVE  (\/ told[d] = (Others(d) # {})
                       \/ task[d] = "attached"
                       \/ ~told[d] /\ \E e \in Others(d) : task[e] \in {"attached", "notify"})'
    BY DEF PresenceTold
  <2>0. d \in Sessions
    BY DEF SlotInv, SlotTypes
  <2>1. CASE d = c
    <3>1. Others(c)' = Others(c)
      BY DEF Others
    <3> QED BY <2>1, <3>1 DEF SlotInv, SlotTypes
  <2>2. CASE d # c
    <3>1. /\ d \in members /\ told'[d] = told[d] /\ task'[d] = task[d]
          /\ c \in Others(d)' /\ Others(d) \subseteq Others(d)'
          /\ task'[c] \in {"attached", "notify"}
      BY <2>0, <2>2 DEF SlotInv, SlotTypes, Others
    <3>2. CASE told[d]
      BY <3>1, <3>2, Zenon
    <3>3. CASE ~told[d]
      BY <3>1, <3>3
    <3> QED BY <3>2, <3>3
  <2> QED BY <2>1, <2>2
<1> QED BY <1>1, <1>2, <1>3, <1>4, <1>5 DEF SlotInv, SlotsConsistent

\* The suspended handler goes on and writes what it owes.
LEMMA WriteKeeps ==
    ASSUME SlotInv, NEW c \in Sessions, SendAttached(c) \/ NotifyPeerJoined(c)
    PROVE  SlotInv'
<1>0. c \in members /\ members' = members /\ link' = link
  BY Zenon DEF SendAttached, NotifyPeerJoined, SlotInv, SlotsConsistent
<1>1. SlotTypes' /\ IsFiniteSet(members')
  BY Zenon DEF SendAttached, NotifyPeerJoined, SlotInv, SlotTypes, Tell
<1>2. SlotsConsistent'
  BY <1>0, Zenon DEF SendAttached, NotifyPeerJoined, SlotInv, SlotTypes, SlotsConsistent, Held
<1>3. PresenceTold'
  <2> SUFFICES ASSUME NEW d \in members
               PROVE  (\/ told[d] = (Others(d) # {})
                       \/ task[d] = "attached"
                       \/ ~told[d] /\ \E e \in Others(d) : task[e] \in {"attached", "notify"})'
    BY <1>0 DEF PresenceTold
  <2>0. d \in Sessions /\ Others(d)' = Others(d) /\ members \subseteq Sessions
    BY <1>0 DEF SlotInv, SlotTypes, Others
  <2>1. CASE SendAttached(c)
    <3>1. CASE d = c
      BY <2>0, <2>1, <3>1 DEF SendAttached, SlotInv, SlotTypes
    <3>2. CASE d # c
      BY <1>0, <2>0, <2>1, <3>2 DEF SendAttached, SlotInv, SlotTypes, PresenceTold
    <3> QED BY <3>1, <3>2
  <2>2. CASE NotifyPeerJoined(c)
    <3>1. CASE d = c
      <4>1. told'[c] = told[c] /\ task[c] = "notify" /\ \A e \in Others(c) : task'[e] = task[e]
        BY <2>0, <2>2 DEF NotifyPeerJoined, Tell, Others, SlotInv, SlotTypes
      <4> QED BY <1>0, <2>0, <3>1, <4>1, ZenonT(30) DEF SlotInv, PresenceTold
    <3>2. CASE d # c
      <4>1. told'[d] = TRUE /\ c \in Others(d)
        BY <1>0, <2>0, <2>2, <3>2 DEF NotifyPeerJoined, Tell, Others
      <4> QED BY <2>0, <4>1, ZenonT(30)
    <3> QED BY <3>1, <3>2
  <2> QED BY <2>1, <2>2
<1> QED BY <1>1, <1>2, <1>3 DEF SlotInv

\* The slots and the words about them survive every handler and every client.
LEMMA RoomSlots ==
    ASSUME ClientTypes, SlotInv, RoomNext
    PROVE  SlotInv'
<1>1. ASSUME UNCHANGED <<link, members, task, told>> PROVE SlotInv'
  BY <1>1 DEF SlotInv, SlotTypes, SlotsConsistent, PresenceTold, Others, Held
<1>2. ASSUME NEW u \in Users, ClientStep(u) PROVE SlotInv'
  <2>1. ASSUME NEW c \in Sessions, Dial(u, c) PROVE SlotInv'
    BY <2>1, LinkMoves, Zenon DEF Dial, Links
  <2>2. CASE SendAttach(u) \/ ReceiveReply(u)
    BY <1>1, <2>2 DEF SendAttach, ReceiveReply
  <2>3. CASE LinkLost(u) \/ ClientDisconnects(u)
    <3>1. current[u] \in Sessions
      BY <2>3 DEF LinkLost, ClientDisconnects, Up, ClientTypes
    <3> QED BY <2>3, <3>1, LinkMoves DEF LinkLost, ClientDisconnects, Links
  <2> QED BY <1>2, <2>1, <2>2, <2>3, Zenon DEF ClientStep
<1>3. ASSUME NEW c \in Sessions, RefuseAttach(c) PROVE SlotInv'
  BY <1>1, <1>3 DEF RefuseAttach
<1>4. ASSUME NEW c \in Sessions, HandleAttach(c) PROVE SlotInv'
  BY <1>4, AttachKeeps, ZenonT(30) DEF HandleAttach, Serving
<1>5. ASSUME NEW c \in Sessions, SendAttached(c) \/ NotifyPeerJoined(c) PROVE SlotInv'
  BY <1>5, WriteKeeps
<1>6. ASSUME NEW c \in Sessions, HandleDetach(c) PROVE SlotInv'
  <2>1. task' = [task EXCEPT ![c] = "idle"]
    BY <1>6 DEF HandleDetach, Serving, SlotInv, SlotTypes
  <2> QED BY <1>6, <2>1, LeaveKeeps, Zenon DEF HandleDetach, SlotInv, SlotTypes
<1>7. ASSUME NEW c \in Sessions, DetachClient(c) PROVE SlotInv'
  <2>1. link' \in [Sessions -> Links] /\ \A d \in Sessions \ {c} : link'[d] = link[d]
    BY <1>7 DEF DetachClient, SlotInv, SlotTypes, Links
  <2> QED BY <1>7, <2>1, LeaveKeeps, Zenon DEF DetachClient
<1>8. ASSUME NEW c \in Sessions, ForwardFails(c) PROVE SlotInv'
  <2>1. link' \in [Sessions -> Links] /\ \A d \in Sessions \ {c} : link'[d] = link[d]
    BY <1>8 DEF ForwardFails, SlotInv, SlotTypes, Links
  <2>2. task' = [task EXCEPT ![c] = "idle"]
    BY <1>8 DEF ForwardFails, Serving, SlotInv, SlotTypes
  <2> QED BY <1>8, <2>1, <2>2, LeaveKeeps, ZenonT(30) DEF ForwardFails
<1>9. ASSUME NEW c \in Sessions, SweepSession(c) PROVE SlotInv'
  BY <1>9, LinkMoves, Zenon DEF SweepSession, Links
<1>10. ASSUME NEW c \in Sessions, NEW t \in Tokens, HandleRedeem(c, t) PROVE SlotInv'
  BY <1>10, AttachKeeps, Zenon DEF HandleRedeem, Serving
<1>11. ASSUME NEW c \in Sessions, NEW t \in Tokens,
              RedeemRoomFull(c, t) \/ RevokeInvite(c, t)
       PROVE  SlotInv'
  BY <1>1, <1>11 DEF RedeemRoomFull, RevokeInvite, roomVars
<1>12. ASSUME NEW c \in Sessions, NEW t \in Tokens, NEW uses \in 1..MaxRedemptions,
              CreateInvite(c, t, uses)
       PROVE  SlotInv'
  BY <1>1, <1>12 DEF CreateInvite, roomVars
<1>13. CASE RelayRestart
  <2>1. SlotTypes' /\ members' = {} /\ \A c \in Sessions : task'[c] = "idle"
    BY <1>13 DEF RelayRestart, SlotInv, SlotTypes, Links
  <2> QED BY <2>1, FS_EmptySet, RoomConstants DEF SlotInv, SlotsConsistent, PresenceTold
<1> QED
  BY <1>2, <1>3, <1>4, <1>5, <1>6, <1>7, <1>8, <1>9, <1>10, <1>11, <1>12, <1>13
     DEF RoomNext, ClientStep

\* An empty room.
LEMMA RoomInvInit == RoomInit => RoomInv
<1> SUFFICES ASSUME RoomInit PROVE RoomInv
  OBVIOUS
<1>1. InviteInv
  BY InviteInvInit DEF RoomInit
<1>2. ClientTypes /\ SlotTypes
  BY DEF RoomInit, ClientTypes, SlotTypes, Links, Requests
<1>3. IsFiniteSet(members) /\ Cardinality(members) = 0 /\ members = {}
  BY FS_EmptySet DEF RoomInit
<1>4. SlotsConsistent /\ PresenceTold
  BY <1>3, RoomConstants DEF RoomInit, SlotsConsistent, PresenceTold
<1> QED BY <1>1, <1>2, <1>3, <1>4 DEF RoomInv, SlotInv

\* Every step of the room keeps the invariant.
LEMMA RoomInvStep == RoomInv /\ [RoomNext]_vars => RoomInv'
<1> SUFFICES ASSUME RoomInv, [RoomNext]_vars PROVE RoomInv'
  OBVIOUS
<1>1. CASE RoomNext
  BY <1>1, RoomInvites, RoomClients, RoomSlots DEF RoomInv
<1>2. CASE UNCHANGED vars
  BY <1>2 DEF vars, RoomInv, InviteInv, InviteTypeOK, DeadlinesNear, ClientTypes, SlotInv,
              SlotTypes, SlotsConsistent, PresenceTold, Others, Held
<1> QED BY <1>1, <1>2

\* Two slots at most, held by live sessions, and no member left with a stale
\* word about the other (_attach_membership, _leave_channel,
\* _notify_peer_joined), for any sessions, users and tokens.
THEOREM RoomStaysSafe == RoomSpec => []RoomSafe
<1>1. RoomInv => RoomSafe
  BY DEF RoomInv, InviteInv, SlotInv, SlotTypes, ClientTypes, RoomSafe, RoomTypeOK
<1> QED BY <1>1, RoomInvInit, RoomInvStep, PTL DEF RoomSpec

\* A redemption counts once, and binds the invite to the session that made it.
LEMMA RedeemBinds ==
    ASSUME InviteInv, NEW t \in Tokens, NEW c \in Sessions, Redeem(t, c)
    PROVE  /\ entries'[t].bound = c
           /\ \A u \in DOMAIN entries : u # t => entries'[u] = entries[u]
<1>1. t \in DOMAIN entries /\ entries[t] \in Entries
  BY DEF Redeem, Verdict, InviteInv, InviteTypeOK
<1> QED BY <1>1, Zenon DEF Redeem, InviteInv, InviteTypeOK, Entries

\* A use of an invite is counted only in a step that gives its redeemer a
\* slot, or finds the channel full (the redeem handler of hub.py).
THEOREM RedemptionsTakeSlots == RoomSpec => RedemptionTakesSlot
<1>1. RoomInv /\ [RoomNext]_vars => [RedemptionStep]_vars
  <2> SUFFICES ASSUME RoomInv, RoomNext, NEW t \in DOMAIN entries,
                      t \in DOMAIN entries', entries'[t].uses # entries[t].uses
               PROVE  entries'[t].bound \in members' \/ (members' = members /\ Full)
    BY DEF RedemptionStep
  <2>0. InviteInv /\ t \in Tokens
    BY DEF RoomInv, InviteInv, InviteTypeOK
  <2>1. ASSUME NEW u \in Users, ClientStep(u) PROVE FALSE
    BY <2>1, Zenon DEF ClientStep, Dial, SendAttach, ReceiveReply, LinkLost, ClientDisconnects, inviteVars
  <2>2. ASSUME NEW c \in Sessions,
               \/ RefuseAttach(c) \/ HandleAttach(c) \/ SendAttached(c)
               \/ NotifyPeerJoined(c) \/ HandleDetach(c) \/ DetachClient(c)
               \/ ForwardFails(c) \/ SweepSession(c)
        PROVE  FALSE
    BY <2>2, ZenonT(30) DEF RefuseAttach, HandleAttach, SendAttached, NotifyPeerJoined, HandleDetach,
                DetachClient, ForwardFails, SweepSession, inviteVars
  <2>3. ASSUME NEW c \in Sessions, NEW s \in Tokens, HandleRedeem(c, s)
        PROVE  entries'[t].bound \in members'
    BY <2>0, <2>3, RedeemBinds, Zenon DEF HandleRedeem
  <2>4. ASSUME NEW c \in Sessions, NEW s \in Tokens, RedeemRoomFull(c, s)
        PROVE  members' = members /\ Full
    BY <2>4 DEF RedeemRoomFull
  <2>5. ASSUME NEW c \in Sessions, NEW s \in Tokens, RevokeInvite(c, s) PROVE FALSE
    <3>1. \A u \in DOMAIN entries : entries[u] \in Entries
      BY <2>0 DEF InviteInv, InviteTypeOK
    <3>2. entries' = [entries EXCEPT ![s].revoked = TRUE] /\ s \in DOMAIN entries
      BY <2>5, ZenonT(30) DEF RevokeInvite, Revoke
    <3> QED BY <3>1, <3>2 DEF Entries
  <2>6. ASSUME NEW c \in Sessions, NEW s \in Tokens, NEW uses \in 1..MaxRedemptions,
               CreateInvite(c, s, uses)
        PROVE  FALSE
    BY <2>6 DEF CreateInvite, Register
  <2>7. CASE RelayRestart
    BY <2>7 DEF RelayRestart
  <2> QED BY <2>1, <2>2, <2>3, <2>4, <2>5, <2>6, <2>7, ZenonT(30) DEF RoomNext, ClientStep
<1> QED BY <1>1, RoomInvInit, RoomInvStep, PTL DEF RoomSpec, RedemptionTakesSlot

-----------------------------------------------------------------------------

=============================================================================
