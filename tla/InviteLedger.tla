---------------------------- MODULE InviteLedger ----------------------------
(***************************************************************************)
(* The two machines' own records of an invite beside the relay's registry: *)
(* SecureInviteManager and LocalInviteRegistry (ghostlink/invites), driven *)
(* by `ghostlink invite`, `ghostlink join` and the chat that follows.      *)
(*                                                                         *)
(* The relay is the module InviteAuthority.  The inviter's process lives   *)
(* through mint, registration and then a chat or a countdown; it alone     *)
(* holds the token.  Between a request to the relay and its answer other   *)
(* tasks and other commands run.  A command of another process is one      *)
(* step: it awaits nothing (overlapping writers of one document are the    *)
(* subject of LocalState).  Both ends read one clock.                      *)
(***************************************************************************)
EXTENDS InviteAuthority

CONSTANTS
    KeepFor,       \* [invites] retention_hours
    MaxGuests      \* bound on the runs of `ghostlink join`

ASSUME LedgerConstants ==
    /\ {"host", "guest"} \subseteq Sessions
    /\ KeepFor \in Nat /\ MaxGuests \in Nat

VARIABLES
    ledger,     \* secure_invites.json of each machine: a function on tokens
    minted,     \* generate_invite_token never repeats one
    creator,    \* the process of `ghostlink invite create`
    guest,      \* the process of `ghostlink join`
    guests,     \* how many joins were started
    withdrawn,  \* the invites whose revocation the relay confirmed
    claimed,    \* the invites reported revoked without asking the relay
    came        \* the invites a chat of the guest came from, once it is secure

ledgerVars == <<ledger, minted, creator, guest, guests, withdrawn, claimed, came>>
ilvars == <<inviteVars, ledgerVars>>

Machines == {"host", "guest"}
TERMINAL_STATES == {"redeemed", "expired", "revoked"}

\* InviteState and TRANSITIONS
TRANSITIONS == [created |-> {"active", "expired", "revoked"},
                active |-> {"redeeming", "expired", "revoked"},
                redeeming |-> {"redeemed", "active", "expired", "revoked"},
                redeemed |-> {}, expired |-> {"revoked"}, revoked |-> {}]

CanTransition(from, to) == to \in TRANSITIONS[from]

\* InviteRecord(...), its checks included.
InviteRecord(state, expires, max, used) ==
    [state |-> state, expires |-> expires, max |-> max, used |-> used,
     bound |-> "none"]

Valid(r, created) == r.expires > created /\ r.max >= 1 /\ r.used \in 0..r.max

IsDue(r) == now >= r.expires

\* LocalInviteRegistry.save
Saved(l, t, r) == [u \in DOMAIN l \cup {t} |-> IF u = t THEN r ELSE l[u]]

\* _fold_expiry
Folded(r) ==
    IF r.state = "active" /\ IsDue(r) THEN [r EXCEPT !.state = "expired"] ELSE r

\* SecureInviteManager.get: what is read has been folded, on disk as well.
Got(l, t) == IF t \in DOMAIN l THEN Saved(l, t, Folded(l[t])) ELSE l

\* refresh_expired, and list
RefreshExpired(l) == [t \in DOMAIN l |-> Folded(l[t])]

\* MUTANT: a cutoff in the future, and the state not asked.
LedgerPurgeAny(l) ==
    [t \in {u \in DOMAIN l : l[u].expires >= now + KeepFor} |-> l[t]]

\* LocalInviteRegistry.purge_terminal: expires_at < now - retention
LedgerPurge(l) ==
    [t \in {u \in DOMAIN l : ~ /\ l[u].state \in TERMINAL_STATES
                               /\ l[u].expires + KeepFor < now} |-> l[t]]

\* SecureInviteManager.apply_retention
ApplyRetention(l) == LedgerPurge(RefreshExpired(l))

\* revoke_local: the ledger it leaves; a redeemed invite is refused.
RevokeLocal(l, t) ==
    LET g == Got(l, t)
    IN  IF t \in DOMAIN g /\ CanTransition(g[t].state, "revoked")
        THEN Saved(g, t, [g[t] EXCEPT !.state = "revoked"])
        ELSE g

\* revoke_local returns (rather than raises) for this record.
RevokesLocally(l, t) == t \in DOMAIN l /\ Folded(l[t]).state # "redeemed"

-----------------------------------------------------------------------------

Nobody == [pc |-> "idle", token |-> "none", rec |-> InviteRecord("created", 0, 1, 0),
           holds |-> {}, chat |-> FALSE, ttl |-> 0, grant |-> 0]

LedgerInit ==
    /\ InviteInit
    /\ ledger = [m \in Machines |-> [t \in {} |-> Nobody.rec]]
    /\ minted = {}
    /\ creator = Nobody
    /\ guest = [pc |-> "idle", token |-> "none", redeemed |-> FALSE, grant |-> 0]
    /\ guests = 0
    /\ withdrawn = {} /\ claimed = {} /\ came = {}

OnDisk(m, l) == ledger' = [ledger EXCEPT ![m] = l]

\* _resolve_expiry, _resolve_uses
ResolveExpiry(ttl) == ttl >= 1 /\ ttl <= MaxTtl
ResolveUses(uses) == uses >= 1 /\ uses <= MaxRedemptions

\* run_invite -> _run_create up to the request: mint and send INVITE_CREATE.
\* With --no-chat the process counts down instead of chatting.
Mint(t, ttl, uses, chat) ==
    /\ creator.pc = "idle" /\ t \notin minted
    /\ ResolveExpiry(ttl) /\ ResolveUses(uses)
    /\ LET r == InviteRecord("created", now + ttl, uses, 0)
       IN  /\ Valid(r, now)
           /\ creator' = [pc |-> "minted", token |-> t, rec |-> r,
                          holds |-> {t}, chat |-> chat, ttl |-> ttl, grant |-> 0]
    /\ minted' = minted \cup {t}
    /\ UNCHANGED <<inviteVars, ledger, guest, guests, withdrawn, claimed, came>>

\* The relay handles INVITE_CREATE; the lifetime it is sent is expires_at -
\* created_at, counted from the relay's own reading of the clock.
RelayRegisters ==
    /\ creator.pc = "minted"
    /\ Register(creator.token, "host", "chat", creator.ttl, creator.rec.max)
    /\ creator' = [creator EXCEPT !.pc = "registered", !.grant = now + creator.ttl]
    /\ UNCHANGED <<minted, ledger, guest, guests, withdrawn, claimed, came>>

\* MUTANT: the record keeps the deadline it was minted with.
RegisterWithRelayOwnClock ==
    /\ creator.pc = "registered"
    /\ LET r == [creator.rec EXCEPT !.state = "active"]
       IN  /\ OnDisk("host", Saved(ledger["host"], creator.token, r))
           /\ creator' = [creator EXCEPT !.rec = r,
                             !.pc = IF creator.chat THEN "chat" ELSE "countdown"]
    /\ UNCHANGED <<inviteVars, minted, guest, guests, withdrawn, claimed, came>>

\* register_with_relay, once the grant is there: ACTIVE, the relay's deadline.
RegisterWithRelay ==
    /\ creator.pc = "registered"
    /\ CanTransition(creator.rec.state, "active")
    /\ LET r == [creator.rec EXCEPT !.state = "active",
                                    !.expires = creator.grant]
       IN  /\ OnDisk("host", Saved(ledger["host"], creator.token, r))
           /\ creator' = [creator EXCEPT !.rec = r,
                             !.pc = IF creator.chat THEN "chat" ELSE "countdown"]
    /\ UNCHANGED <<inviteVars, minted, guest, guests, withdrawn, claimed, came>>

\* The process ends: the chat is left, the request failed, or it was killed.
\* The tokens it held are gone.
CreatorEnds ==
    /\ creator.pc # "idle"
    /\ creator' = Nobody
    /\ UNCHANGED <<inviteVars, minted, ledger, guest, guests, withdrawn, claimed, came>>

\* MUTANT: redeemed whatever the record says.
NoteLocalRedeemedAnyway(m, t, c) ==
    LET g == Got(ledger[m], t)
    IN  OnDisk(m, IF t \notin DOMAIN g THEN g
                  ELSE Saved(g, t, [g[t] EXCEPT !.state = "redeemed",
                                                !.used = g[t].max, !.bound = c]))

\* note_local_redeemed: an illegal move raises, and the caller suppresses it.
NoteLocalRedeemed(m, t, c) ==
    LET g == Got(ledger[m], t)
    IN  OnDisk(m, IF t \in DOMAIN g /\ g[t].state \in {"active", "redeeming"}
                  THEN Saved(g, t, [g[t] EXCEPT !.state = "redeemed",
                                                !.used = g[t].max, !.bound = c])
                  ELSE g)

\* _bind_when_ready on the inviter's side: the chat of the room is secure.
HostReady ==
    /\ creator.pc \in {"chat", "revoking"} /\ creator.chat
    /\ guest.pc \in {"chat", "secure"}
    /\ NoteLocalRedeemed("host", creator.token, "conversation")
    /\ UNCHANGED <<inviteVars, minted, creator, guest, guests, withdrawn, claimed, came>>

\* ... and on the guest's, whose record is in the ledger already.
GuestReady ==
    /\ guest.pc = "chat" /\ creator.pc \in {"chat", "revoking"} /\ creator.chat
    /\ IF guest.redeemed
       THEN /\ NoteLocalRedeemed("guest", guest.token, "conversation")
            /\ came' = came \cup {guest.token}
       ELSE UNCHANGED <<ledger, came>>
    /\ guest' = [guest EXCEPT !.pc = "secure"]
    /\ UNCHANGED <<inviteVars, minted, creator, guests, withdrawn, claimed>>

\* /invite revoke (_revoke_invite_interactive) and Ctrl+C during the countdown:
\* the record is read, then the relay is asked and awaited.
RevokeViaRelay(t) ==
    /\ creator.pc \in {"chat", "countdown"} /\ t \in creator.holds
    /\ LET l == RefreshExpired(ledger["host"])
       IN  /\ t \in DOMAIN l
           /\ OnDisk("host", l)
           /\ creator' = [creator EXCEPT !.pc = "revoking", !.rec = l[t]]
    /\ UNCHANGED <<inviteVars, minted, guest, guests, withdrawn, claimed, came>>

\* MUTANT: take the relay's answer for granted.
RelayRevokesNot ==
    /\ creator.pc = "revoking"
    /\ creator' = [creator EXCEPT !.pc = "revoked"]
    /\ UNCHANGED <<inviteVars, minted, ledger, guest, guests, withdrawn, claimed, came>>

\* The relay handles INVITE_REVOKE.
RelayRevokes ==
    /\ creator.pc = "revoking"
    /\ Revoke(creator.token, "host")
    /\ creator' = [creator EXCEPT !.pc = "revoked"]
    /\ UNCHANGED <<minted, ledger, guest, guests, withdrawn, claimed, came>>

\* The rest of revoke_via_relay, with the record read before the await.
RevokeConfirmed ==
    /\ creator.pc = "revoked"
    /\ LET r == IF CanTransition(creator.rec.state, "revoked")
                THEN [creator.rec EXCEPT !.state = "revoked"] ELSE creator.rec
       IN  OnDisk("host", Saved(ledger["host"], creator.token, r))
    /\ withdrawn' = withdrawn \cup {creator.token}
    /\ creator' = IF creator.chat
                  THEN [creator EXCEPT !.pc = "chat", !.holds = @ \ {creator.token}]
                  ELSE Nobody
    /\ UNCHANGED <<inviteVars, minted, guest, guests, claimed, came>>

\* The relay refuses (another session made the invite) or cannot be reached:
\* reported, or suppressed on the way out of the countdown.
RevokeFails ==
    /\ creator.pc = "revoking"
    /\ creator' = IF creator.chat THEN [creator EXCEPT !.pc = "chat"] ELSE Nobody
    /\ UNCHANGED <<inviteVars, minted, ledger, guest, guests, withdrawn, claimed, came>>

\* _run_countdown reaches the deadline: disconnect, then revoke_local.
CountdownEnds ==
    /\ creator.pc = "countdown" /\ IsDue(creator.rec)
    /\ OnDisk("host", RevokeLocal(ledger["host"], creator.token))
    /\ creator' = Nobody
    /\ UNCHANGED <<inviteVars, minted, guest, guests, withdrawn, claimed, came>>

-----------------------------------------------------------------------------
(***************************************************************************)
(* Other commands of the inviter's machine.                                *)
(***************************************************************************)

\* _run_list, and `invite info`
RunList ==
    /\ OnDisk("host", ApplyRetention(ledger["host"]))
    /\ ledger' # ledger
    /\ UNCHANGED <<inviteVars, minted, creator, guest, guests, withdrawn, claimed, came>>

\* _run_inspect(revoke=True).  Its manager is new, so token_for is always None
\* and the record is revoked here only, and so reported.
RunRevoke(t) ==
    LET l == ApplyRetention(ledger["host"])
    IN  /\ t \in DOMAIN l /\ l[t].state \notin {"redeemed", "revoked"}
        /\ OnDisk("host", RevokeLocal(l, t))
        /\ claimed' = claimed \cup {t}
        /\ UNCHANGED <<inviteVars, minted, creator, guest, guests, withdrawn, came>>

\* /invite revoke of an invite this chat holds no token for.
ChatRevokesLocally(t) ==
    LET l == RefreshExpired(ledger["host"])
    IN  /\ creator.pc = "chat" /\ t \in DOMAIN l \ creator.holds
        /\ RevokesLocally(l, t)
        /\ OnDisk("host", RevokeLocal(l, t))
        /\ claimed' = claimed \cup {t}
        /\ UNCHANGED <<inviteVars, minted, creator, guest, guests, withdrawn, came>>

-----------------------------------------------------------------------------
(***************************************************************************)
(* The guest.                                                              *)
(***************************************************************************)

\* run_join of a link: parse it, dial the relay, send INVITE_REDEEM.
RunInviteJoin(t) ==
    /\ guest.pc = "idle" /\ guests < MaxGuests /\ t \in DOMAIN entries
    /\ guest' = [pc |-> "asking", token |-> t, redeemed |-> FALSE, grant |-> 0]
    /\ guests' = guests + 1
    /\ UNCHANGED <<inviteVars, minted, ledger, creator, withdrawn, claimed, came>>

\* run_join of a room identifier: no invite is involved.
RunRoomJoin ==
    /\ guest.pc = "idle" /\ guests < MaxGuests /\ creator.pc = "chat"
    /\ guest' = [pc |-> "chat", token |-> "none", redeemed |-> FALSE, grant |-> 0]
    /\ guests' = guests + 1
    /\ UNCHANGED <<inviteVars, minted, ledger, creator, withdrawn, claimed, came>>

\* The relay redeems.
RelayRedeems ==
    /\ guest.pc = "asking"
    /\ Redeem(guest.token, "guest")
    /\ guest' = [guest EXCEPT !.pc = "redeemed", !.grant = entries[guest.token].expires]
    /\ UNCHANGED <<minted, ledger, creator, guests, withdrawn, claimed, came>>

\* Any verdict but "redeemed" ends the command (_render_invite_refusal).
RedeemRefused ==
    /\ guest.pc = "asking" /\ Verdict(guest.token) # "redeemed"
    /\ guest' = [guest EXCEPT !.pc = "idle"]
    /\ UNCHANGED <<inviteVars, minted, ledger, creator, guests, withdrawn, claimed, came>>

\* MUTANT: the record is written before the relay has answered.
RecordIncomingRedemptionEarly ==
    /\ guest.pc \in {"asking", "redeemed"}
    /\ OnDisk("guest", Saved(ledger["guest"], guest.token,
                 InviteRecord("redeemed", now + 1, 1, 1)))
    /\ guest' = [guest EXCEPT !.pc = "chat", !.redeemed = TRUE]
    /\ UNCHANGED <<inviteVars, minted, creator, guests, withdrawn, claimed, came>>

\* record_incoming_redemption, then the chat; past the deadline the record is
\* refused by its own checks and the failure suppressed.
RecordIncomingRedemption ==
    /\ guest.pc = "redeemed"
    /\ LET r == InviteRecord("redeemed", guest.grant, 1, 1)
       IN  IF Valid(r, now)
           THEN OnDisk("guest", Saved(ledger["guest"], guest.token, r))
           ELSE UNCHANGED ledger
    /\ guest' = [guest EXCEPT !.pc = "chat", !.redeemed = TRUE]
    /\ UNCHANGED <<inviteVars, minted, creator, guests, withdrawn, claimed, came>>

\* The answer is lost, the chat is left, or the process is killed.
GuestEnds ==
    /\ guest.pc # "idle"
    /\ guest' = [guest EXCEPT !.pc = "idle"]
    /\ UNCHANGED <<inviteVars, minted, ledger, creator, guests, withdrawn, claimed, came>>

-----------------------------------------------------------------------------

LedgerNext ==
    \/ \E t \in Tokens, ttl \in 0..(MaxTtl + 1), uses \in 0..(MaxRedemptions + 1),
          chat \in BOOLEAN : Mint(t, ttl, uses, chat)
    \/ RelayRegisters \/ RegisterWithRelay \/ CreatorEnds
    \/ HostReady \/ GuestReady
    \/ \E t \in Tokens : RevokeViaRelay(t) \/ RunRevoke(t) \/ ChatRevokesLocally(t)
                           \/ RunInviteJoin(t)
    \/ RelayRevokes \/ RevokeConfirmed \/ RevokeFails \/ CountdownEnds
    \/ RunList \/ RunRoomJoin \/ RelayRedeems \/ RedeemRefused
    \/ RecordIncomingRedemption \/ GuestEnds
    \/ Tick /\ UNCHANGED ledgerVars
    \/ PurgeTerminal /\ UNCHANGED ledgerVars

LedgerSpec == LedgerInit /\ [][LedgerNext]_ilvars

-----------------------------------------------------------------------------

\* An invite the relay will still redeem.
Redeemable(t) == t \in DOMAIN entries /\ Verdict(t) = "redeemed"

\* The ledgers tell the truth about the relay.  An ACTIVE record that is not
\* due is registered there, with this very deadline and number of uses; the
\* guest's REDEEMED record stands for a redemption the relay made; and an
\* invite whose revocation the relay confirmed is never redeemable again
\* (register_with_relay, record_incoming_redemption, revoke_via_relay).
LedgerTruthful ==
    /\ \A t \in DOMAIN ledger["host"] :
          LET r == ledger["host"][t]
          IN  r.state = "active" /\ ~IsDue(r) =>
                /\ t \in DOMAIN entries
                /\ entries[t].expires = r.expires /\ entries[t].max = r.max
    /\ \A t \in DOMAIN ledger["guest"] :
          t \in DOMAIN entries => entries[t].uses >= 1
    /\ \A t \in withdrawn : ~Redeemable(t)

\* A stored record moves only along TRANSITIONS, but for a revocation the
\* relay confirmed, which overtakes a redemption noted meanwhile; a live
\* record is never dropped (InviteRecord.transition, purge_terminal).
RecordStep ==
    \A m \in Machines : \A t \in DOMAIN ledger[m] :
        IF t \notin DOMAIN ledger'[m]
        THEN Folded(ledger[m][t]).state \in TERMINAL_STATES
        ELSE LET a == ledger[m][t].state
                 b == ledger'[m][t].state
             IN  \/ a = b \/ CanTransition(a, b)
                 \/ a = "active" /\ b = "redeemed"
                 \/ b = "revoked" /\ a = "redeemed" /\ t \in withdrawn'

\* "a REDEEMED invite is consumed forever and must never move again"
\* (invites/models.py, TRANSITIONS).  revoke_via_relay saves the copy it read
\* before the await, so it can move one.
RedeemedIsFinal ==
    [][\A m \in Machines : \A t \in DOMAIN ledger[m] \cap DOMAIN ledger'[m] :
          ledger[m][t].state = "redeemed" => ledger'[m][t].state = "redeemed"]_ilvars

\* "Invite ... revoked - redemption will now fail" (cli/commands/invites.py,
\* _run_inspect): what the command reports of the relay.
ReportedRevokedIsDead == \A t \in claimed : ~Redeemable(t)

\* "bind the resulting conversation id to the invite record the moment the
\* first secure session is live" (ui/chat.py, run_chat_session), on the
\* guest's side.
RedeemedIsBound ==
    \A t \in came : t \in DOMAIN ledger["guest"] =>
                       ledger["guest"][t].bound # "none"

=============================================================================
