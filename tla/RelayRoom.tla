------------------------------ MODULE RelayRoom ------------------------------
(***************************************************************************)
(* One rendezvous channel of the relay: who is attached to it, and what    *)
(* each side is told about the other (ghostlink/transport/relay/server.py, *)
(* with the attachments of ghostlink/transport/relay/client.py).           *)
(*                                                                         *)
(* A user dials one connection after another.  The relay serves each       *)
(* connection by a task of its own, which may be suspended at every write; *)
(* task[c] is where that of c is.  A write puts its packet on the wire at  *)
(* once, so told[c] is the presence that c will have learned when it has   *)
(* read everything written so far.                                         *)
(*                                                                         *)
(* The other channels of the relay share no state with this one, and the   *)
(* clock stands still: an expired invite is refused like a revoked one.    *)
(***************************************************************************)
EXTENDS InviteAuthority

CONSTANTS
    Users,
    UserOf,          \* the user that dials each connection (Sessions)
    NoConn,          \* a user without a connection
    Inviters,        \* bound: the users that create invites
    ChannelCapacity  \* CHANNEL_CAPACITY

ASSUME RoomConstants ==
    /\ UserOf \in [Sessions -> Users]
    /\ NoConn \notin Sessions
    /\ Inviters \subseteq Users
    /\ ChannelCapacity = 2

VARIABLES
    link,        \* the connection: see Links
    members,     \* _Channel.members; with two slots their order says nothing
    task,        \* what the connection's handler still has to write
    told,        \* the presence last written to the connection
    request,     \* the client's ATTACH or INVITE_REDEEM, or the answer to it
    current,     \* the connection each user has dialled last
    wants        \* the channel is in the user's _attachments

roomVars == <<link, members, task, told, request, current, wants>>
vars == <<entries, now, link, members, task, told, request, current, wants>>

\* "closed": the client's end is gone and the relay will read the end of the
\* stream; "silent": it is gone and nothing of it ever reaches the relay;
\* "swept": the same, and its session has been expired; "gone": the relay has
\* detached it.
Links == {"new", "up", "closed", "silent", "swept", "gone"}
Requests == {"none", "attach", "attached", "full", "redeemed", "refused"}

Held == {c \in Sessions : link[c] \in {"up", "closed", "silent", "swept"}}
Full == Cardinality(members) >= ChannelCapacity

\* counterparty: the other member, if there is one.
Others(c) == members \ {c}

\* told after PEER is written to the members in S.
Tell(S, presence) == [d \in Sessions |-> IF d \in S THEN presence ELSE told[d]]

RoomTypeOK ==
    /\ InviteTypeOK
    /\ link \in [Sessions -> Links]
    /\ members \subseteq Sessions
    /\ task \in [Sessions -> {"idle", "attached", "notify"}]
    /\ told \in [Sessions -> BOOLEAN]
    /\ request \in [Sessions -> Requests]
    /\ current \in [Users -> Sessions \cup {NoConn}]
    /\ wants \in [Users -> BOOLEAN]

RoomInit ==
    /\ InviteInit
    /\ link = [c \in Sessions |-> "new"]
    /\ members = {}
    /\ task = [c \in Sessions |-> "idle"]
    /\ told = [c \in Sessions |-> FALSE]
    /\ request = [c \in Sessions |-> "none"]
    /\ current = [u \in Users |-> NoConn]
    /\ wants = [u \in Users |-> FALSE]

Up(u) == current[u] # NoConn /\ link[current[u]] = "up"
Serving(c) == c \in Held /\ task[c] = "idle"

-----------------------------------------------------------------------------
(* The clients. *)

\* connect or a reconnect: HELLO, WELCOME, and _post_connected declares the
\* attachments of the old connection again.
Dial(u, c) ==
    /\ UserOf[c] = u
    /\ link[c] = "new"
    /\ ~Up(u)
    /\ link' = [link EXCEPT ![c] = "up"]
    /\ current' = [current EXCEPT ![u] = c]
    /\ request' = [request EXCEPT ![c] = IF wants[u] THEN "attach" ELSE "none"]
    /\ UNCHANGED <<inviteVars, members, task, told, wants>>

\* RelayClient.attach sends the first ATTACH.
SendAttach(u) ==
    /\ Up(u)
    /\ ~wants[u]
    /\ request[current[u]] = "none"
    /\ request' = [request EXCEPT ![current[u]] = "attach"]
    /\ UNCHANGED <<inviteVars, link, members, task, told, current, wants>>

\* attach returns (or redeem_invite does): the channel is an attachment now.
\* A refusal ends the call; after a reconnect nobody waits for the answer
\* (_resolve_attached and _reject_pending_attach find no future).
ReceiveReply(u) ==
    /\ Up(u)
    /\ request[current[u]] \notin {"none", "attach"}
    /\ request' = [request EXCEPT ![current[u]] = "none"]
    /\ wants' = [wants EXCEPT
                    ![u] = @ \/ request[current[u]] \in {"attached", "redeemed"}]
    /\ UNCHANGED <<inviteVars, link, members, task, told, current>>

\* The client's end of the connection dies, with or without a trace.
LinkLost(u) ==
    /\ Up(u)
    /\ \E how \in {"closed", "silent"} :
          link' = [link EXCEPT ![current[u]] = how]
    /\ UNCHANGED <<inviteVars, members, task, told, request, current, wants>>

\* disconnect: the user is done, and starts over with a new client.
ClientDisconnects(u) ==
    /\ Up(u)
    /\ link' = [link EXCEPT ![current[u]] = "closed"]
    /\ wants' = [wants EXCEPT ![u] = FALSE]
    /\ UNCHANGED <<inviteVars, members, task, told, request, current>>

-----------------------------------------------------------------------------
(* The relay. *)

\* _attach_membership refuses a third connection.
RefuseAttach(c) ==
    /\ Serving(c)
    /\ request[c] = "attach"
    /\ c \notin members /\ Full
    /\ request' = [request EXCEPT ![c] = "full"]
    /\ UNCHANGED <<inviteVars, link, members, task, told, current, wants>>

\* MUTANT: the capacity check admits one connection too many.
HandleAttachOver(c) ==
    /\ Serving(c)
    /\ request[c] = "attach"
    /\ Cardinality(Others(c)) <= ChannelCapacity
    /\ members' = members \cup {c}
    /\ request' = [request EXCEPT ![c] = "attached"]
    /\ told' = [told EXCEPT ![c] = Others(c) # {}]
    /\ task' = [task EXCEPT ![c] = "notify"]
    /\ UNCHANGED <<inviteVars, link, current, wants>>

\* _handle_attach up to the write of ATTACHED, which carries the number of
\* other members.
HandleAttach(c) ==
    /\ Serving(c)
    /\ request[c] = "attach"
    /\ c \in members \/ ~Full
    /\ members' = members \cup {c}
    /\ request' = [request EXCEPT ![c] = "attached"]
    /\ told' = [told EXCEPT ![c] = Others(c) # {}]
    /\ task' = [task EXCEPT ![c] = "notify"]
    /\ UNCHANGED <<inviteVars, link, current, wants>>

\* MUTANT: the redeemer is not attached along with the redemption.
HandleRedeemNoAttach(c, t) ==
    /\ Serving(c)
    /\ link[c] = "up"
    /\ request[c] = "none"
    /\ Redeem(t, c)
    /\ c \in members \/ ~Full
    /\ request' = [request EXCEPT ![c] = "redeemed"]
    /\ UNCHANGED <<link, members, task, told, current, wants>>

\* _handle_redeem of a chat invite: the invite is consumed and the redeemer
\* attached in one stretch, and REDEEMED written.
HandleRedeem(c, t) ==
    /\ Serving(c)
    /\ link[c] = "up"
    /\ request[c] = "none"
    /\ Redeem(t, c)
    /\ c \in members \/ ~Full
    /\ members' = members \cup {c}
    /\ request' = [request EXCEPT ![c] = "redeemed"]
    /\ task' = [task EXCEPT ![c] = "attached"]
    /\ UNCHANGED <<link, told, current, wants>>

\* The same when the channel is full: the invite is consumed nevertheless.
RedeemRoomFull(c, t) ==
    /\ Serving(c)
    /\ link[c] = "up"
    /\ request[c] = "none"
    /\ Redeem(t, c)
    /\ c \notin members /\ Full
    /\ request' = [request EXCEPT ![c] = "refused"]
    /\ UNCHANGED <<link, members, task, told, current, wants>>

\* _handle_redeem goes on: members are counted again and ATTACHED written.
SendAttached(c) ==
    /\ c \in Held
    /\ task[c] = "attached"
    /\ told' = [told EXCEPT ![c] = Others(c) # {}]
    /\ task' = [task EXCEPT ![c] = "notify"]
    /\ UNCHANGED <<inviteVars, link, members, request, current, wants>>

\* _notify_peer_joined looks the counterparty up and writes PEER joined.
NotifyPeerJoined(c) ==
    /\ c \in Held
    /\ task[c] = "notify"
    /\ told' = Tell(Others(c), TRUE)
    /\ task' = [task EXCEPT ![c] = "idle"]
    /\ UNCHANGED <<inviteVars, link, members, request, current, wants>>

\* MUTANT: the remaining member is not told of a leave.
LeaveChannelQuietly(c) ==
    /\ members' = members \ {c}
    /\ told' = [told EXCEPT ![c] = FALSE]

\* _leave_channel with _notify_peer_left: nobody hears of a leave by a
\* connection that is no member.
LeaveChannel(c) ==
    /\ members' = members \ {c}
    /\ told' = IF c \in members THEN Tell(members, FALSE) ELSE told

\* _handle_detach, for the DETACH a client sends before it hangs up.
HandleDetach(c) ==
    /\ Serving(c)
    /\ link[c] = "closed"
    /\ c \in members
    /\ LeaveChannel(c)
    /\ UNCHANGED <<inviteVars, link, task, request, current, wants>>

\* _detach_client: the relay reads the end of the stream, or a write to the
\* client fails, wherever its handler is.  Of a silent client it may never
\* learn.
DetachClient(c) ==
    /\ link[c] \in {"closed", "silent", "swept"}
    /\ link' = [link EXCEPT ![c] = "gone"]
    /\ LeaveChannel(c)
    /\ task' = [task EXCEPT ![c] = "idle"]
    /\ request' = [request EXCEPT ![c] = "none"]
    /\ UNCHANGED <<inviteVars, current, wants>>

\* _handle_forward whose write to the counterparty fails: the exception ends
\* the handler of the sender, and the relay detaches the sender.
ForwardFails(c) ==
    /\ Serving(c)
    /\ link[c] = "up"
    /\ c \in members
    /\ \E d \in Others(c) : link[d] = "closed"
    /\ link' = [link EXCEPT ![c] = "gone"]
    /\ LeaveChannel(c)
    /\ request' = [request EXCEPT ![c] = "none"]
    /\ UNCHANGED <<inviteVars, task, current, wants>>

\* sweep_expired drops the overdue session of a client that is not heard of
\* any more from the registry, and does nothing else.
SweepSession(c) ==
    /\ link[c] = "silent"
    /\ link' = [link EXCEPT ![c] = "swept"]
    /\ UNCHANGED <<inviteVars, members, task, told, request, current, wants>>

\* _handle_invite_create of a chat invite, by a connected client.
CreateInvite(c, t, uses) ==
    /\ Serving(c)
    /\ link[c] = "up"
    /\ UserOf[c] \in Inviters
    /\ Register(t, c, "chat", MaxTtl, uses)
    /\ UNCHANGED roomVars

\* _handle_invite_revoke
RevokeInvite(c, t) ==
    /\ Serving(c)
    /\ link[c] = "up"
    /\ Revoke(t, c)
    /\ UNCHANGED roomVars

\* aclose, or a crash: nothing of the relay's state is kept.
RelayRestart ==
    /\ Held # {}
    /\ link' = [c \in Sessions |-> IF c \in Held THEN "gone" ELSE link[c]]
    /\ members' = {}
    /\ task' = [c \in Sessions |-> "idle"]
    /\ request' = [c \in Sessions |-> "none"]
    /\ told' = [c \in Sessions |-> FALSE]
    /\ entries' = [t \in {} |-> 0]
    /\ UNCHANGED <<now, current, wants>>

RoomNext ==
    \/ \E u \in Users :
          \/ \E c \in Sessions : Dial(u, c)
          \/ SendAttach(u) \/ ReceiveReply(u) \/ LinkLost(u) \/ ClientDisconnects(u)
    \/ \E c \in Sessions :
          \/ RefuseAttach(c) \/ HandleAttach(c) \/ SendAttached(c)
          \/ NotifyPeerJoined(c) \/ HandleDetach(c) \/ DetachClient(c)
          \/ ForwardFails(c) \/ SweepSession(c)
          \/ \E t \in Tokens :
                \/ HandleRedeem(c, t) \/ RedeemRoomFull(c, t)
                \/ RevokeInvite(c, t)
                \/ \E uses \in 1..MaxRedemptions : CreateInvite(c, t, uses)
    \/ RelayRestart

RoomSpec == RoomInit /\ [][RoomNext]_vars

\* The event loop runs every handler on, clients read what they get, the end
\* of a stream is read, and the sweeper comes round.  Nothing is promised of
\* a silent connection.
RoomFairness ==
    /\ \A u \in Users : WF_vars(ReceiveReply(u))
    /\ \A c \in Sessions :
          /\ WF_vars(RefuseAttach(c)) /\ WF_vars(HandleAttach(c))
          /\ WF_vars(SendAttached(c)) /\ WF_vars(NotifyPeerJoined(c))
          /\ WF_vars(link[c] = "closed" /\ DetachClient(c))
          /\ WF_vars(SweepSession(c))

RoomFairSpec == RoomSpec /\ RoomFairness

-----------------------------------------------------------------------------
(* Properties. *)

\* The two slots belong to connections the relay still holds, and nobody is in
\* the middle of an attachment without a slot: no order of attachments,
\* redemptions, losses and restarts leaks or oversubscribes a slot
\* (_attach_membership, _leave_channel).
SlotsConsistent ==
    /\ Cardinality(members) <= ChannelCapacity
    /\ members \subseteq Held
    /\ \A c \in Sessions : task[c] # "idle" => c \in members

\* What a member has been told of the other's presence is right, except that
\* "joined" may still be owed by the other's suspended handler, or the member's
\* own ATTACHED by its own: a member is never left with a stale word, though
\* each handler is suspended between the slot it takes and what it writes.
PresenceTold ==
    \A c \in members :
        \/ told[c] = (Others(c) # {})
        \/ task[c] = "attached"
        \/ ~told[c] /\ \E d \in Others(c) : task[d] \in {"attached", "notify"}

\* A channel is never oversubscribed or leaked, and no member is left with a
\* stale word about the other (_attach_membership, _leave_channel,
\* _notify_peer_joined); no invite is redeemed more often than it allows.
RoomSafe == RoomTypeOK /\ SlotsConsistent /\ PresenceTold

\* A guest's slot is paid for: a consumed redemption is the slot of the
\* session it is bound to, or was refused because the channel was full.
RedemptionStep ==
    \A t \in DOMAIN entries :
        t \in DOMAIN entries' /\ entries'[t].uses # entries[t].uses =>
            \/ entries'[t].bound \in members'
            \/ members' = members /\ Full
RedemptionTakesSlot == [][RedemptionStep]_vars

\* Two members learn of each other: the one that was there first is told, even
\* if the handler that owes it the word is suspended or its client is lost
\* (then the newcomer leaves again).
PeerLearns ==
    \A c, d \in Sessions :
        (c # d /\ {c, d} \subseteq members) ~>
            (told[c] \/ ~({c, d} \subseteq members))

\* After a reconnect the client is a member of its channel again, unless two
\* other users hold it ("Start heartbeat and re-establish channel attachments
\* on (re)connect", relay/client.py).
Reattached ==
    \A u \in Users, c \in Sessions :
        (current[u] = c /\ link[c] = "up" /\ wants[u]) ~>
            \/ link[c] # "up" \/ ~wants[u] \/ c \in members
            \/ Full /\ \A d \in members : UserOf[d] # u

\* The relay enforces the time-to-live: a session that the sweeper expired
\* holds no channel slot for ever ("The relay server enforces TTL",
\* docs/ARCHITECTURE.md).
TtlEnforced ==
    \A c \in Sessions :
        link[c] = "swept" ~> c \notin members
=============================================================================
