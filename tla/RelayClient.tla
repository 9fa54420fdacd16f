----------------------------- MODULE RelayClient -----------------------------
(***************************************************************************)
(* The request tables of the relay client                                  *)
(* (ghostlink/transport/relay/client.py): every operation registers a      *)
(* future under a key, sends a packet and sleeps until the reader loop     *)
(* resolves or rejects the future, its timeout fires, or disconnect        *)
(* cancels it; whatever happened, it then takes its key out of the table.  *)
(*                                                                         *)
(* The keys are what the relay's answers carry: a channel, an invite id, a *)
(* request type with a group, nothing at all for a group creation, the     *)
(* kind and subject of a group event, a ping's nonce.  One channel, one    *)
(* invite, one group and one subject are enough for calls to meet.         *)
(* The relay answers requests in order; an answer may stay under way for   *)
(* longer than the caller waits, or be lost with the connection.  The      *)
(* pings that keep the connection are the subject of Heartbeat.            *)
(***************************************************************************)
EXTENDS Heartbeat, Naturals, Sequences, FiniteSets

CONSTANTS
    Calls,       \* the calls a behaviour makes, numbers
    CallPlans,   \* a set of functions from Calls to Operations
    MaxLost      \* bound on the lost connections

VARIABLES
    plan,     \* [call -> operation], fixed for a behaviour
    pcall,    \* [call -> where it is]
    table,    \* [key -> the call whose future is registered, 0 if none]
    answer,   \* [call -> the answer it got: the request it was given to, 0 if none]
    toRelay,  \* requests on their way
    fromRelay,\* answers on their way
    attached, \* _attachments: the client believes it is in the channel
    usable,   \* the connection manager is CONNECTED
    gone,     \* disconnect has run
    lost      \* connections lost so far

rcvars == <<plan, pcall, table, answer, toRelay, fromRelay, attached, usable, gone, lost>>

Operations == {"attach", "create_invite", "query_invite", "revoke_invite", "redeem_invite",
               "group_create", "group_attest", "group_state", "group_leave", "ping"}
InviteOps == {"create_invite", "query_invite", "revoke_invite", "redeem_invite"}

ASSUME RelayClientConstants ==
    /\ Calls \subseteq Nat \ {0} /\ CallPlans \subseteq [Calls -> Operations]
    /\ MaxLost \in Nat

\* The key an operation registers its future under; a nonce is its call's own.
KeyOf(op, c) ==
    CASE op = "attach" -> <<"channel", 0>>
      [] op \in InviteOps -> <<"invite", 0>>
      [] op = "group_create" -> <<"create", 0>>
      [] op = "group_attest" -> <<"ATTEST:group", 0>>
      [] op = "group_state" -> <<"STATE:group", 0>>
      [] op = "group_leave" -> <<"left event", 0>>
      [] op = "ping" -> <<"nonce", c>>
Nonces == {<<"nonce", c>> : c \in Calls}
Keys == {<<"channel", 0>>, <<"invite", 0>>, <<"create", 0>>, <<"ATTEST:group", 0>>,
         <<"STATE:group", 0>>, <<"left event", 0>>} \cup Nonces
Key(c) == KeyOf(plan[c], c)
GroupKeys == {<<"ATTEST:group", 0>>, <<"STATE:group", 0>>, <<"left event", 0>>}
Running == {"waiting", "answered", "refused", "timeout", "cancelled"}

RelayClientInit ==
    /\ plan \in CallPlans
    /\ pcall = [c \in Calls |-> "idle"] /\ table = [k \in Keys |-> 0]
    /\ answer = [c \in Calls |-> 0]
    /\ toRelay = <<>> /\ fromRelay = <<>>
    /\ attached = FALSE /\ usable = TRUE /\ gone = FALSE /\ lost = 0

-----------------------------------------------------------------------------
(* The callers. *)

\* The future is registered over whatever was there, and the packet is sent.
\* A connection that is not usable refuses the call before anything is
\* registered.
Registers(c) ==
    /\ pcall' = [pcall EXCEPT ![c] = IF usable THEN "waiting" ELSE "returned"]
    /\ table' = IF usable THEN [table EXCEPT ![Key(c)] = c] ELSE table
    /\ toRelay' = IF usable THEN Append(toRelay, c) ELSE toRelay
Attach_(c) == plan[c] = "attach" /\ Registers(c)
InviteRoundtrip(c) == plan[c] \in InviteOps /\ Registers(c)
GroupRoundtrip(c) == plan[c] \in {"group_attest", "group_state"} /\ Registers(c)
Ping(c) == plan[c] = "ping" /\ Registers(c)

\* Only one group creation may be in flight.
GroupCreate(c) ==
    /\ plan[c] = "group_create"
    /\ IF table[<<"create", 0>>] = 0 THEN Registers(c)
       ELSE pcall' = [pcall EXCEPT ![c] = "returned"] /\ UNCHANGED <<table, toRelay>>

\* wait_group_event is started before the packet is sent: when the connection
\* refuses the packet, the waiter is left to its timeout.
GroupLeave(c) ==
    /\ plan[c] = "group_leave"
    /\ pcall' = [pcall EXCEPT ![c] = "waiting"]
    /\ table' = [table EXCEPT ![Key(c)] = c]
    /\ toRelay' = IF usable THEN Append(toRelay, c) ELSE toRelay

Call(c) ==
    /\ pcall[c] = "idle"
    /\ Attach_(c) \/ InviteRoundtrip(c) \/ GroupRoundtrip(c) \/ GroupCreate(c) \/ GroupLeave(c)
       \/ Ping(c)
    /\ UNCHANGED <<plan, answer, fromRelay, attached, usable, gone, lost>>

\* detach: the channel is forgotten at once.
Detach ==
    /\ attached /\ attached' = FALSE
    /\ UNCHANGED <<plan, pcall, table, answer, toRelay, fromRelay, usable, gone, lost>>

TimesOut(c) ==
    /\ pcall[c] = "waiting" /\ pcall' = [pcall EXCEPT ![c] = "timeout"]
    /\ UNCHANGED <<plan, table, answer, toRelay, fromRelay, attached, usable, gone, lost>>

\* Mutant: the key is only taken out when an answer came.
ReturnsKeeping(c) ==
    /\ pcall[c] \in Running \ {"waiting"}
    /\ table' = IF pcall[c] = "answered" THEN [table EXCEPT ![Key(c)] = 0] ELSE table
    /\ pcall' = [pcall EXCEPT ![c] = "returned"]
    /\ UNCHANGED <<plan, answer, toRelay, fromRelay, attached, usable, gone, lost>>

\* The finally clauses: the key is taken out, also when another call has
\* registered under it since; only a group creation looks whose future it is.
\* A confirmed attach and a redemption are remembered for reconnects.
Returns(c) ==
    /\ pcall[c] \in Running \ {"waiting"}
    /\ table' = IF plan[c] = "group_create" /\ table[<<"create", 0>>] # c THEN table
                ELSE [table EXCEPT ![Key(c)] = 0]
    /\ attached' = (attached \/ (pcall[c] = "answered" /\ plan[c] \in {"attach", "redeem_invite"}))
    /\ pcall' = [pcall EXCEPT ![c] = "returned"]
    /\ UNCHANGED <<plan, answer, toRelay, fromRelay, usable, gone, lost>>

-----------------------------------------------------------------------------
(* The relay (external) and the reader loop. *)

\* The relay answers a request, or refuses it; a re-attach is request 0.
RelayReplies ==
    /\ toRelay # <<>> /\ toRelay' = Tail(toRelay)
    /\ \E ok \in BOOLEAN : fromRelay' = Append(fromRelay, [req |-> Head(toRelay), ok |-> ok])
    /\ UNCHANGED <<plan, pcall, table, answer, attached, usable, gone, lost>>

\* Mutant: answers are looked up by the group alone.
AnswerKeyByGroup(req) ==
    IF req # 0 /\ plan[req] \in {"group_attest", "group_state"}
      THEN (IF table[<<"ATTEST:group", 0>>] # 0 THEN <<"ATTEST:group", 0>> ELSE <<"STATE:group", 0>>)
    ELSE IF req = 0 THEN <<"channel", 0>> ELSE Key(req)

\* The key an answer is looked up by; the answer to an untracked re-attach
\* carries the channel.
AnswerKey(req) == IF req = 0 THEN <<"channel", 0>> ELSE Key(req)

\* _resolve_attached, _resolve_invite, _resolve_group, _route_group_event: the
\* registered future gets the answer; a pong also takes its nonce out.
Resolves(key, req) ==
    IF table[key] # 0 /\ pcall[table[key]] = "waiting"
      THEN /\ pcall' = [pcall EXCEPT ![table[key]] = "answered"]
           /\ answer' = [answer EXCEPT ![table[key]] = req]
      ELSE UNCHANGED <<pcall, answer>>
ResolvePong(nonce, req) == Resolves(nonce, req) /\ table' = [table EXCEPT ![nonce] = 0]

\* _reject_pending_attach, _reject_pending_invite, _reject_pending_group: an
\* error of the group fails every pending operation on it, and a creation.
Failing(key) == IF key \in GroupKeys THEN GroupKeys \cup {<<"create", 0>>} ELSE {key}
Rejects(key) ==
    LET hit == {table[k] : k \in Failing(key)} IN
    /\ pcall' = [c \in Calls |-> IF c \in hit /\ pcall[c] = "waiting" THEN "refused" ELSE pcall[c]]
    /\ table' = [k \in Keys |-> IF k \in Failing(key) \ {<<"create", 0>>} THEN 0 ELSE table[k]]
    /\ UNCHANGED answer

\* _handle_bytes: the reader loop hands one packet to its route.
HandleBytes ==
    /\ fromRelay # <<>> /\ fromRelay' = Tail(fromRelay)
    /\ LET a == Head(fromRelay) IN
         CASE AnswerKey(a.req) \in Nonces -> ResolvePong(AnswerKey(a.req), a.req)
           [] AnswerKey(a.req) \notin Nonces /\ a.ok ->
                Resolves(AnswerKey(a.req), a.req) /\ UNCHANGED table
           [] AnswerKey(a.req) \notin Nonces /\ ~a.ok -> Rejects(AnswerKey(a.req))
    /\ UNCHANGED <<plan, toRelay, attached, usable, gone, lost>>

-----------------------------------------------------------------------------
(* The connection. *)

ConnectionBreaks ==
    /\ usable /\ lost < MaxLost /\ lost' = lost + 1
    /\ usable' = FALSE /\ toRelay' = <<>> /\ fromRelay' = <<>>
    /\ UNCHANGED <<plan, pcall, table, answer, attached, gone>>

\* _post_connected: the channels are declared again, without a future.
PostConnected ==
    /\ ~usable /\ ~gone /\ usable' = TRUE
    /\ toRelay' = IF attached THEN <<0>> ELSE <<>>
    /\ UNCHANGED <<plan, pcall, table, answer, fromRelay, attached, gone, lost>>

\* Mutant: disconnect forgets the invite operations.
DisconnectForgetsInvites ==
    /\ ~gone /\ gone' = TRUE /\ usable' = FALSE
    /\ LET cut == {table[k] : k \in Keys \ {<<"channel", 0>>, <<"invite", 0>>}} IN
         pcall' = [c \in Calls |-> IF c \in cut /\ pcall[c] = "waiting" THEN "cancelled" ELSE pcall[c]]
    /\ table' = [k \in Keys |-> IF k \in {<<"channel", 0>>} THEN table[k] ELSE 0]
    /\ toRelay' = <<>> /\ fromRelay' = <<>>
    /\ UNCHANGED <<plan, answer, attached, lost>>

\* disconnect: every pending operation but an attach is cancelled.
Disconnect ==
    /\ ~gone /\ gone' = TRUE /\ usable' = FALSE
    /\ LET cut == {table[k] : k \in Keys \ {<<"channel", 0>>}} IN
         pcall' = [c \in Calls |-> IF c \in cut /\ pcall[c] = "waiting" THEN "cancelled" ELSE pcall[c]]
    /\ table' = [k \in Keys |-> IF k = <<"channel", 0>> THEN table[k] ELSE 0]
    /\ toRelay' = <<>> /\ fromRelay' = <<>>
    /\ UNCHANGED <<plan, answer, attached, lost>>

RelayClientNext ==
    \/ \E c \in Calls : Call(c) \/ TimesOut(c) \/ Returns(c)
    \/ Detach \/ RelayReplies \/ HandleBytes \/ ConnectionBreaks \/ PostConnected \/ Disconnect
RelayClientSpec ==
    /\ RelayClientInit /\ [][RelayClientNext]_rcvars
    /\ \A c \in Calls : WF_rcvars(TimesOut(c)) /\ WF_rcvars(Returns(c))

-----------------------------------------------------------------------------
(* Properties. *)

\* A future in a table belongs to a call that is still there to take it out:
\* late answers find nobody, however calls, timeouts and disconnects overlap
\* (client.py, the finally clauses).
PendingHasCaller == \A k \in Keys : table[k] # 0 => pcall[table[k]] \in Running

\* A call that was answered got an answer to an operation of its kind on the
\* same object: an attestation never gets a roster, nor an attach an invite
\* (client.py _resolve_group, _resolve_invite, _resolve_attached).
AnswerFits ==
    \A c \in Calls : answer[c] # 0 =>
        Key(answer[c]) = Key(c) /\ (Key(c) \in {<<"ATTEST:group", 0>>, <<"STATE:group", 0>>} => plan[answer[c]] = plan[c])

\* After disconnect has cancelled what is pending, only an attach, the waiter
\* of a leave that came too late, and a call another one was registered over
\* still wait for their timeouts (client.py disconnect, group_leave).
DisconnectCancels ==
    gone => \A c \in Calls : pcall[c] = "waiting" =>
              \/ plan[c] \in {"attach", "group_leave"}
              \/ \E d \in Calls \ {c} : Key(d) = Key(c) /\ pcall[d] # "idle"

\* The correlation of requests and answers: no future without its caller, no
\* answer of another kind, and nobody left waiting by a disconnect that could
\* have been told (client.py).
RelayClientSafe == PendingHasCaller /\ AnswerFits /\ DisconnectCancels

\* "Send one invite packet and await its correlated response": an operation
\* is answered with the answer to its own request (client.py _invite_roundtrip).
AnswerIsOwn == \A c \in Calls : answer[c] # 0 => answer[c] = c

\* The client's side of a relay connection: every pending request has its
\* caller and gets an answer that fits (relay/client.py), and a silent relay is
\* noticed in time, by misses that count since the last pong (heartbeat.py).
ClientSafe == RelayClientSafe /\ HeartbeatSafe

=============================================================================
