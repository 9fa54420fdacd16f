---------------------------- MODULE KeyExchange ----------------------------
(***************************************************************************)
(* The two-message key exchange of a conversation                          *)
(* (ghostlink/messaging/session/chat.py, messaging/protocol/handshake.py): *)
(* the host sends KEX_HELLO when the guest joins and again some time after *)
(* it has reconnected itself, the guest answers every hello with KEX_REPLY *)
(* and installs the new key, the host completes its one outstanding        *)
(* initiator with whatever reply comes first.                              *)
(*                                                                         *)
(* A hello is its number; the reply to it, and the key both sides derive   *)
(* from it, carry that number, and complete() fails on any other number    *)
(* (the transcripts differ).  Inbound frames are dispatched in the order   *)
(* they arrive, and a handler runs undisturbed up to its first suspended   *)
(* write; the only state change after one is the guest's _set_session.     *)
(***************************************************************************)
EXTENDS Naturals, Sequences

CONSTANTS
    MaxHostLosses,   \* bound on losses of the host's connection
    MaxGuestLosses,  \* bound on losses of the guest's connection
    MaxRelayCrashes  \* bound on relay restarts, which break both at once

ASSUME KeyExchangeConstants ==
    /\ MaxHostLosses \in Nat
    /\ MaxGuestLosses \in Nat
    /\ MaxRelayCrashes \in Nat

VARIABLES
    hostUp, guestUp,        \* attached to the channel
    initiator,              \* number of the host's _initiator, 0 for None
    nonce,                  \* how many hellos the host has made
    hostKey, guestKey,      \* the key in use, 0 for none
    hostReady, guestReady,  \* _ready of either side
    settling,               \* sleeping _post_reconnect tasks of the host
    installing,             \* keys of hello handlers suspended in their write
    toGuest,                \* hellos on their way
    toHost,                 \* replies and "joined" events on their way
    losses                  \* [host, guest, relay]: how many happened

hostVars == <<hostUp, initiator, nonce, hostKey, hostReady, settling>>
guestVars == <<guestUp, guestKey, guestReady, installing>>
wires == <<toGuest, toHost>>
kexVars == <<hostVars, guestVars, wires, losses>>

Joined == 0

MaxJoins == 1 + MaxGuestLosses + MaxRelayCrashes
MaxReconnects == MaxHostLosses + MaxRelayCrashes
\* One hello for every join and for every reconnect of the host.
MaxNonce == MaxJoins + MaxReconnects

KexTypeOK ==
    /\ hostUp \in BOOLEAN /\ guestUp \in BOOLEAN
    /\ nonce \in 0..MaxNonce
    /\ initiator \in 0..nonce
    /\ hostKey \in 0..nonce /\ guestKey \in 0..nonce
    /\ hostReady \in BOOLEAN /\ guestReady \in BOOLEAN
    /\ settling \in 0..MaxReconnects
    /\ installing \in Seq(1..nonce)
    /\ toGuest \in Seq(1..nonce)
    /\ toHost \in Seq(0..nonce)
    /\ losses \in [host : 0..MaxHostLosses, guest : 0..MaxGuestLosses,
                   relay : 0..MaxRelayCrashes]

\* The host waits in the channel; the guest has not joined yet.
KexInit ==
    /\ hostUp = TRUE /\ guestUp = FALSE
    /\ initiator = 0 /\ nonce = 0
    /\ hostKey = 0 /\ guestKey = 0
    /\ hostReady = FALSE /\ guestReady = FALSE
    /\ settling = 0
    /\ installing = <<>>
    /\ toGuest = <<>> /\ toHost = <<>>
    /\ losses = [host |-> 0, guest |-> 0, relay |-> 0]

\* A frame handed to the relay: dropped if the other end is away ("no-peer"),
\* unless it gets to the relay only after the other end is back.
Forwarded(wire, frame, otherEnd) ==
    {Append(wire, frame)} \cup (IF otherEnd THEN {} ELSE {wire})

Prefixes(wire) == {SubSeq(wire, 1, k) : k \in 0..Len(wire)}
Suffixes(wire) == {SubSeq(wire, k, Len(wire)) : k \in 1..(Len(wire) + 1)}
NoEvent(wire) == \A i \in 1..Len(wire) : wire[i] # Joined

-----------------------------------------------------------------------------
(* The host. *)

\* Mutant: the old session stays ready while a new key is being agreed on.
InitiateStayReady ==
    /\ nonce' = nonce + 1
    /\ initiator' = nonce + 1
    /\ toGuest' \in Forwarded(toGuest, nonce + 1, guestUp)
    /\ UNCHANGED hostReady

\* _initiate_handshake: a fresh initiator replaces any outstanding one.
Initiate ==
    /\ nonce' = nonce + 1
    /\ initiator' = nonce + 1
    /\ hostReady' = (hostReady /\ hostKey = 0)
    /\ toGuest' \in Forwarded(toGuest, nonce + 1, guestUp)

\* _on_peer("joined"); the task it spawns runs before any later frame.
HostPeerJoined ==
    /\ hostUp /\ toHost # <<>> /\ Head(toHost) = Joined
    /\ Initiate
    /\ toHost' = Tail(toHost)
    /\ UNCHANGED <<hostUp, hostKey, settling, guestVars, losses>>

\* _post_reconnect wakes up.
PostReconnect ==
    /\ settling > 0
    /\ settling' = settling - 1
    /\ IF hostUp THEN Initiate ELSE UNCHANGED <<nonce, initiator, hostReady, toGuest>>
    /\ UNCHANGED <<hostUp, hostKey, toHost, guestVars, losses>>

\* _handle_kex_reply: the initiator is spent whether complete() succeeds or
\* not; a reply without an initiator is dropped.
HandleKexReply ==
    /\ hostUp /\ toHost # <<>> /\ Head(toHost) # Joined
    /\ initiator' = 0
    /\ IF initiator = Head(toHost)
         THEN hostKey' = initiator /\ hostReady' = TRUE
         ELSE UNCHANGED <<hostKey, hostReady>>
    /\ toHost' = Tail(toHost)
    /\ UNCHANGED <<hostUp, nonce, settling, toGuest, guestVars, losses>>

-----------------------------------------------------------------------------
(* The guest. *)

\* Mutant: a guest that has a key does not answer another hello.
HandleKexHelloOnce ==
    /\ guestUp /\ toGuest # <<>>
    /\ IF guestKey = 0
         THEN /\ toHost' \in Forwarded(toHost, Head(toGuest), hostUp)
              /\ installing' = Append(installing, Head(toGuest))
         ELSE UNCHANGED <<toHost, installing>>
    /\ toGuest' = Tail(toGuest)
    /\ UNCHANGED <<guestUp, guestKey, guestReady, hostVars, losses>>

\* _handle_kex_hello up to the write of the reply.
HandleKexHello ==
    /\ guestUp /\ toGuest # <<>>
    /\ toHost' \in Forwarded(toHost, Head(toGuest), hostUp)
    /\ installing' = Append(installing, Head(toGuest))
    /\ toGuest' = Tail(toGuest)
    /\ UNCHANGED <<guestUp, guestKey, guestReady, hostVars, losses>>

\* _set_session after the write, even if the write failed.
SetSession ==
    /\ installing # <<>>
    /\ guestKey' = Head(installing)
    /\ guestReady' = TRUE
    /\ installing' = Tail(installing)
    /\ UNCHANGED <<guestUp, hostVars, wires, losses>>

-----------------------------------------------------------------------------
(* Connections.  _on_connection_state(RECONNECTING) clears _ready; what was   *)
(* already past the relay still reaches the other side.                       *)

HostLost ==
    /\ hostUp
    /\ losses.host < MaxHostLosses
    /\ losses' = [losses EXCEPT !.host = @ + 1]
    /\ hostUp' = FALSE /\ hostReady' = FALSE
    /\ toGuest' \in Prefixes(toGuest)
    /\ \E s \in Suffixes(toHost) : NoEvent(s) /\ toHost' = s
    /\ UNCHANGED <<initiator, nonce, hostKey, settling, guestVars>>

GuestLost ==
    /\ guestUp
    /\ losses.guest < MaxGuestLosses
    /\ losses' = [losses EXCEPT !.guest = @ + 1]
    /\ guestUp' = FALSE /\ guestReady' = FALSE
    /\ toGuest' \in Suffixes(toGuest)
    /\ \E s \in Prefixes(toHost) :
          /\ NoEvent(SubSeq(toHost, Len(s) + 1, Len(toHost)))
          /\ toHost' = s
    /\ UNCHANGED <<guestKey, installing, hostVars>>

RelayCrash ==
    /\ losses.relay < MaxRelayCrashes
    /\ losses' = [losses EXCEPT !.relay = @ + 1]
    /\ hostUp /\ guestUp
    /\ hostUp' = FALSE /\ hostReady' = FALSE
    /\ guestUp' = FALSE /\ guestReady' = FALSE
    /\ toGuest' = <<>> /\ toHost' = <<>>
    /\ UNCHANGED <<initiator, nonce, hostKey, settling, guestKey, installing>>

\* _on_connection_state(CONNECTED) schedules _post_reconnect; the guest takes
\* no part in the handshake when it hears that the host joined.
HostBack ==
    /\ ~ hostUp
    /\ hostUp' = TRUE
    /\ settling' = settling + 1
    /\ UNCHANGED <<initiator, nonce, hostKey, hostReady, guestVars, wires, losses>>

\* The relay tells an attached host that the guest joined.
GuestBack ==
    /\ ~ guestUp
    /\ guestUp' = TRUE
    /\ toHost' = IF hostUp THEN Append(toHost, Joined) ELSE toHost
    /\ UNCHANGED <<guestKey, guestReady, installing, hostVars, toGuest, losses>>

-----------------------------------------------------------------------------
Host == HostPeerJoined \/ PostReconnect \/ HandleKexReply
Guest == HandleKexHello \/ SetSession
Connections == HostBack \/ GuestBack

KexNext ==
    \/ Host
    \/ Guest
    \/ Connections
    \/ HostLost
    \/ GuestLost
    \/ RelayCrash

KexSpec == KexInit /\ [][KexNext]_kexVars

\* As long as a task can go on, a frame is on its way or a connection is down,
\* something of it happens.
KexSystem == Host \/ Guest \/ Connections

KexFairSpec == KexSpec /\ WF_kexVars(KexSystem)

-----------------------------------------------------------------------------
(* Properties. *)

\* Whatever is lost, delayed or overtaken, when both sides are ready and no
\* hello handler is suspended, they hold the same key (_initiate_handshake
\* clears _ready; _handle_kex_reply accepts only the newest hello's reply).
ReadyKeysAgree ==
    hostReady /\ guestReady /\ installing = <<>> => hostKey = guestKey

\* Hello n is on its way, alone: no frame of another hello is in transit.
Lone(n) ==
    /\ toGuest = <<n>> /\ toHost = <<>>
    /\ initiator = n

\* A handshake that is alone and is neither interrupted nor overtaken by
\* another one completes on both sides (_handle_kex_hello, _handle_kex_reply).
LoneHandshakeCompletes ==
    \A n \in 1..MaxNonce :
        Lone(n) ~> \/ hostReady /\ guestReady /\ hostKey = n /\ guestKey = n
                   \/ nonce > n
                   \/ ~ hostUp
                   \/ ~ guestUp

\* "Reconnects trigger a brand-new handshake": once the connections are stable,
\* both sides end up ready with the same key.
EventuallySecure ==
    <>[](hostReady /\ guestReady /\ hostKey = guestKey)

=============================================================================
