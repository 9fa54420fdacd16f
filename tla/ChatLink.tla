------------------------------ MODULE ChatLink ------------------------------
(***************************************************************************)
(* One direction of a live conversation                                    *)
(* (ghostlink/messaging/session/chat.py): the sender's outbox and pump, the*)
(* relay channel, the receiver's inbox, acknowledgements, read receipts,   *)
(* link losses, key refreshes and a restart of the sending application.    *)
(*                                                                         *)
(* asyncio runs one coroutine at a time, so everything between two awaits  *)
(* is atomic.  _deliver suspends while it waits to be sendable ("wait"),   *)
(* while the frame is written ("sending") and while it waits for the       *)
(* acknowledgement ("waitack"); in "run" and "try" it does not, so nothing *)
(* else happens there (Yielded).  The channel keeps order.  When a          *)
(* connection breaks, what the relay has already passed on to the other    *)
(* side still arrives and what it has not yet looked at may be forwarded   *)
(* after the recovery; the rest is lost.  A key is its generation number; a*)
(* frame sealed under another generation fails to open and is dropped.  The*)
(* handshake is reduced to its outcome: the guest installs the new key     *)
(* first, the host follows when the reply arrives (KeyExchange has the     *)
(* frames).                                                                *)
(***************************************************************************)
EXTENDS Naturals, Sequences, FiniteSets

CONSTANTS
    Lives,             \* how many times the sending application may start
    MessagesPerLife,   \* messages one sending session submits
    ResendAttempts,    \* ChatSessionConfig.resend_attempts
    MaxReorderBuffer,  \* MAX_REORDER_BUFFER
    MaxSeenIds,        \* MAX_SEEN_IDS
    MaxLinkLosses,     \* bound on losses of the sender's connection
    MaxPeerLosses,     \* bound on losses of the receiver's connection
    MaxLosses,         \* bound on both together
    SenderIsHost       \* which role the modelled sender has

ASSUME ChatLinkConstants ==
    /\ Lives \in Nat \ {0}
    /\ MessagesPerLife \in Nat \ {0}
    /\ ResendAttempts \in Nat \ {0}
    /\ MaxReorderBuffer \in Nat \ {0}
    /\ MaxSeenIds \in Nat \ {0}
    /\ MaxLinkLosses \in Nat
    /\ MaxPeerLosses \in Nat
    /\ MaxLosses \in Nat
    /\ SenderIsHost \in BOOLEAN

\* The n-th message of the l-th sending session; sequence numbers start over
\* with every session.
Ids == (1..Lives) \X (1..MessagesPerLife)
SequenceOf == [m \in Ids |-> m[2]]
NoMessage == <<0, 0>>

VARIABLES
    status, sequence, nextSequence, queue, waiter, deliveredSeqs,
                   \* the sender's outbox
    expected, buffer, seen, delivered, unread, highestRead, verdict,
                   \* the receiver's inbox
    pump,          \* [pc, msg, attempt]: _pump and the _deliver it runs
    life,          \* which sending session is alive
    ready,         \* sender's _ready
    present,       \* sender's _peer_present
    usable,        \* sender's _transport_usable
    peerUp,        \* the receiver is attached to the channel
    rReady,        \* receiver's _ready
    kex,           \* the handshake frame under way: hello, reply or none
    gen,           \* the newest key generation
    sKey, rKey,    \* the generation sender and receiver hold, 0 for none
    msgWire,       \* MESSAGE frames on their way to the receiver
    ackWire,       \* MESSAGE_ACK and READ_RECEIPT frames on their way back
    lastReadSent,  \* receiver's ReceiptTracker._last_read_sent
    losses,        \* [link, peer]: how many losses happened
    ackHandled,    \* history: messages whose MESSAGE_ACK the sender handled
    reported       \* history: messages whose DELIVERED event was emitted

obVars == <<status, sequence, nextSequence, queue, waiter, deliveredSeqs>>
ibVars == <<expected, buffer, seen, delivered, unread, highestRead, verdict>>
linkVars == <<ready, present, usable, peerUp, rReady, kex, gen, sKey, rKey, losses>>
wireVars == <<msgWire, ackWire>>
histVars == <<ackHandled, reported>>
vars == <<obVars, ibVars, pump, life, linkVars, wireVars, lastReadSent, histVars>>

OB == INSTANCE Outbox
IB == INSTANCE Inbox WITH InboxIds <- Ids

\* Both ends are attached to the channel.
Connected == usable /\ peerUp

\* A frame handed to the relay: while the other end is away it is dropped
\* ("no-peer") or reaches the relay only after the recovery.
Forwarded(wire, frame) ==
    {Append(wire, frame)} \cup (IF Connected THEN {} ELSE {wire})

\* What survives of a wire when the end that writes it, or the end that reads
\* it, loses its connection.
Prefixes(wire) == {SubSeq(wire, 1, k) : k \in 0..Len(wire)}
Suffixes(wire) == {SubSeq(wire, k, Len(wire)) : k \in 1..(Len(wire) + 1)}

Idle == [pc |-> "idle", msg |-> NoMessage, attempt |-> 0]

TypeOK ==
    /\ OB!OutboxTypeOK
    /\ IB!InboxTypeOK
    /\ pump \in [pc : {"idle", "start", "run", "try", "wait", "sending", "waitack"},
                 msg : Ids \cup {NoMessage}, attempt : 0..ResendAttempts]
    /\ life \in 1..Lives
    /\ ready \in BOOLEAN /\ present \in BOOLEAN /\ usable \in BOOLEAN
    /\ peerUp \in BOOLEAN /\ rReady \in BOOLEAN
    /\ kex \in {"none", "hello", "reply"}
    /\ gen \in Nat /\ sKey \in Nat /\ rKey \in Nat
    /\ msgWire \in Seq([msg : Ids, key : Nat])
    /\ ackWire \in Seq([type : {"ack"}, msg : Ids] \cup [type : {"read"}, upTo : Nat])
    /\ lastReadSent \in Nat
    /\ losses \in [link : 0..MaxLinkLosses, peer : 0..MaxPeerLosses]
    /\ ackHandled \subseteq Ids /\ reported \subseteq Ids

\* The conversation starts once the first handshake is complete.
Init ==
    /\ OB!OutboxInit
    /\ IB!InboxInit
    /\ pump = Idle
    /\ life = 1
    /\ ready = TRUE /\ present = TRUE /\ usable = TRUE
    /\ peerUp = TRUE /\ rReady = TRUE
    /\ kex = "none"
    /\ gen = 1 /\ sKey = 1 /\ rKey = 1
    /\ msgWire = <<>> /\ ackWire = <<>>
    /\ lastReadSent = 0
    /\ losses = [link |-> 0, peer |-> 0]
    /\ ackHandled = {} /\ reported = {}

-----------------------------------------------------------------------------
(* The sending side. *)

\* send_message, with _ensure_pump; it needs one completed handshake.
SendMessage(m) ==
    /\ sKey # 0
    /\ m = <<life, nextSequence>>
    /\ OB!Enqueue(m)
    /\ pump' = IF pump.pc = "idle" THEN [pump EXCEPT !.pc = "start"] ELSE pump
    /\ UNCHANGED <<ibVars, life, linkVars, wireVars, lastReadSent, histVars>>

\* _pump takes the next message, or returns.
PumpTake ==
    /\ pump.pc \in {"start", "run"}
    /\ \/ \E m \in Ids :
             /\ OB!NextQueued(m)
             /\ pump' = [pc |-> "try", msg |-> m, attempt |-> 1]
       \/ /\ OB!NothingQueued
          /\ pump' = Idle
    /\ UNCHANGED <<ibVars, life, linkVars, wireVars, lastReadSent, histVars>>

Sendable == ready /\ present /\ usable

\* _wait_sendable suspends only if an event is missing.
WaitSendable ==
    /\ pump.pc = "try"
    /\ ~ Sendable
    /\ pump' = [pump EXCEPT !.pc = "wait"]
    /\ UNCHANGED <<obVars, ibVars, life, linkVars, wireVars, lastReadSent, histVars>>

\* _wait_sendable returned True: seal under the current key, arm the waiter,
\* write the frame.
StartSend ==
    /\ pump.pc \in {"try", "wait"}
    /\ Sendable
    /\ OB!RegisterAckWaiter(pump.msg)
    /\ msgWire' \in Forwarded(msgWire, [msg |-> pump.msg, key |-> sKey])
    /\ pump' = [pump EXCEPT !.pc = "sending"]
    /\ UNCHANGED <<ibVars, life, linkVars, ackWire, lastReadSent, histVars>>

SendDone ==
    /\ pump.pc = "sending"
    /\ OB!MarkSent(pump.msg)
    /\ pump' = [pump EXCEPT !.pc = "waitack"]
    /\ UNCHANGED <<ibVars, life, linkVars, wireVars, lastReadSent, histVars>>

\* Mutant: one resend too many.
NextAttemptOneMore ==
    LET m == pump.msg IN
    /\ waiter' = [waiter EXCEPT ![m] = IF @ = "pending" THEN "cancelled" ELSE @]
    /\ IF pump.attempt <= ResendAttempts
         THEN /\ pump' = [pump EXCEPT !.pc = "try", !.attempt = @ + 1]
              /\ UNCHANGED status
         ELSE /\ pump' = [Idle EXCEPT !.pc = "run"]
              /\ status' = [status EXCEPT ![m] =
                               IF "FAILED" \in OB!Transitions[@] THEN "FAILED" ELSE @]
    /\ UNCHANGED <<sequence, nextSequence, queue, deliveredSeqs,
                   ibVars, life, linkVars, wireVars, lastReadSent, histVars>>

\* drop_ack_waiter, then the next round of the loop or, after the last one,
\* mark_failed: there is no await in between.
NextAttempt ==
    LET m == pump.msg IN
    /\ waiter' = [waiter EXCEPT ![m] = IF @ = "pending" THEN "cancelled" ELSE @]
    /\ IF pump.attempt < ResendAttempts
         THEN /\ pump' = [pump EXCEPT !.pc = "try", !.attempt = @ + 1]
              /\ UNCHANGED status
         ELSE /\ pump' = [Idle EXCEPT !.pc = "run"]
              /\ status' = [status EXCEPT ![m] =
                               IF "FAILED" \in OB!Transitions[@] THEN "FAILED" ELSE @]
    /\ UNCHANGED <<sequence, nextSequence, queue, deliveredSeqs,
                   ibVars, life, linkVars, wireVars, lastReadSent, histVars>>

\* The link broke under the write: TransportError.
SendFailed ==
    /\ pump.pc = "sending"
    /\ ~ usable \/ waiter[pump.msg] = "cancelled"
    /\ NextAttempt

\* Mutant: one acknowledgement timeout is final.
AckTimeoutFinal ==
    /\ pump.pc = "waitack"
    /\ waiter[pump.msg] = "pending"
    /\ waiter' = [waiter EXCEPT ![pump.msg] = "cancelled"]
    /\ pump' = Idle
    /\ UNCHANGED <<status, sequence, nextSequence, queue, deliveredSeqs,
                   ibVars, life, linkVars, wireVars, lastReadSent, histVars>>

AckTimeout ==
    /\ pump.pc = "waitack"
    /\ waiter[pump.msg] = "pending"
    /\ NextAttempt

\* A disconnect cancelled the waiter: "resend after recovery".
WaiterCancelled ==
    /\ pump.pc = "waitack"
    /\ waiter[pump.msg] = "cancelled"
    /\ NextAttempt

\* The waiter has its result: emit the DELIVERY event, back to _pump.
DeliveryConfirmed ==
    /\ pump.pc = "waitack"
    /\ waiter[pump.msg] = "result"
    /\ reported' = reported \cup {pump.msg}
    /\ pump' = [Idle EXCEPT !.pc = "run"]
    /\ UNCHANGED <<obVars, ibVars, life, linkVars, wireVars, lastReadSent, ackHandled>>

\* _handle_ack and _handle_read_receipt.  A frame for a message this session
\* does not know (it belongs to an earlier one) changes nothing.
HandleAck ==
    /\ usable /\ ackWire # <<>>
    /\ Head(ackWire).type = "ack"
    /\ LET m == Head(ackWire).msg IN
         /\ ackHandled' = ackHandled \cup {m}
         /\ IF status[m] = "NONE" THEN UNCHANGED obVars ELSE OB!MarkDelivered(m)
    /\ ackWire' = Tail(ackWire)
    /\ UNCHANGED <<ibVars, pump, life, linkVars, msgWire, lastReadSent, reported>>

HandleReadReceipt ==
    /\ usable /\ ackWire # <<>>
    /\ Head(ackWire).type = "read"
    /\ OB!MarkReadUpTo(Head(ackWire).upTo)
    /\ ackWire' = Tail(ackWire)
    /\ UNCHANGED <<ibVars, pump, life, linkVars, msgWire, lastReadSent, histVars>>

-----------------------------------------------------------------------------
(* The receiving side. *)

\* Mutant: a message that is ahead of its turn is dropped, not buffered.
AcceptDropAhead(m) ==
    \/ IB!AcceptKnown(m)
    \/ IB!AcceptPassed(m)
    \/ IB!AcceptInOrder(m)
    \/ SequenceOf[m] > expected /\ UNCHANGED ibVars

\* Inbox.accept
Accept(m) ==
    \/ IB!AcceptKnown(m)
    \/ IB!AcceptPassed(m)
    \/ IB!AcceptInOrder(m)
    \/ IB!AcceptBuffered(m)
    \/ IB!ForceProgress(m)

\* Mutant: a frame that does not open is acknowledged like any other.
HandleMessageAckAlways ==
    /\ peerUp /\ msgWire # <<>>
    /\ LET f == Head(msgWire) IN
         /\ IF f.key = rKey THEN Accept(f.msg) ELSE UNCHANGED ibVars
         /\ ackWire' \in Forwarded(ackWire, [type |-> "ack", msg |-> f.msg])
    /\ msgWire' = Tail(msgWire)
    /\ UNCHANGED <<obVars, pump, life, linkVars, lastReadSent, histVars>>

\* _handle_message: open, accept, acknowledge whatever the verdict.  The
\* error frame that answers a failed integrity check changes no state.
HandleMessage ==
    /\ peerUp /\ msgWire # <<>>
    /\ LET f == Head(msgWire) IN
         IF f.key = rKey
           THEN /\ Accept(f.msg)
                /\ ackWire' \in Forwarded(ackWire, [type |-> "ack", msg |-> f.msg])
           ELSE UNCHANGED <<ibVars, ackWire>>
    /\ msgWire' = Tail(msgWire)
    /\ UNCHANGED <<obVars, pump, life, linkVars, lastReadSent, histVars>>

\* Mutant: starvation is relieved only once the buffer is full.
WatchdogWhenFull ==
    /\ rReady
    /\ Cardinality(DOMAIN buffer) = MaxReorderBuffer
    /\ IB!CheckStarvation
    /\ UNCHANGED <<obVars, pump, life, linkVars, wireVars, lastReadSent, histVars>>

\* _watchdog: starvation relief, while the session is ready.
Watchdog ==
    /\ rReady
    /\ IB!CheckStarvation
    /\ UNCHANGED <<obVars, pump, life, linkVars, wireVars, lastReadSent, histVars>>

\* mark_read, with ReceiptTracker.read_to_emit and note_read_sent: the cursor
\* counts as sent even if the receipt does not get through.
MarkRead ==
    /\ IB!MarkAllRead
    /\ IF highestRead' > lastReadSent /\ rReady
         THEN /\ ackWire' \in Forwarded(ackWire, [type |-> "read", upTo |-> highestRead'])
              /\ lastReadSent' = highestRead'
         ELSE UNCHANGED <<ackWire, lastReadSent>>
    /\ UNCHANGED <<obVars, pump, life, linkVars, msgWire, histVars>>

-----------------------------------------------------------------------------
(* Links, keys and restarts. *)

\* _on_connection_state(RECONNECTING) at the sender.
LinkLost ==
    /\ usable
    /\ losses.link < MaxLinkLosses /\ losses.link + losses.peer < MaxLosses
    /\ losses' = [losses EXCEPT !.link = @ + 1]
    /\ ready' = FALSE /\ usable' = FALSE
    /\ kex' = "none"
    /\ OB!OnReconnecting
    /\ msgWire' \in Prefixes(msgWire) /\ ackWire' \in Suffixes(ackWire)
    /\ UNCHANGED <<ibVars, pump, life, present, peerUp, rReady, gen, sKey, rKey,
                   lastReadSent, histVars>>

\* _on_connection_state(CONNECTED) at the sender, and the fresh handshake it
\* leads to if the peer is there (_post_reconnect at a host; a host that
\* receives "joined" starts one too).  _peer_present is not refreshed.
LinkRestored ==
    /\ ~ usable
    /\ usable' = TRUE
    /\ kex' = IF peerUp THEN "hello" ELSE "none"
    /\ rReady' = (rReady /\ (SenderIsHost \/ ~ peerUp))
    /\ UNCHANGED <<obVars, ibVars, pump, life, ready, present, peerUp, gen, sKey, rKey,
                   losses, wireVars, lastReadSent, histVars>>

\* The receiver's connection breaks; the sender hears "left" (_on_peer) if it
\* is attached itself.
PeerLost ==
    /\ peerUp
    /\ losses.peer < MaxPeerLosses /\ losses.link + losses.peer < MaxLosses
    /\ losses' = [losses EXCEPT !.peer = @ + 1]
    /\ peerUp' = FALSE /\ rReady' = FALSE
    /\ present' = (present /\ ~ usable)
    /\ kex' = "none"
    /\ msgWire' \in Suffixes(msgWire) /\ ackWire' \in Prefixes(ackWire)
    /\ UNCHANGED <<obVars, ibVars, pump, life, ready, usable, gen, sKey, rKey,
                   lastReadSent, histVars>>

\* The receiver is back; the sender hears "joined" (_on_peer) if it is
\* attached, and a host answers with _initiate_handshake, which clears its
\* _ready.
PeerBack ==
    /\ ~ peerUp
    /\ peerUp' = TRUE
    /\ present' = (present \/ usable)
    /\ kex' = IF usable THEN "hello" ELSE "none"
    /\ ready' = (ready /\ ~ SenderIsHost)
    /\ UNCHANGED <<obVars, ibVars, pump, life, usable, rReady, gen, sKey, rKey, losses,
                   wireVars, lastReadSent, histVars>>

\* _set_session with generation g, at the sender or at the receiver.
SetSession(atSender, g) ==
    IF atSender THEN sKey' = g /\ ready' = TRUE /\ UNCHANGED <<rKey, rReady>>
                ELSE rKey' = g /\ rReady' = TRUE /\ UNCHANGED <<sKey, ready>>

\* _handle_kex_hello: the guest replies and installs the new key.
HandleKexHello ==
    /\ kex = "hello" /\ Connected
    /\ gen' = gen + 1
    /\ SetSession(~ SenderIsHost, gen + 1)
    /\ kex' = "reply"
    /\ UNCHANGED <<obVars, ibVars, pump, life, present, usable, peerUp, losses, wireVars,
                   lastReadSent, histVars>>

\* _handle_kex_reply: the host follows.
HandleKexReply ==
    /\ kex = "reply" /\ Connected
    /\ SetSession(SenderIsHost, gen)
    /\ kex' = "none"
    /\ UNCHANGED <<obVars, ibVars, pump, life, present, usable, peerUp, gen, losses,
                   wireVars, lastReadSent, histVars>>

\* The sending application is closed and started again in the same room
\* (close, start): a new ChatSession, whose sequence numbers start at 1; the
\* receiver keeps its session and only refreshes the key.
Restart ==
    /\ life < Lives
    /\ life' = life + 1
    /\ status' = [m \in Ids |-> "NONE"]
    /\ waiter' = [m \in Ids |-> "none"]
    /\ queue' = <<>>
    /\ deliveredSeqs' = {}
    /\ nextSequence' = 1
    /\ pump' = Idle
    /\ ready' = FALSE /\ present' = peerUp /\ usable' = TRUE
    /\ rReady' = (rReady /\ (SenderIsHost \/ ~ peerUp))
    /\ sKey' = 0
    /\ kex' = IF peerUp THEN "hello" ELSE "none"
    /\ msgWire' \in Prefixes(msgWire) /\ ackWire' \in Suffixes(ackWire)
    /\ UNCHANGED <<sequence, ibVars, peerUp, gen, rKey, losses, lastReadSent, histVars>>

PumpStep ==
    \/ PumpTake
    \/ WaitSendable
    \/ StartSend
    \/ SendDone
    \/ SendFailed
    \/ AckTimeout
    \/ WaiterCancelled
    \/ DeliveryConfirmed

Recovery ==
    \/ LinkRestored
    \/ PeerBack
    \/ HandleKexHello
    \/ HandleKexReply

\* The pump is suspended, has ended or has not run yet.
Yielded == pump.pc \notin {"run", "try"}

Next ==
    \/ PumpStep
    \/ Yielded /\ \/ \E m \in Ids : SendMessage(m)
                  \/ HandleMessage
                  \/ HandleAck
                  \/ HandleReadReceipt
                  \/ Watchdog
                  \/ MarkRead
                  \/ LinkLost
                  \/ PeerLost
                  \/ Recovery
                  \/ Restart

Spec == Init /\ [][Next]_vars

\* The event loop runs every coroutine that can go on, timers fire, the relay
\* forwards what it holds, and a lost link is restored (the reconnect loop).
FairSpec ==
    /\ Spec
    /\ WF_vars(PumpStep)
    /\ WF_vars(Yielded /\ HandleMessage)
    /\ WF_vars(Yielded /\ (HandleAck \/ HandleReadReceipt))
    /\ WF_vars(Yielded /\ Watchdog)
    /\ WF_vars(Yielded /\ Recovery)

-----------------------------------------------------------------------------
(* Properties. *)

\* The pump sends one message at a time, and never ends while a message waits
\* for it: an idle pump means every message is settled (_ensure_pump, _pump,
\* requeue_unacked).
PumpOwnsUnsettled ==
    \A m \in Ids :
        /\ status[m] = "QUEUED" => pump.pc # "idle"
        /\ status[m] \in {"SENDING", "SENT"} =>
              pump.msg = m /\ pump.pc \in {"try", "wait", "sending", "waitack"}

\* An acknowledgement the sender handled is for a message the receiver keeps:
\* surfaced, or in the reorder buffer and surfaced later (_handle_message:
\* "only genuinely new messages are surfaced", the others were seen before).
AcknowledgedIsKept ==
    \A m \in ackHandled :
        \/ \E i \in DOMAIN delivered : delivered[i] = m
        \/ \E s \in DOMAIN buffer : buffer[s] = m

\* The sender's pump loses no message it has not settled, every counter stays
\* within its limit, and what was acknowledged is kept (_deliver,
\* _handle_message, _handle_ack).
ChatSafe == TypeOK /\ PumpOwnsUnsettled /\ AcknowledgedIsKept

\* READ means the peer's user saw it (mark_read: "Everything displayed is
\* read").
ReadMeansDisplayed ==
    \A m \in Ids : status[m] = "READ" => \E i \in DOMAIN delivered : delivered[i] = m

\* A message is given up on with the error "no delivery acknowledgement from
\* the peer" only when none was received (_deliver).
FailsOnlyUnacknowledged ==
    [][\A m \in Ids : status'[m] = "FAILED" /\ status[m] # "FAILED"
                        => m \notin ackHandled]_vars

\* Every message that is sent settles: delivered, read or reported as failed;
\* bounded resends, and no message is forgotten (_deliver).
EverySendSettles ==
    \A m \in Ids :
        (status[m] = "QUEUED") ~> (status[m] \in {"DELIVERED", "READ", "FAILED", "NONE"})

\* "The pump owns DELIVERY events": an acknowledged message is reported to the
\* user as delivered (_handle_ack).
DeliveryReported ==
    \A m \in Ids :
        (status[m] = "DELIVERED") ~> (m \in reported \/ status[m] = "READ")

\* A message reported as delivered is surfaced to the peer's user in the end,
\* even after a loss it does not know of (_watchdog, check_starvation).
DeliveredIsSurfaced ==
    \A m \in Ids :
        (status[m] = "DELIVERED") ~> (\E i \in DOMAIN delivered : delivered[i] = m)

-----------------------------------------------------------------------------
(* The conversation implements its promise (one sending session). *)

Held == {delivered[i] : i \in DOMAIN delivered} \cup {buffer[s] : s \in DOMAIN buffer}

Reported ==
    [m \in Ids |-> CASE status[m] \in {"DELIVERED", "READ"} -> "delivered"
                     [] status[m] = "FAILED" -> "failed"
                     [] OTHER -> "pending"]

Promise == INSTANCE OrderedDelivery WITH
    Msgs <- Ids, Position <- SequenceOf,
    submitted <- {m \in Ids : sequence[m] # 0}, received <- Held,
    surfaced <- delivered, outcome <- Reported

\* Every step of the sender, the wire, the receiver and the link is a step of
\* the promise or invisible to it: in order, at most once, delivered only if
\* the peer has the message (_deliver, _handle_message, _handle_ack).
KeepsPromise == Promise!Spec

=============================================================================
