------------------------------- MODULE Outbox -------------------------------
(***************************************************************************)
(* The outgoing message queue of a chat session                            *)
(* (ghostlink/messaging/queue/outbox.py) with the message lifecycle it     *)
(* enforces (ghostlink/messaging/models/message.py).                       *)
(*                                                                         *)
(* The outbox does no I/O: every method is one synchronous call, so every  *)
(* method is one action.  Text, payload and names are abstracted away: a   *)
(* message is its identifier, its sequence number and its status.          *)
(***************************************************************************)
EXTENDS Naturals, Sequences, FiniteSets

CONSTANT Ids             \* the message identifiers generate_message_id may return

ASSUME IdsFinite == IsFiniteSet(Ids)

VARIABLES
    status,        \* status[m]: lifecycle state, "NONE" while not in _messages
    sequence,      \* sequence[m]: the sequence number given at enqueue, 0 before
    nextSequence,  \* ChatSession._next_sequence
    queue,         \* _queued, the deque of identifiers
    waiter,        \* waiter[m]: the future of the latest register_ack_waiter(m)
    deliveredSeqs  \* _delivered_sequences

outboxVars == <<status, sequence, nextSequence, queue, waiter, deliveredSeqs>>

-----------------------------------------------------------------------------
(* The lifecycle. *)

Statuses == {"QUEUED", "SENDING", "SENT", "DELIVERED", "READ", "FAILED"}

\* _OUTGOING_TRANSITIONS
Transitions ==
    [s \in Statuses |->
        CASE s = "QUEUED"    -> {"SENDING", "FAILED"}
          [] s = "SENDING"   -> {"SENT", "QUEUED", "FAILED"}
          [] s = "SENT"      -> {"DELIVERED", "QUEUED", "FAILED"}
          [] s = "DELIVERED" -> {"READ"}
          [] s = "READ"      -> {}
          [] s = "FAILED"    -> {}]

Pending == {m \in Ids : status[m] \in {"QUEUED", "SENDING", "SENT"}}

\* A future is "pending" while it sits in _ack_waiters; "result" and
\* "cancelled" are its outcomes, "none" means no future was ever created.
WaiterStates == {"none", "pending", "result", "cancelled"}

Slots(q) == {q[k] : k \in DOMAIN q}

OutboxTypeOK ==
    /\ status \in [Ids -> Statuses \cup {"NONE"}]
    /\ sequence \in [Ids -> Nat]
    /\ nextSequence \in Nat \ {0}
    /\ queue \in Seq(Ids)
    /\ waiter \in [Ids -> WaiterStates]
    /\ deliveredSeqs \subseteq Nat

OutboxInit ==
    /\ status = [m \in Ids |-> "NONE"]
    /\ sequence = [m \in Ids |-> 0]
    /\ nextSequence = 1
    /\ queue = <<>>
    /\ waiter = [m \in Ids |-> "none"]
    /\ deliveredSeqs = {}

-----------------------------------------------------------------------------
(* Operations. *)

\* send_message + enqueue: a freshly generated identifier (never seen before,
\* so never refused as a duplicate) takes the next sequence number.
Enqueue(m) ==
    /\ sequence[m] = 0
    /\ status' = [status EXCEPT ![m] = "QUEUED"]
    /\ sequence' = [sequence EXCEPT ![m] = nextSequence]
    /\ nextSequence' = nextSequence + 1
    /\ queue' = Append(queue, m)
    /\ UNCHANGED <<waiter, deliveredSeqs>>

\* The index of the first slot whose message is still QUEUED.
FirstLive(k) ==
    /\ k \in 1..Len(queue)
    /\ status[queue[k]] = "QUEUED"
    /\ \A j \in 1..(k - 1) : status[queue[j]] # "QUEUED"

\* next_queued: stale slots are popped and skipped.
NextQueued(m) ==
    \E k \in 1..Len(queue) :
        /\ FirstLive(k)
        /\ queue[k] = m
        /\ queue' = SubSeq(queue, k + 1, Len(queue))
        /\ status' = [status EXCEPT ![m] = "SENDING"]
        /\ UNCHANGED <<sequence, nextSequence, waiter, deliveredSeqs>>

\* next_queued returning None: only stale slots were left, all are popped.
NothingQueued ==
    /\ \A k \in 1..Len(queue) : status[queue[k]] # "QUEUED"
    /\ queue' = <<>>
    /\ UNCHANGED <<status, sequence, nextSequence, waiter, deliveredSeqs>>

\* restore: a SENDING message goes back to the head of the queue.
Restore(m) ==
    /\ status[m] = "SENDING"
    /\ status' = [status EXCEPT ![m] = "QUEUED"]
    /\ queue' = <<m>> \o queue
    /\ UNCHANGED <<sequence, nextSequence, waiter, deliveredSeqs>>

\* Mutant: the roll-back no longer looks at the status.
ToQueuedAlways(m) ==
    /\ status[m] \in {"QUEUED", "SENDING", "SENT"}
    /\ status' = [status EXCEPT ![m] = "QUEUED"]
    /\ queue' = <<m>> \o queue
    /\ UNCHANGED <<sequence, nextSequence, waiter, deliveredSeqs>>

\* to_queued: the same for a message that is SENDING or SENT.
ToQueued(m) ==
    /\ status[m] \in {"SENDING", "SENT"}
    /\ status' = [status EXCEPT ![m] = "QUEUED"]
    /\ queue' = <<m>> \o queue
    /\ UNCHANGED <<sequence, nextSequence, waiter, deliveredSeqs>>

\* The (one) listing of the messages of P by ascending sequence number.
SortedBySequence(P) ==
    {q \in UNION {[1..n -> P] : n \in 0..Cardinality(P)} :
        /\ P \subseteq Slots(q)
        /\ \A i, j \in DOMAIN q : i < j => sequence[q[i]] < sequence[q[j]]}

\* Mutant: the rebuilt queue holds the in-flight messages only.
RequeueInFlightOnly ==
    /\ status' = [m \in Ids |-> IF m \in Pending THEN "QUEUED" ELSE status[m]]
    /\ \E q \in SortedBySequence({m \in Pending : status[m] # "QUEUED"}) : queue' = q
    /\ UNCHANGED <<sequence, nextSequence, deliveredSeqs>>

\* requeue_unacked: every unsettled message is QUEUED again and the queue is
\* rebuilt from them in ascending sequence order.
RequeueUnacked ==
    /\ status' = [m \in Ids |-> IF m \in Pending THEN "QUEUED" ELSE status[m]]
    /\ \E q \in SortedBySequence(Pending) : queue' = q
    /\ UNCHANGED <<sequence, nextSequence, deliveredSeqs>>

\* resolve_ack_waiters_on_disconnect
WaitersCancelled ==
    [m \in Ids |-> IF waiter[m] = "pending" THEN "cancelled" ELSE waiter[m]]

\* ChatSession._on_connection_state(RECONNECTING), the outbox part.
OnReconnecting ==
    /\ RequeueUnacked
    /\ waiter' = WaitersCancelled

\* mark_sent: anything but SENDING is left alone (the ack may have won).
SentStatus(m) == IF status[m] = "SENDING" THEN "SENT" ELSE status[m]

MarkSent(m) ==
    /\ status[m] # "NONE"
    /\ status' = [status EXCEPT ![m] = SentStatus(m)]
    /\ UNCHANGED <<sequence, nextSequence, queue, waiter, deliveredSeqs>>

\* mark_delivered: SENDING is chained through SENT; QUEUED -> DELIVERED is an
\* illegal move, which _transition turns into None: nothing changes and the
\* waiter stays pending.
AckLands(m) == status[m] \in {"SENDING", "SENT"}

Resolved(m) == IF waiter[m] = "pending" THEN "result" ELSE waiter[m]

\* Mutant: the sequence number is recorded before the transition is validated.
MarkDeliveredEarly(m) ==
    /\ status[m] # "NONE"
    /\ deliveredSeqs' = deliveredSeqs \cup {sequence[m]}
    /\ IF AckLands(m)
         THEN /\ status' = [status EXCEPT ![m] = "DELIVERED"]
              /\ waiter' = [waiter EXCEPT ![m] = Resolved(m)]
         ELSE UNCHANGED <<status, waiter>>
    /\ UNCHANGED <<sequence, nextSequence, queue>>

MarkDelivered(m) ==
    /\ status[m] # "NONE"
    /\ IF AckLands(m)
         THEN /\ status' = [status EXCEPT ![m] = "DELIVERED"]
              /\ waiter' = [waiter EXCEPT ![m] = Resolved(m)]
              /\ deliveredSeqs' = deliveredSeqs \cup {sequence[m]}
         ELSE UNCHANGED <<status, waiter, deliveredSeqs>>
    /\ UNCHANGED <<sequence, nextSequence, queue>>

\* mark_read_up_to: a cumulative read receipt.
MarkReadUpTo(c) ==
    /\ status' = [m \in Ids |-> IF status[m] = "DELIVERED" /\ sequence[m] <= c
                                  THEN "READ" ELSE status[m]]
    /\ UNCHANGED <<sequence, nextSequence, queue, waiter, deliveredSeqs>>

\* Mutant: giving up overrides an acknowledgement that already landed.
MarkFailedAlways(m) ==
    /\ status[m] # "NONE"
    /\ status' = [status EXCEPT ![m] = "FAILED"]
    /\ waiter' = [waiter EXCEPT ![m] = Resolved(m)]
    /\ UNCHANGED <<sequence, nextSequence, queue, deliveredSeqs>>

\* mark_failed: legal from QUEUED, SENDING and SENT only.
MarkFailed(m) ==
    /\ status[m] # "NONE"
    /\ IF "FAILED" \in Transitions[status[m]]
         THEN /\ status' = [status EXCEPT ![m] = "FAILED"]
              /\ waiter' = [waiter EXCEPT ![m] = Resolved(m)]
         ELSE UNCHANGED <<status, waiter>>
    /\ UNCHANGED <<sequence, nextSequence, queue, deliveredSeqs>>

\* register_ack_waiter: a fresh future replaces the previous one.
RegisterAckWaiter(m) ==
    /\ status[m] # "NONE"
    /\ waiter' = [waiter EXCEPT ![m] = "pending"]
    /\ UNCHANGED <<status, sequence, nextSequence, queue, deliveredSeqs>>

\* drop_ack_waiter
DropAckWaiter(m) ==
    /\ waiter' = [waiter EXCEPT ![m] = IF @ = "pending" THEN "cancelled" ELSE @]
    /\ UNCHANGED <<status, sequence, nextSequence, queue, deliveredSeqs>>

\* clear: called once, by ChatSession.close; the messages are forgotten.
Clear ==
    /\ status' = [m \in Ids |-> "NONE"]
    /\ queue' = <<>>
    /\ waiter' = WaitersCancelled
    /\ deliveredSeqs' = {}
    /\ UNCHANGED <<sequence, nextSequence>>

OutboxNext ==
    \/ \E m \in Ids :
          \/ Enqueue(m)
          \/ NextQueued(m)
          \/ Restore(m)
          \/ ToQueued(m)
          \/ MarkSent(m)
          \/ MarkDelivered(m)
          \/ MarkFailed(m)
          \/ RegisterAckWaiter(m)
          \/ DropAckWaiter(m)
    \/ \E c \in 0..(nextSequence - 1) : MarkReadUpTo(c)
    \/ NothingQueued
    \/ OnReconnecting
    \/ Clear

OutboxSpec == OutboxInit /\ [][OutboxNext]_outboxVars

-----------------------------------------------------------------------------
(* Properties. *)

\* No message is stranded: whatever mix of resends, roll-backs, disconnects
\* and failures happened, a QUEUED message still has a slot that next_queued
\* will reach (outbox.py next_queued / requeue_unacked / to_queued).
NoStrandedMessage ==
    \A m \in Ids : status[m] = "QUEUED" => m \in Slots(queue)

\* "Requeued messages keep one queue slot" (next_queued): a message occupies
\* at most one slot, and none at all once it is in flight or acknowledged, so
\* the pump cannot pick one message twice.
OneSlotPerMessage ==
    /\ \A i, j \in DOMAIN queue : queue[i] = queue[j] => i = j
    /\ \A m \in Slots(queue) : status[m] \in {"QUEUED", "FAILED"}

\* The sequences reported as delivered are exactly those of the messages that
\* are DELIVERED or READ: an acknowledgement that is refused (the message was
\* requeued or failed meanwhile) leaves no trace (mark_delivered).
DeliveredSequencesExact ==
    deliveredSeqs = {sequence[m] : m \in {n \in Ids : status[n] \in {"DELIVERED", "READ"}}}

\* The queue of an outbox is sound, whatever calls came in whatever order: no
\* message is stranded, none is queued twice, and the delivered sequences are
\* exactly those acknowledged (outbox.py).
OutboxSafe == NoStrandedMessage /\ OneSlotPerMessage /\ DeliveredSequencesExact

\* No call, in any order, moves a message against _OUTGOING_TRANSITIONS; the
\* one chained move is SENDING -> SENT -> DELIVERED when the ack wins the race
\* with mark_sent, and only clear forgets a message.
LifecycleStep ==
    \A m \in Ids :
        \/ status'[m] = status[m]
        \/ status[m] = "NONE" /\ status'[m] = "QUEUED"
        \/ status[m] # "NONE" /\ status'[m] \in Transitions[status[m]]
        \/ status[m] = "SENDING" /\ status'[m] = "DELIVERED"
        \/ \A n \in Ids : status'[n] = "NONE"

LifecycleRespected == [][LifecycleStep]_outboxVars

=============================================================================
