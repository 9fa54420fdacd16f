------------------------------- MODULE Inbox -------------------------------
(***************************************************************************)
(* The incoming message queue of a chat session                            *)
(* (ghostlink/messaging/queue/inbox.py): ordering, duplicate detection, the*)
(* bounded reorder buffer and its two ways of making progress.             *)
(*                                                                         *)
(* Every method is one synchronous call.  A message is its identifier; the *)
(* sequence number its sender gave it is SequenceOf[m].  Two identifiers   *)
(* may carry one sequence number: a peer that restarts counts from 1 again.*)
(* Whether the reorder window has elapsed is left open, so CheckStarvation *)
(* may fire whenever something is buffered.                                *)
(***************************************************************************)
EXTENDS Naturals, Sequences, FiniteSets

CONSTANTS
    InboxIds,          \* identifiers of the messages the peer may send
    SequenceOf,        \* SequenceOf[m]: the sequence number of m
    MaxReorderBuffer,  \* MAX_REORDER_BUFFER
    MaxSeenIds         \* MAX_SEEN_IDS

ASSUME InboxConstants ==
    /\ SequenceOf \in [InboxIds -> Nat \ {0}]
    /\ MaxReorderBuffer \in Nat \ {0}
    /\ MaxSeenIds \in Nat \ {0}

VARIABLES
    expected,     \* _expected_sequence
    buffer,       \* _buffer: from sequence numbers to messages
    seen,         \* _seen_ids, oldest first
    delivered,    \* _delivered
    unread,       \* _unread_count
    highestRead,  \* _highest_read_sequence
    verdict       \* the verdict accept returned last, "none" before

inboxVars == <<expected, buffer, seen, delivered, unread, highestRead, verdict>>

Verdicts == {"deliver", "buffered", "duplicate"}

InboxTypeOK ==
    /\ expected \in Nat \ {0}
    /\ DOMAIN buffer \subseteq Nat \ {0}
    /\ buffer \in [DOMAIN buffer -> InboxIds]
    /\ seen \in Seq(InboxIds)
    /\ Len(seen) <= MaxSeenIds
    /\ delivered \in Seq(InboxIds)
    /\ unread \in Nat
    /\ highestRead \in Nat
    /\ verdict \in Verdicts \cup {"none"}

InboxInit ==
    /\ expected = 1
    /\ buffer = [s \in {} |-> 0]
    /\ seen = <<>>
    /\ delivered = <<>>
    /\ unread = 0
    /\ highestRead = 0
    /\ verdict = "none"

-----------------------------------------------------------------------------
(* Helpers. *)

\* highest_sequence_seen: buffered messages count as seen.
HighestSequenceSeen(h) ==
    /\ h \in {expected - 1} \cup DOMAIN buffer
    /\ \A s \in {expected - 1} \cup DOMAIN buffer : s <= h

Seen(m) == \E k \in DOMAIN seen : seen[k] = m

\* Mutant: the eviction test is off by one.
RememberUnbounded(m) ==
    seen' = IF Len(seen) > MaxSeenIds THEN Append(Tail(seen), m)
                                      ELSE Append(seen, m)

\* _remember: the oldest identifier makes room for the newest.
Remember(m) ==
    seen' = IF Len(seen) = MaxSeenIds THEN Append(Tail(seen), m)
                                      ELSE Append(seen, m)

\* Mutant: drained messages stay in the buffer.
DeliverAndKeep(base, b, e) ==
    \E k \in e..(e + Cardinality(DOMAIN b)) :
        /\ e..(k - 1) \subseteq DOMAIN b
        /\ k \notin DOMAIN b
        /\ expected' = k
        /\ buffer' = b
        /\ delivered' = base \o [i \in 1..(k - e) |-> b[e + i - 1]]
        /\ unread' = unread + (Len(delivered') - Len(delivered))

\* _drain_contiguous and _mark_delivered: the run of buffered messages that
\* starts at e follows base; k is the first missing number.
Deliver(base, b, e) ==
    \E k \in e..(e + Cardinality(DOMAIN b)) :
        /\ e..(k - 1) \subseteq DOMAIN b
        /\ k \notin DOMAIN b
        /\ expected' = k
        /\ buffer' = [s \in DOMAIN b \ (e..(k - 1)) |-> b[s]]
        /\ delivered' = base \o [i \in 1..(k - e) |-> b[e + i - 1]]
        /\ unread' = unread + (Len(delivered') - Len(delivered))

\* self._buffer[message.sequence] = message: a key already there is replaced.
Held(m) ==
    [s \in DOMAIN buffer \cup {SequenceOf[m]} |->
        IF s = SequenceOf[m] THEN m ELSE buffer[s]]

IsOldest(s, b) == s \in DOMAIN b /\ \A t \in DOMAIN b : s <= t

-----------------------------------------------------------------------------
(* accept, by the order of its tests. *)

\* The identifier is known: dropped, and not moved to the end of _seen_ids.
AcceptKnown(m) ==
    /\ Seen(m)
    /\ verdict' = "duplicate"
    /\ UNCHANGED <<expected, buffer, seen, delivered, unread, highestRead>>

\* The sequence number was passed already.
AcceptPassed(m) ==
    /\ ~ Seen(m)
    /\ SequenceOf[m] < expected
    /\ Remember(m)
    /\ verdict' = "duplicate"
    /\ UNCHANGED <<expected, buffer, delivered, unread, highestRead>>

\* Mutant: a late duplicate of a consumed sequence number is delivered again.
AcceptInOrderOrLate(m) ==
    /\ ~ Seen(m)
    /\ SequenceOf[m] <= expected
    /\ Remember(m)
    /\ Deliver(Append(delivered, m), buffer, expected + 1)
    /\ verdict' = "deliver"
    /\ UNCHANGED highestRead

AcceptInOrder(m) ==
    /\ ~ Seen(m)
    /\ SequenceOf[m] = expected
    /\ Remember(m)
    /\ Deliver(Append(delivered, m), buffer, expected + 1)
    /\ verdict' = "deliver"
    /\ UNCHANGED highestRead

\* Mutant: the buffer is fast-forwarded before it is full.
AcceptBufferedEagerly(m) ==
    /\ ~ Seen(m)
    /\ SequenceOf[m] > expected
    /\ Cardinality(DOMAIN buffer) < MaxReorderBuffer
    /\ Remember(m)
    /\ \E e \in DOMAIN Held(m) : IsOldest(e, Held(m)) /\ Deliver(delivered, Held(m), e)
    /\ verdict' = "deliver"
    /\ UNCHANGED highestRead

AcceptBuffered(m) ==
    /\ ~ Seen(m)
    /\ SequenceOf[m] > expected
    /\ Cardinality(DOMAIN buffer) < MaxReorderBuffer
    /\ Remember(m)
    /\ buffer' = Held(m)
    /\ verdict' = "buffered"
    /\ UNCHANGED <<expected, delivered, unread, highestRead>>

\* _force_progress: the buffer is full, jump to its oldest message.
ForceProgress(m) ==
    /\ ~ Seen(m)
    /\ SequenceOf[m] > expected
    /\ Cardinality(DOMAIN buffer) >= MaxReorderBuffer
    /\ Remember(m)
    /\ \E e \in DOMAIN Held(m) : IsOldest(e, Held(m)) /\ Deliver(delivered, Held(m), e)
    /\ verdict' = "deliver"
    /\ UNCHANGED highestRead

\* Mutant: starvation relief advances the cursor and drains nothing.
CheckStarvationNoDrain ==
    /\ DOMAIN buffer # {}
    /\ \E e \in DOMAIN buffer : IsOldest(e, buffer) /\ expected' = e
    /\ UNCHANGED <<buffer, seen, delivered, unread, highestRead, verdict>>

\* check_starvation, once the reorder window of the oldest message elapsed
\* (max(expected, oldest) is the oldest: nothing below expected is buffered).
CheckStarvation ==
    /\ \E e \in DOMAIN buffer :
          /\ IsOldest(e, buffer)
          /\ Deliver(delivered, buffer, IF e > expected THEN e ELSE expected)
    /\ UNCHANGED <<seen, highestRead, verdict>>

MarkAllRead ==
    /\ unread' = 0
    /\ \E h \in {expected - 1} \cup DOMAIN buffer :
          /\ HighestSequenceSeen(h)
          /\ highestRead' = IF h > highestRead THEN h ELSE highestRead
    /\ UNCHANGED <<expected, buffer, seen, delivered, verdict>>

ClearInbox ==
    /\ expected' = 1
    /\ buffer' = [s \in {} |-> 0]
    /\ seen' = <<>>
    /\ delivered' = <<>>
    /\ unread' = 0
    /\ highestRead' = 0
    /\ UNCHANGED verdict

InboxNext ==
    \/ \E m \in InboxIds :
          \/ AcceptKnown(m)
          \/ AcceptPassed(m)
          \/ AcceptInOrder(m)
          \/ AcceptBuffered(m)
          \/ ForceProgress(m)
    \/ CheckStarvation
    \/ MarkAllRead
    \/ ClearInbox

InboxSpec == InboxInit /\ [][InboxNext]_inboxVars

\* The session's watchdog calls check_starvation every second, and the window
\* of a message that stays buffered elapses.
InboxFairSpec == InboxSpec /\ WF_inboxVars(CheckStarvation)

-----------------------------------------------------------------------------
(* Properties. *)

\* "A strictly ordered, duplicate-free stream of deliverable messages": the
\* delivered sequence numbers ascend strictly, whatever was lost, resent,
\* reordered, forgotten by the bounded LRU or skipped (accept,
\* check_starvation, _force_progress).
StrictlyOrdered ==
    \A i, j \in DOMAIN delivered :
        i < j => SequenceOf[delivered[i]] < SequenceOf[delivered[j]]

\* The buffer holds only what is still to come, under its own number, and no
\* more than MAX_REORDER_BUFFER of it: nothing buffered is unreachable for
\* the drain or delivered already (_drain_contiguous, _force_progress).
BufferAhead ==
    /\ \A s \in DOMAIN buffer : s > expected /\ SequenceOf[buffer[s]] = s
    /\ \A i \in DOMAIN delivered : SequenceOf[delivered[i]] < expected
    /\ Cardinality(DOMAIN buffer) <= MaxReorderBuffer

\* The inbox surfaces a strictly ascending stream out of a bounded buffer that
\* holds only what is still to come, with a bounded memory of identifiers
\* (inbox.py).
InboxSafe == InboxTypeOK /\ StrictlyOrdered /\ BufferAhead

\* A sequence number is given up on only by the two jumps the code logs: when
\* the cursor advances by more than was delivered, the buffer was full or no
\* message was being accepted (accept: "the jump is logged, never silent").
SkipStep ==
    expected' + Len(delivered) > expected + Len(delivered')
        => Cardinality(DOMAIN buffer) = MaxReorderBuffer \/ seen' = seen

NoSilentSkip == [][SkipStep]_inboxVars

\* "A starvation timeout guarantees progress even after unrecoverable loss":
\* a buffered message does not stay buffered for ever (check_starvation).
BufferDrains ==
    \A m \in InboxIds :
        (SequenceOf[m] \in DOMAIN buffer) ~> (SequenceOf[m] \notin DOMAIN buffer)

=============================================================================
