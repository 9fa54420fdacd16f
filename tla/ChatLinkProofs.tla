-------------------------- MODULE ChatLinkProofs ---------------------------
(***************************************************************************)
(* A conversation over a failing link, for every number of messages,       *)
(* losses, resends, key changes and restarts of the sending application.   *)
(*                                                                         *)
(* LinkInv is inductive: the outbox with the pump (SenderInv), the inbox   *)
(* with its reorder buffer (ReceiverInv), and the types of links and wires. *)
(* The pump never leaves an unsettled message behind.                      *)
(***************************************************************************)
EXTENDS ChatLink, Integers, TLAPS

\* _deliver is at work on a message.
Busy == pump.pc \in {"try", "wait", "sending", "waitack"}

\* A waiter has its result only for a message that was acknowledged.
ResultMeansLanded ==
    \A m \in Ids : waiter[m] = "result" => status[m] \in {"DELIVERED", "READ"}

\* A message without a sequence number has never been in the outbox.
UnnumberedIsNew == \A m \in Ids : sequence[m] = 0 => status[m] = "NONE"

\* The pump, and what it has in hand.
PumpStates ==
    [pc : {"idle", "start", "run", "try", "wait", "sending", "waitack"},
     msg : Ids \cup {NoMessage}, attempt : 0..ResendAttempts]

\* The types of the outbox and of the pump.
SenderTypes ==
    /\ status \in [Ids -> OB!Statuses \cup {"NONE"}] /\ sequence \in [Ids -> Nat]
    /\ nextSequence \in Nat \ {0} /\ queue \in Seq(Ids)
    /\ waiter \in [Ids -> OB!WaiterStates] /\ deliveredSeqs \subseteq Nat /\ pump \in PumpStates

\* The frames that carry messages.
MsgFrames == [msg : Ids, key : Nat]

\* The frames that travel back.
AckFrames == [type : {"ack"}, msg : Ids] \cup [type : {"read"}, upTo : Nat]

\* The sender: outbox and pump.
SenderInv ==
    /\ OB!OutboxTypeOK
    /\ pump \in PumpStates
    /\ PumpOwnsUnsettled
    /\ Busy => pump.msg \in Ids /\ status[pump.msg] # "NONE"
    /\ OB!NoStrandedMessage
    /\ ResultMeansLanded
    /\ UnnumberedIsNew

\* A stream that may be delivered next, up to (excluding) the number e.
Below(d, e) ==
    /\ d \in Seq(Ids)
    /\ \A i, j \in DOMAIN d : i < j => SequenceOf[d[i]] < SequenceOf[d[j]]
    /\ \A i \in DOMAIN d : SequenceOf[d[i]] < e

\* A reorder buffer whose entries sit under their own numbers, from e on.
From(b, e) ==
    /\ DOMAIN b \subseteq Nat \ {0}
    /\ b \in [DOMAIN b -> Ids]
    /\ \A s \in DOMAIN b : SequenceOf[b[s]] = s /\ s >= e

\* The cursor e passed the last message of the stream d, not more.
EndsAt(d, e) == e > 1 => \E i \in DOMAIN d : SequenceOf[d[i]] = e - 1

\* The messages of a stream.
Shown(d) == {d[i] : i \in DOMAIN d}

\* The messages of a reorder buffer.
Kept(b) == {b[s] : s \in DOMAIN b}

\* A stream that only grew.
Grown(c, d) == Len(c) <= Len(d) /\ \A i \in 1..Len(c) : d[i] = c[i]

\* The receiver: what it surfaced lies below the cursor, what it buffers above.
ReceiverInv ==
    /\ IB!InboxTypeOK
    /\ Below(delivered, expected)
    /\ From(buffer, expected + 1)
    /\ EndsAt(delivered, expected)

\* A wire that lost frames at its ends, and nothing in between.
PartOf(v, w) == \E o \in Nat : \A i \in DOMAIN v : i + o \in DOMAIN w /\ v[i] = w[i + o]

\* The types of links, keys, wires and histories.
LinkTypes ==
    /\ life \in 1..Lives
    /\ ready \in BOOLEAN /\ present \in BOOLEAN /\ usable \in BOOLEAN
    /\ peerUp \in BOOLEAN /\ rReady \in BOOLEAN
    /\ kex \in {"none", "hello", "reply"}
    /\ gen \in Nat /\ sKey \in Nat /\ rKey \in Nat
    /\ losses \in [link : 0..MaxLinkLosses, peer : 0..MaxPeerLosses]

\* The types of what travels, and of what was answered.
WireTypes ==
    /\ msgWire \in Seq(MsgFrames)
    /\ ackWire \in Seq(AckFrames)
    /\ lastReadSent \in Nat
    /\ ackHandled \subseteq Ids /\ reported \subseteq Ids

-----------------------------------------------------------------------------
(* Constants. *)

\* Messages carry positive numbers.
LEMMA NumberType == SequenceOf \in [Ids -> Nat \ {0}]
BY ChatLinkConstants DEF SequenceOf, Ids

\* The number of the message that is submitted next.
LEMMA NumberOfNext ==
    ASSUME NEW m \in Ids, NEW l, NEW n, m = <<l, n>>
    PROVE  SequenceOf[m] = n /\ l \in 1..Lives
BY DEF SequenceOf, Ids

\* In one sending session a number belongs to one message.
LEMMA NumberIsUnique ==
    ASSUME Lives = 1, NEW m \in Ids, NEW n \in Ids, SequenceOf[m] = SequenceOf[n]
    PROVE  m = n
BY DEF SequenceOf, Ids

\* No message is the one that stands for none.
LEMMA NoMessageIsNone == NoMessage \notin Ids
BY DEF NoMessage, Ids

\* Which messages may still fail (_OUTGOING_TRANSITIONS).
LEMMA FailsFrom ==
    ASSUME NEW s \in OB!Statuses
    PROVE  "FAILED" \in OB!Transitions[s] <=> s \in {"QUEUED", "SENDING", "SENT"}
BY DEF OB!Transitions, OB!Statuses

\* The slots of a queue that grows at its end, and of one that lost its first k.
LEMMA AppendedSlots ==
    ASSUME NEW q \in Seq(Ids), NEW m \in Ids
    PROVE  OB!Slots(Append(q, m)) = OB!Slots(q) \cup {m}
<1> DEFINE r == Append(q, m)
<1>1. /\ Len(q) \in Nat /\ DOMAIN q = 1..Len(q) /\ DOMAIN r = 1..(Len(q) + 1)
      /\ r[Len(q) + 1] = m /\ \A k \in 1..Len(q) : r[k] = q[k]
  OBVIOUS
<1> HIDE DEF r
<1>2. \A k \in DOMAIN r : r[k] \in OB!Slots(q) \cup {m}
  BY <1>1 DEF OB!Slots
<1>3. m \in OB!Slots(r) /\ \A k \in DOMAIN q : q[k] \in OB!Slots(r)
  BY <1>1 DEF OB!Slots
<1>4. OB!Slots(r) = OB!Slots(q) \cup {m}
  BY <1>2, <1>3 DEF OB!Slots
<1> QED BY <1>4 DEF r

\* What is left of a queue when its first k slots are popped.
LEMMA DroppedSlots ==
    ASSUME NEW q \in Seq(Ids), NEW k \in 1..Len(q)
    PROVE  /\ SubSeq(q, k + 1, Len(q)) \in Seq(Ids)
           /\ \A j \in 1..Len(q) : j > k => q[j] \in OB!Slots(SubSeq(q, k + 1, Len(q)))
<1> DEFINE r == SubSeq(q, k + 1, Len(q))
<1>1. /\ Len(q) \in Nat /\ r \in Seq(Ids) /\ DOMAIN r = 1..(Len(q) - k)
      /\ \A i \in 1..(Len(q) - k) : r[i] = q[k + i]
  OBVIOUS
<1> HIDE DEF r
<1>2. ASSUME NEW j \in 1..Len(q), j > k
      PROVE  q[j] \in OB!Slots(r)
  <2>1. j - k \in DOMAIN r /\ r[j - k] = q[k + (j - k)] /\ k + (j - k) = j
    BY <1>1, <1>2
  <2> QED BY <2>1 DEF OB!Slots
<1> QED BY <1>1, <1>2 DEF r

\* A listing by sequence number lists every message, in ascending order.
LEMMA SortedListing ==
    ASSUME NEW P \in SUBSET Ids, NEW q \in OB!SortedBySequence(P)
    PROVE  /\ q \in Seq(Ids) /\ P \subseteq OB!Slots(q)
           /\ \A i \in DOMAIN q : q[i] \in P
           /\ \A i, j \in DOMAIN q : i < j => sequence[q[i]] < sequence[q[j]]
<1>1. PICK n \in Nat : q \in [1..n -> P]
  BY DEF OB!SortedBySequence
<1>2. q \in Seq(Ids) /\ \A i \in DOMAIN q : q[i] \in P
  BY <1>1
<1>3. /\ P \subseteq OB!Slots(q)
      /\ \A i, j \in DOMAIN q : i < j => sequence[q[i]] < sequence[q[j]]
  BY DEF OB!SortedBySequence
<1> QED BY <1>2, <1>3

-----------------------------------------------------------------------------
(* The sender. *)

\* The types, taken out of the invariant.
LEMMA SenderTyped == SenderInv => SenderTypes
BY DEF SenderInv, SenderTypes, OB!OutboxTypeOK

\* send_message.
LEMMA SendMessageKeeps ==
    ASSUME SenderInv, NEW m \in Ids, SendMessage(m)
    PROVE  SenderInv'
<1>1. /\ sequence[m] = 0
      /\ status' = [status EXCEPT ![m] = "QUEUED"]
      /\ sequence' = [sequence EXCEPT ![m] = nextSequence]
      /\ nextSequence' = nextSequence + 1
      /\ queue' = Append(queue, m)
      /\ waiter' = waiter /\ deliveredSeqs' = deliveredSeqs
      /\ pump' = IF pump.pc = "idle" THEN [pump EXCEPT !.pc = "start"] ELSE pump
  BY DEF SendMessage, OB!Enqueue
<1>2. SenderTypes
  BY SenderTyped
<1>3. /\ status' \in [Ids -> OB!Statuses \cup {"NONE"}] /\ sequence' \in [Ids -> Nat]
      /\ nextSequence' \in Nat \ {0} /\ queue' \in Seq(Ids)
  BY <1>1, <1>2 DEF SenderTypes, OB!Statuses
<1>4. OB!OutboxTypeOK'
  BY <1>1, <1>2, <1>3, Zenon DEF SenderTypes, OB!OutboxTypeOK
<1>5. pump' \in PumpStates /\ pump'.msg = pump.msg /\ pump'.pc # "idle"
      /\ (pump'.pc # pump.pc => pump.pc = "idle" /\ pump'.pc = "start")
  BY <1>1, <1>2, Zenon DEF SenderTypes, PumpStates
<1>6. PumpOwnsUnsettled'
  <2> SUFFICES ASSUME NEW n \in Ids
               PROVE  /\ status'[n] = "QUEUED" => pump'.pc # "idle"
                      /\ status'[n] \in {"SENDING", "SENT"} =>
                           pump'.msg = n /\ pump'.pc \in {"try", "wait", "sending", "waitack"}
    BY DEF PumpOwnsUnsettled
  <2>1. status'[n] = "QUEUED" \/ status'[n] = status[n]
    BY <1>1, <1>2 DEF SenderTypes
  <2>2. status[n] \in {"SENDING", "SENT"} =>
            pump.msg = n /\ pump.pc \in {"try", "wait", "sending", "waitack"}
    BY DEF SenderInv, PumpOwnsUnsettled
  <2> QED BY <1>5, <2>1, <2>2
<1>7. (Busy => pump.msg \in Ids /\ status[pump.msg] # "NONE")'
  BY <1>1, <1>2, <1>5 DEF SenderTypes, SenderInv, Busy
<1>8. OB!NoStrandedMessage'
  <2>1. OB!Slots(queue') = OB!Slots(queue) \cup {m}
    BY <1>1, <1>2, AppendedSlots DEF SenderTypes
  <2> QED BY <1>1, <1>2, <2>1 DEF SenderTypes, SenderInv, OB!NoStrandedMessage
<1>9. ResultMeansLanded' /\ UnnumberedIsNew'
  BY <1>1, <1>2 DEF SenderTypes, SenderInv, ResultMeansLanded, UnnumberedIsNew
<1> QED BY <1>4, <1>5, <1>6, <1>7, <1>8, <1>9 DEF SenderInv

\* _pump takes the next message, or returns.
LEMMA PumpTakeKeeps ==
    ASSUME SenderInv, PumpTake
    PROVE  SenderInv'
<1>1. SenderTypes /\ pump.pc \in {"start", "run"}
  BY SenderTyped DEF PumpTake
<1>2. \A n \in Ids : status[n] \notin {"SENDING", "SENT"}
  BY <1>1 DEF SenderInv, PumpOwnsUnsettled
<1>3. CASE \E m \in Ids : OB!NextQueued(m) /\ pump' = [pc |-> "try", msg |-> m, attempt |-> 1]
  <2>1. PICK m \in Ids : OB!NextQueued(m) /\ pump' = [pc |-> "try", msg |-> m, attempt |-> 1]
    BY <1>3
  <2>2. PICK k \in 1..Len(queue) :
            /\ OB!FirstLive(k) /\ queue[k] = m
            /\ queue' = SubSeq(queue, k + 1, Len(queue))
            /\ status' = [status EXCEPT ![m] = "SENDING"]
            /\ UNCHANGED <<sequence, nextSequence, waiter, deliveredSeqs>>
    BY <2>1 DEF OB!NextQueued
  <2>3. queue' \in Seq(Ids) /\ \A j \in 1..Len(queue) : j > k => queue[j] \in OB!Slots(queue')
    BY <1>1, <2>2, DroppedSlots, ZenonT(30) DEF SenderTypes
  <2>4. /\ pump' \in PumpStates /\ pump'.pc = "try" /\ pump'.msg = m
    BY <2>1, ChatLinkConstants DEF PumpStates
  <2>5. OB!OutboxTypeOK'
    BY <1>1, <2>2, <2>3, Zenon DEF SenderTypes, OB!OutboxTypeOK, OB!Statuses
  <2>6. status'[m] = "SENDING" /\ \A n \in Ids \ {m} : status'[n] = status[n]
    BY <1>1, <2>2 DEF SenderTypes
  <2>7. PumpOwnsUnsettled'
    BY <1>2, <2>4, <2>6 DEF PumpOwnsUnsettled
  <2>8. (Busy => pump.msg \in Ids /\ status[pump.msg] # "NONE")'
    BY <2>4, <2>6 DEF Busy
  <2>9. OB!NoStrandedMessage'
    <3> SUFFICES ASSUME NEW n \in Ids, status'[n] = "QUEUED"
                 PROVE  n \in OB!Slots(queue')
      BY DEF OB!NoStrandedMessage
    <3>1. n # m /\ status[n] = "QUEUED"
      BY <2>6
    <3>2. PICK j \in 1..Len(queue) : queue[j] = n
      BY <1>1, <3>1 DEF SenderInv, SenderTypes, OB!NoStrandedMessage, OB!Slots
    <3>3. j > k
      BY <2>2, <3>1, <3>2 DEF OB!FirstLive
    <3> QED BY <2>3, <3>2, <3>3
  <2>10. status[m] = "QUEUED"
    BY <2>2 DEF OB!FirstLive
  <2>11. ResultMeansLanded' /\ UnnumberedIsNew'
    BY <2>2, <2>6, <2>10 DEF SenderInv, ResultMeansLanded, UnnumberedIsNew
  <2> QED BY <2>4, <2>5, <2>7, <2>8, <2>9, <2>11 DEF SenderInv
<1>4. CASE OB!NothingQueued /\ pump' = Idle
  <2>1. /\ \A k \in 1..Len(queue) : status[queue[k]] # "QUEUED"
        /\ queue' = <<>>
        /\ UNCHANGED <<status, sequence, nextSequence, waiter, deliveredSeqs>>
    BY <1>4 DEF OB!NothingQueued
  <2>2. \A n \in Ids : status[n] # "QUEUED"
    BY <1>1, <2>1 DEF SenderInv, SenderTypes, OB!NoStrandedMessage, OB!Slots
  <2>3. pump' \in PumpStates /\ pump'.pc = "idle"
    BY <1>4, ChatLinkConstants DEF PumpStates, Idle
  <2>4. OB!OutboxTypeOK'
    BY <1>1, <2>1 DEF SenderTypes, OB!OutboxTypeOK
  <2> QED BY <1>2, <2>1, <2>2, <2>3, <2>4, ZenonT(30)
          DEF SenderInv, PumpOwnsUnsettled, Busy, OB!NoStrandedMessage, ResultMeansLanded, UnnumberedIsNew
<1> QED BY <1>3, <1>4 DEF PumpTake

\* The steps of _deliver up to the wait for the acknowledgement.
LEMMA AttemptKeeps ==
    ASSUME SenderInv, WaitSendable \/ StartSend \/ SendDone
    PROVE  SenderInv'
<1>1. SenderTypes /\ Busy /\ pump.msg \in Ids /\ status[pump.msg] # "NONE"
  BY SenderTyped DEF SenderInv, Busy, WaitSendable, StartSend, SendDone
<1>2. PICK p \in {"wait", "sending", "waitack"} : pump' = [pump EXCEPT !.pc = p]
  BY DEF WaitSendable, StartSend, SendDone
<1>3. pump' \in PumpStates /\ pump'.msg = pump.msg /\ Busy' /\ pump'.pc # "idle"
      /\ pump'.pc \in {"try", "wait", "sending", "waitack"}
  BY <1>1, <1>2, Zenon DEF SenderTypes, PumpStates, Busy
<1>4. /\ UNCHANGED <<sequence, nextSequence, queue, deliveredSeqs>>
      /\ \/ waiter' = waiter
         \/ waiter' = [waiter EXCEPT ![pump.msg] = "pending"]
      /\ \/ status' = status
         \/ status[pump.msg] = "SENDING" /\ status' = [status EXCEPT ![pump.msg] = "SENT"]
  BY <1>1 DEF WaitSendable, StartSend, SendDone, obVars, OB!RegisterAckWaiter, OB!MarkSent,
              OB!SentStatus, SenderTypes
<1>5. /\ \A n \in Ids : waiter'[n] = "result" => waiter[n] = "result"
      /\ \A n \in Ids : \/ status'[n] = status[n]
                        \/ n = pump.msg /\ status[n] = "SENDING" /\ status'[n] = "SENT"
  BY <1>1, <1>4 DEF SenderTypes
<1>6. OB!OutboxTypeOK'
  BY <1>1, <1>4, Zenon DEF SenderTypes, OB!OutboxTypeOK, OB!Statuses, OB!WaiterStates
<1>7. PumpOwnsUnsettled' /\ (Busy => pump.msg \in Ids /\ status[pump.msg] # "NONE")'
  BY <1>1, <1>3, <1>5 DEF SenderInv, PumpOwnsUnsettled
<1>8. OB!NoStrandedMessage' /\ ResultMeansLanded' /\ UnnumberedIsNew'
  BY <1>4, <1>5 DEF SenderInv, OB!NoStrandedMessage, ResultMeansLanded, UnnumberedIsNew
<1> QED BY <1>3, <1>6, <1>7, <1>8, Zenon DEF SenderInv

\* The next round of the loop, or the end of it.
LEMMA NextAttemptKeeps ==
    ASSUME SenderInv, Busy, NextAttempt
    PROVE  SenderInv'
<1>1. SenderTypes /\ pump.msg \in Ids /\ status[pump.msg] # "NONE"
  BY SenderTyped DEF SenderInv
<1>2. /\ waiter' = [waiter EXCEPT ![pump.msg] = IF @ = "pending" THEN "cancelled" ELSE @]
      /\ UNCHANGED <<sequence, nextSequence, queue, deliveredSeqs>>
  BY DEF NextAttempt
<1>3. waiter' \in [Ids -> OB!WaiterStates] /\ \A n \in Ids : waiter'[n] = "result" => waiter[n] = "result"
  BY <1>1, <1>2 DEF SenderTypes, OB!WaiterStates
<1>4. CASE pump.attempt < ResendAttempts
  <2>1. pump' = [pump EXCEPT !.pc = "try", !.attempt = @ + 1] /\ status' = status
    BY <1>4 DEF NextAttempt
  <2>2. pump' \in PumpStates /\ pump'.msg = pump.msg /\ pump'.pc = "try"
    <3>1. pump.attempt + 1 \in 0..ResendAttempts
      BY <1>1, <1>4, ChatLinkConstants DEF SenderTypes, PumpStates
    <3> QED BY <1>1, <2>1, <3>1, Zenon DEF SenderTypes, PumpStates
  <2>3. OB!OutboxTypeOK'
    BY <1>1, <1>2, <1>3, <2>1 DEF SenderTypes, OB!OutboxTypeOK
  <2>4. PumpOwnsUnsettled' /\ (Busy => pump.msg \in Ids /\ status[pump.msg] # "NONE")'
    BY <1>1, <2>1, <2>2 DEF SenderInv, PumpOwnsUnsettled
  <2> QED BY <1>2, <1>3, <2>1, <2>2, <2>3, <2>4
          DEF SenderInv, OB!NoStrandedMessage, ResultMeansLanded, UnnumberedIsNew
<1>5. CASE ~ (pump.attempt < ResendAttempts)
  <2>1. /\ pump' = [Idle EXCEPT !.pc = "run"]
        /\ status' = [status EXCEPT ![pump.msg] =
                          IF "FAILED" \in OB!Transitions[status[pump.msg]]
                            THEN "FAILED" ELSE status[pump.msg]]
    BY <1>5 DEF NextAttempt
  <2>2. pump' \in PumpStates /\ pump'.pc = "run"
    BY <2>1, ChatLinkConstants DEF PumpStates, Idle
  <2>3. status[pump.msg] \in OB!Statuses
    BY <1>1 DEF SenderTypes
  <2>4. /\ \A n \in Ids \ {pump.msg} : status'[n] = status[n]
        /\ status'[pump.msg] = IF status[pump.msg] \in {"QUEUED", "SENDING", "SENT"}
                                 THEN "FAILED" ELSE status[pump.msg]
    BY <1>1, <2>1, <2>3, FailsFrom DEF SenderTypes
  <2>5. OB!OutboxTypeOK'
    BY <1>1, <1>2, <1>3, <2>1, ZenonT(30) DEF SenderTypes, OB!OutboxTypeOK, OB!Statuses
  <2>6. PumpOwnsUnsettled' /\ ~ Busy'
    BY <1>1, <2>2, <2>4 DEF SenderInv, PumpOwnsUnsettled, Busy
  <2>7. OB!NoStrandedMessage' /\ ResultMeansLanded' /\ UnnumberedIsNew'
    BY <1>1, <1>2, <1>3, <2>4 DEF SenderInv, OB!NoStrandedMessage, ResultMeansLanded, UnnumberedIsNew
  <2> QED BY <2>2, <2>5, <2>6, <2>7 DEF SenderInv
<1> QED BY <1>4, <1>5

\* The waiter has its result: the message is settled and the pump goes on.
LEMMA DeliveryConfirmedKeeps ==
    ASSUME SenderInv, DeliveryConfirmed
    PROVE  SenderInv'
<1>1. SenderTypes /\ pump.pc = "waitack" /\ waiter[pump.msg] = "result" /\ UNCHANGED obVars
      /\ pump' = [Idle EXCEPT !.pc = "run"]
  BY SenderTyped DEF DeliveryConfirmed
<1>2. pump.msg \in Ids /\ status[pump.msg] \in {"DELIVERED", "READ"}
  BY <1>1 DEF SenderInv, ResultMeansLanded, Busy
<1>3. pump' \in PumpStates /\ pump'.pc = "run"
  BY <1>1, ChatLinkConstants DEF PumpStates, Idle
<1>4. \A n \in Ids : status[n] \notin {"SENDING", "SENT"}
  BY <1>2 DEF SenderInv, PumpOwnsUnsettled
<1> QED BY <1>1, <1>3, <1>4
        DEF SenderInv, obVars, OB!OutboxTypeOK, PumpOwnsUnsettled, Busy, OB!NoStrandedMessage, OB!Slots,
            ResultMeansLanded, UnnumberedIsNew

\* An acknowledgement or a read receipt arrives.
LEMMA AnswerKeeps ==
    ASSUME SenderInv, ackWire \in Seq(AckFrames), HandleAck \/ HandleReadReceipt
    PROVE  SenderInv'
<1>1. SenderTypes /\ UNCHANGED <<sequence, nextSequence, queue, pump>>
  BY SenderTyped DEF HandleAck, HandleReadReceipt, obVars, OB!MarkDelivered, OB!MarkReadUpTo
<1>2. /\ status' \in [Ids -> OB!Statuses \cup {"NONE"}] /\ waiter' \in [Ids -> OB!WaiterStates]
      /\ deliveredSeqs' \subseteq Nat
      /\ \A n \in Ids : \/ status'[n] = status[n] /\ waiter'[n] = waiter[n]
                        \/ status[n] \in {"SENDING", "SENT"} /\ status'[n] = "DELIVERED"
                        \/ status[n] = "DELIVERED" /\ status'[n] = "READ"
  <2>1. CASE HandleReadReceipt
    <3>1. PICK c : OB!MarkReadUpTo(c)
      BY <2>1 DEF HandleReadReceipt
    <3> QED BY <1>1, <3>1 DEF SenderTypes, OB!MarkReadUpTo, OB!Statuses
  <2>2. CASE HandleAck
    <3>1. PICK m \in Ids : IF status[m] = "NONE" THEN UNCHANGED obVars ELSE OB!MarkDelivered(m)
      <4>1. Head(ackWire) \in AckFrames /\ Head(ackWire).type = "ack"
        BY <2>2 DEF HandleAck
      <4>2. Head(ackWire).msg \in Ids
        BY <4>1 DEF AckFrames
      <4> QED BY <2>2, <4>2 DEF HandleAck
    <3>2. CASE UNCHANGED obVars
      BY <1>1, <3>2 DEF SenderTypes, obVars
    <3>3. CASE OB!MarkDelivered(m) /\ OB!AckLands(m)
      <4>1. /\ status' = [status EXCEPT ![m] = "DELIVERED"] /\ status[m] \in {"SENDING", "SENT"}
            /\ waiter' = [waiter EXCEPT ![m] = OB!Resolved(m)]
            /\ deliveredSeqs' = deliveredSeqs \cup {sequence[m]}
        BY <3>3 DEF OB!MarkDelivered, OB!AckLands
      <4>2. OB!Resolved(m) \in OB!WaiterStates
        BY <1>1 DEF SenderTypes, OB!Resolved, OB!WaiterStates
      <4> QED BY <1>1, <4>1, <4>2, Zenon DEF SenderTypes, OB!Statuses
    <3>4. CASE OB!MarkDelivered(m) /\ ~ OB!AckLands(m)
      BY <1>1, <3>4, Zenon DEF SenderTypes, OB!MarkDelivered
    <3> QED BY <3>1, <3>2, <3>3, <3>4
  <2> QED BY <2>1, <2>2
<1>3. OB!OutboxTypeOK'
  BY <1>1, <1>2 DEF SenderTypes, OB!OutboxTypeOK
<1>4. PumpOwnsUnsettled' /\ (Busy => pump.msg \in Ids /\ status[pump.msg] # "NONE")'
  BY <1>1, <1>2 DEF SenderInv, PumpOwnsUnsettled, Busy
<1>5. OB!NoStrandedMessage' /\ UnnumberedIsNew'
  BY <1>1, <1>2 DEF SenderInv, OB!NoStrandedMessage, UnnumberedIsNew
<1>6. ResultMeansLanded'
  BY <1>2, Zenon DEF SenderInv, ResultMeansLanded
<1> QED BY <1>1, <1>3, <1>4, <1>5, <1>6 DEF SenderInv

\* The sender's connection is lost: everything unsettled is queued again.
LEMMA LinkLostKeeps ==
    ASSUME SenderInv, LinkLost
    PROVE  SenderInv'
<1>1. SenderTypes /\ OB!RequeueUnacked /\ waiter' = OB!WaitersCancelled /\ pump' = pump
  BY SenderTyped DEF LinkLost, OB!OnReconnecting
<1>2. PICK q \in OB!SortedBySequence(OB!Pending) : queue' = q
  BY <1>1 DEF OB!RequeueUnacked
<1>3. queue' \in Seq(Ids) /\ OB!Pending \subseteq OB!Slots(queue')
  <2>1. OB!Pending \in SUBSET Ids
    BY DEF OB!Pending
  <2> QED BY <1>2, <2>1, SortedListing
<1>4. /\ waiter' \in [Ids -> OB!WaiterStates]
      /\ \A n \in Ids : waiter'[n] = "result" => waiter[n] = "result"
  BY <1>1 DEF SenderTypes, OB!WaitersCancelled, OB!WaiterStates
<1>5. /\ status' \in [Ids -> OB!Statuses \cup {"NONE"}]
      /\ \A n \in Ids : status'[n] = IF n \in OB!Pending THEN "QUEUED" ELSE status[n]
      /\ UNCHANGED <<sequence, nextSequence, deliveredSeqs>>
  BY <1>1 DEF SenderTypes, OB!RequeueUnacked, OB!Statuses
<1>6. OB!OutboxTypeOK'
  BY <1>1, <1>3, <1>4, <1>5, ZenonT(30) DEF SenderTypes, OB!OutboxTypeOK
<1>7. PumpOwnsUnsettled' /\ (Busy => pump.msg \in Ids /\ status[pump.msg] # "NONE")'
  BY <1>1, <1>5 DEF SenderInv, PumpOwnsUnsettled, Busy, OB!Pending
<1>8. OB!NoStrandedMessage'
  BY <1>3, <1>5, Zenon DEF OB!NoStrandedMessage, OB!Pending
<1>9. ResultMeansLanded' /\ UnnumberedIsNew'
  BY <1>4, <1>5 DEF SenderInv, ResultMeansLanded, UnnumberedIsNew, OB!Pending
<1> QED BY <1>1, <1>6, <1>7, <1>8, <1>9 DEF SenderInv

\* A new sending session starts with an empty outbox.
LEMMA RestartKeeps ==
    ASSUME SenderInv, Restart
    PROVE  SenderInv'
<1>1. SenderTypes
  BY SenderTyped
<1>2. pump' \in PumpStates /\ pump'.pc = "idle"
  BY ChatLinkConstants DEF Restart, PumpStates, Idle
<1>3. OB!OutboxTypeOK' /\ \A n \in Ids : status'[n] = "NONE" /\ waiter'[n] = "none"
  BY <1>1 DEF Restart, SenderTypes, OB!OutboxTypeOK, OB!WaiterStates
<1> QED BY <1>2, <1>3 DEF SenderInv, PumpOwnsUnsettled, Busy, OB!NoStrandedMessage,
                          ResultMeansLanded, UnnumberedIsNew

\* What leaves outbox and pump alone keeps the sender's invariant.
LEMMA SenderStutters ==
    ASSUME SenderInv, UNCHANGED <<obVars, pump>>
    PROVE  SenderInv'
BY DEF SenderInv, obVars, OB!OutboxTypeOK, PumpOwnsUnsettled, Busy, OB!NoStrandedMessage, OB!Slots,
       ResultMeansLanded, UnnumberedIsNew

\* Every step keeps the sender's invariant, whatever the losses and restarts.
LEMMA SenderStep ==
    ASSUME SenderInv, ackWire \in Seq(AckFrames), [Next]_vars
    PROVE  SenderInv'
<1>1. CASE PumpStep
  <2>1. CASE PumpTake
    BY <2>1, PumpTakeKeeps
  <2>2. CASE WaitSendable \/ StartSend \/ SendDone
    BY <2>2, AttemptKeeps
  <2>3. CASE SendFailed \/ AckTimeout \/ WaiterCancelled
    BY <2>3, NextAttemptKeeps, Zenon DEF SendFailed, AckTimeout, WaiterCancelled, Busy
  <2>4. CASE DeliveryConfirmed
    BY <2>4, DeliveryConfirmedKeeps
  <2> QED BY <1>1, <2>1, <2>2, <2>3, <2>4, ZenonT(30) DEF PumpStep
<1>2. ASSUME NEW m \in Ids, SendMessage(m) PROVE SenderInv'
  BY <1>2, SendMessageKeeps
<1>3. CASE HandleAck \/ HandleReadReceipt
  BY <1>3, AnswerKeeps
<1>4. CASE HandleMessage \/ Watchdog \/ MarkRead \/ PeerLost
  BY <1>4, SenderStutters, ZenonT(30) DEF HandleMessage, Watchdog, MarkRead, PeerLost
<1>5. CASE LinkLost
  BY <1>5, LinkLostKeeps
<1>6. CASE Recovery
  BY <1>6, SenderStutters DEF Recovery, LinkRestored, PeerBack, HandleKexHello, HandleKexReply
<1>7. CASE Restart
  BY <1>7, RestartKeeps
<1>8. CASE UNCHANGED vars
  BY <1>8, SenderStutters DEF vars
<1> QED BY <1>1, <1>2, <1>3, <1>4, <1>5, <1>6, <1>7, <1>8, ZenonT(30) DEF Next

-----------------------------------------------------------------------------
(* The receiver. *)

\* Extending an ordered stream by a run of consecutive numbers.
LEMMA ExtendByRun ==
    ASSUME NEW e \in Nat \ {0}, NEW k \in Nat, k >= e,
           NEW d, Below(d, e),
           NEW r \in Seq(Ids), Len(r) = k - e,
           \A i \in 1..(k - e) : SequenceOf[r[i]] = e + i - 1
    PROVE  /\ Below(d \o r, k) /\ Grown(d, d \o r)
           /\ Shown(d \o r) = Shown(d) \cup Shown(r)
           /\ k > e \/ EndsAt(d, e) => EndsAt(d \o r, k)
<1> DEFINE c == d \o r
           n == Len(d)
<1>1. /\ d \in Seq(Ids) /\ n \in Nat /\ DOMAIN d = 1..n /\ k - e \in Nat
      /\ DOMAIN r = 1..(k - e)
  BY DEF Below
<1>2. /\ c \in Seq(Ids) /\ Len(c) = n + (k - e) /\ DOMAIN c = 1..(n + (k - e))
      /\ \A i \in 1..n : c[i] = d[i]
      /\ \A i \in 1..(k - e) : c[n + i] = r[i]
  <2>1. c \in Seq(Ids) /\ Len(c) = n + Len(r) /\ \A i \in 1..n : c[i] = d[i]
    BY <1>1
  <2>2. DOMAIN c = 1..(n + (k - e))
    BY <2>1
  <2>3. ASSUME NEW i \in 1..(k - e) PROVE c[n + i] = r[i]
    <3>1. n + i \in DOMAIN c /\ n + i > n /\ (n + i) - n = i
      BY <1>1, <2>2
    <3> QED BY <1>1, <2>1, <3>1
  <2> QED BY <2>1, <2>2, <2>3
<1> HIDE DEF c, n
<1>3. ASSUME NEW i \in DOMAIN c
      PROVE  \/ i \in 1..n /\ c[i] = d[i]
             \/ i - n \in 1..(k - e) /\ c[i] = r[i - n]
  <2>1. CASE i \in 1..n
    BY <1>2, <2>1
  <2>2. CASE i \notin 1..n
    <3>1. i - n \in 1..(k - e) /\ i = n + (i - n)
      BY <1>1, <1>2, <2>2
    <3> QED BY <1>2, <3>1
  <2> QED BY <2>1, <2>2
<1>4. ASSUME NEW i \in DOMAIN c
      PROVE  /\ SequenceOf[c[i]] \in Nat
             /\ i \in 1..n => SequenceOf[c[i]] < e
             /\ i \notin 1..n => SequenceOf[c[i]] = e + (i - n) - 1
  <2>1. c[i] \in Ids
    BY <1>2
  <2>2. SequenceOf[c[i]] \in Nat
    BY <2>1, NumberType
  <2>3. ASSUME i \in 1..n PROVE SequenceOf[c[i]] < e
    BY <1>1, <1>2, <2>3, Zenon DEF Below
  <2>4. ASSUME i \notin 1..n PROVE SequenceOf[c[i]] = e + (i - n) - 1
    BY <1>3, <2>4, Zenon
  <2> QED BY <2>2, <2>3, <2>4
<1>5. ASSUME NEW i \in DOMAIN c
      PROVE  SequenceOf[c[i]] < k
  <2>1. i \in Int /\ i <= n + (k - e)
    BY <1>1, <1>2
  <2>2. SequenceOf[c[i]] \in Nat /\ (SequenceOf[c[i]] < e \/ SequenceOf[c[i]] = e + (i - n) - 1)
    BY <1>4
  <2> QED BY <1>1, <2>1, <2>2
<1>6. ASSUME NEW i \in DOMAIN c, NEW j \in DOMAIN c, i < j
      PROVE  SequenceOf[c[i]] < SequenceOf[c[j]]
  <2>1. CASE j \in 1..n
    <3>1. i \in 1..n
      BY <1>1, <1>2, <1>6, <2>1
    <3>2. SequenceOf[d[i]] < SequenceOf[d[j]]
      BY <1>1, <1>6, <2>1, <3>1, ZenonT(30) DEF Below
    <3> QED BY <1>2, <2>1, <3>1, <3>2, ZenonT(30)
  <2>2. CASE j \notin 1..n
    <3>1. i \in Int /\ j \in Int /\ j > n
      BY <1>1, <1>2, <2>2
    <3>2. SequenceOf[c[j]] = e + (j - n) - 1 /\ SequenceOf[c[i]] \in Nat
          /\ (SequenceOf[c[i]] < e \/ SequenceOf[c[i]] = e + (i - n) - 1)
      BY <1>4, <2>2, Zenon
    <3> QED BY <1>1, <1>6, <3>1, <3>2
  <2> QED BY <2>1, <2>2
<1>7. Below(c, k)
  BY <1>2, <1>5, <1>6, ZenonT(30) DEF Below
<1>8. Grown(d, c)
  BY <1>1, <1>2 DEF Grown, n
<1>9. Shown(c) = Shown(d) \cup Shown(r)
  <2>1. \A i \in DOMAIN c : c[i] \in Shown(d) \cup Shown(r)
    BY <1>1, <1>3 DEF Shown
  <2>2. \A i \in DOMAIN d : i \in DOMAIN c /\ c[i] = d[i]
    BY <1>1, <1>2
  <2>3. \A i \in DOMAIN r : n + i \in DOMAIN c /\ c[n + i] = r[i]
    BY <1>1, <1>2
  <2> QED BY <2>1, <2>2, <2>3 DEF Shown
<1>10. ASSUME k > e \/ EndsAt(d, e), k > 1
       PROVE  \E i \in DOMAIN c : SequenceOf[c[i]] = k - 1
  <2>1. CASE k > e
    <3>1. n + (k - e) \in DOMAIN c /\ n + (k - e) \notin 1..n
      BY <1>1, <1>2, <2>1
    <3>2. SequenceOf[c[n + (k - e)]] = e + ((n + (k - e)) - n) - 1
      BY <1>4, <3>1, Zenon
    <3>3. e + ((n + (k - e)) - n) - 1 = k - 1
      BY <1>1
    <3> QED BY <3>1, <3>2, <3>3, Zenon
  <2>2. CASE k = e
    <3>1. PICK i \in DOMAIN d : SequenceOf[d[i]] = k - 1
      BY <1>10, <2>2 DEF EndsAt
    <3>2. i \in DOMAIN c /\ c[i] = d[i]
      BY <1>1, <1>2, <3>1
    <3> QED BY <3>1, <3>2
  <2> QED BY <2>1, <2>2
<1> QED BY <1>7, <1>8, <1>9, <1>10 DEF EndsAt, c

\* What one drain leaves behind (_drain_contiguous and _mark_delivered).
LEMMA DeliverEffect ==
    ASSUME NEW e \in Nat \ {0}, NEW d, Below(d, e), NEW b, From(b, e),
           e \in DOMAIN b \/ EndsAt(d, e),
           unread \in Nat, delivered \in Seq(Ids), Grown(delivered, d),
           IB!Deliver(d, b, e)
    PROVE  /\ expected' \in Nat \ {0}
           /\ unread' \in Nat
           /\ Below(delivered', expected')
           /\ From(buffer', expected' + 1)
           /\ EndsAt(delivered', expected')
           /\ Grown(delivered, delivered')
           /\ Shown(delivered') \cup Kept(buffer') = Shown(d) \cup Kept(b)
<1>1. PICK k \in Nat :
        /\ k >= e
        /\ e..(k - 1) \subseteq DOMAIN b
        /\ k \notin DOMAIN b
        /\ expected' = k
        /\ buffer' = [s \in DOMAIN b \ (e..(k - 1)) |-> b[s]]
        /\ delivered' = d \o [i \in 1..(k - e) |-> b[e + i - 1]]
        /\ unread' = unread + (Len(delivered') - Len(delivered))
  BY DEF IB!Deliver
<1>a. e \in Nat /\ k \in Nat /\ k >= e /\ k - e \in Nat
  BY <1>1
<1> DEFINE r == [i \in 1..(k - e) |-> b[e + i - 1]]
<1>2. ASSUME NEW i \in 1..(k - e)
      PROVE  r[i] \in Ids /\ SequenceOf[r[i]] = e + i - 1 /\ r[i] \in Kept(b)
  <2>1. e + i - 1 \in e..(k - 1)
    BY <1>1
  <2>2. e + i - 1 \in DOMAIN b
    BY <1>1, <2>1, Zenon
  <2> QED BY <2>2 DEF From, Kept
<1>3. r \in Seq(Ids) /\ Len(r) = k - e /\ DOMAIN r = 1..(k - e)
  <2>1. r \in [1..(k - e) -> Ids]
    BY <1>2, Zenon
  <2> HIDE DEF r
  <2>2. r \in Seq(Ids) /\ DOMAIN r = 1..(k - e)
    BY <1>a, <2>1
  <2>3. Len(r) = k - e
    BY <1>a, <2>2
  <2> QED BY <2>2, <2>3, Zenon
<1>4. delivered' = d \o r /\ \A i \in 1..(k - e) : SequenceOf[r[i]] = e + i - 1
  BY <1>1, <1>2, Zenon
<1>5. ASSUME NEW s \in e..(k - 1)
      PROVE  b[s] \in Shown(r)
  <2>1. s - e + 1 \in 1..(k - e) /\ e + (s - e + 1) - 1 = s
    BY <1>1
  <2>2. r[s - e + 1] = b[s]
    BY <2>1, Zenon
  <2> QED BY <1>3, <2>1, <2>2, Zenon DEF Shown
<1>6. \A x \in Shown(r) : x \in Kept(b)
  BY <1>2, <1>3, Zenon DEF Shown
<1> HIDE DEF r
<1>7. /\ Below(delivered', k) /\ Grown(d, delivered')
      /\ Shown(delivered') = Shown(d) \cup Shown(r)
      /\ EndsAt(delivered', k)
  <2>1. k > e \/ EndsAt(d, e)
    BY <1>1
  <2>2. /\ Below(d \o r, k) /\ Grown(d, d \o r)
        /\ Shown(d \o r) = Shown(d) \cup Shown(r)
        /\ EndsAt(d \o r, k)
    <3>1. e \in Nat \ {0} /\ Below(d, e) /\ k \in Nat /\ k >= e /\ r \in Seq(Ids) /\ Len(r) = k - e
      BY <1>a, <1>3, Zenon
    <3>2. \A i \in 1..(k - e) : SequenceOf[r[i]] = e + i - 1
      BY <1>4, Zenon
    <3>3. k > e \/ EndsAt(d, e) => EndsAt(d \o r, k)
      BY <3>1, <3>2, ExtendByRun, Zenon
    <3>4. Below(d \o r, k) /\ Grown(d, d \o r) /\ Shown(d \o r) = Shown(d) \cup Shown(r)
      BY <3>1, <3>2, ExtendByRun
    <3> QED BY <2>1, <3>3, <3>4
  <2> QED BY <1>4, <2>2
<1>8. unread' \in Nat /\ Grown(delivered, delivered')
  <2>1. d \in Seq(Ids) /\ delivered' \in Seq(Ids)
    BY <1>7 DEF Below
  <2>2. Len(d) \in Nat /\ Len(delivered) \in Nat /\ Len(delivered') \in Nat
    BY <2>1
  <2>3. Len(delivered) <= Len(d) /\ Len(d) <= Len(delivered')
    BY <1>7, Zenon DEF Grown
  <2>4. Grown(delivered, delivered')
    BY <1>7, <2>2, <2>3 DEF Grown
  <2> QED BY <1>1, <2>2, <2>3, <2>4
<1>9. DOMAIN buffer' = DOMAIN b \ (e..(k - 1)) /\ \A s \in DOMAIN buffer' : buffer'[s] = b[s]
  BY <1>1, Zenon
<1>10. ASSUME NEW s \in DOMAIN buffer'
       PROVE  s \in Nat \ {0} /\ s >= k + 1 /\ buffer'[s] \in Ids /\ SequenceOf[buffer'[s]] = s
  <2>1. s \in DOMAIN b /\ s \notin e..(k - 1) /\ s # k
    BY <1>1, <1>9, Zenon
  <2>2. s \in Nat \ {0} /\ s >= e /\ b[s] \in Ids /\ SequenceOf[b[s]] = s
    BY <2>1, Zenon DEF From
  <2> QED BY <1>1, <1>9, <2>1, <2>2
<1>11. From(buffer', k + 1)
  BY <1>1, <1>9, <1>10, Zenon DEF From
<1>12. Kept(b) \subseteq Shown(r) \cup Kept(buffer')
  BY <1>5, <1>9, Zenon DEF Kept
<1>13. Kept(buffer') \subseteq Kept(b)
  BY <1>9 DEF Kept
<1>14. Shown(delivered') \cup Kept(buffer') = Shown(d) \cup Kept(b)
  BY <1>6, <1>7, <1>12, <1>13
<1>15. expected' = k /\ k \in Nat \ {0}
  BY <1>1, <1>a
<1> QED BY <1>7, <1>8, <1>11, <1>14, <1>15, ZenonT(30)

\* The bounded LRU stays bounded, and only m is new in it.
LEMMA RememberEffect ==
    ASSUME IB!InboxTypeOK, NEW m \in Ids, IB!Remember(m)
    PROVE  /\ seen' \in Seq(Ids) /\ Len(seen') <= MaxSeenIds
           /\ Shown(seen') \subseteq Shown(seen) \cup {m}
<1>1. /\ seen \in Seq(Ids) /\ Len(seen) \in Nat /\ Len(seen) <= MaxSeenIds
      /\ MaxSeenIds \in Nat /\ MaxSeenIds # 0
  BY ChatLinkConstants DEF IB!InboxTypeOK
<1>2. ASSUME NEW s \in Seq(Ids), NEW a, a = Append(s, m)
      PROVE  /\ a \in Seq(Ids) /\ Len(a) = Len(s) + 1
             /\ Shown(a) \subseteq Shown(s) \cup {m}
  <2>1. /\ a \in Seq(Ids) /\ Len(a) = Len(s) + 1 /\ DOMAIN a = 1..(Len(s) + 1)
        /\ DOMAIN s = 1..Len(s) /\ Len(s) \in Nat
        /\ \A i \in 1..Len(s) : a[i] = s[i] /\ a[Len(s) + 1] = m
    BY <1>2
  <2>2. \A i \in DOMAIN a : a[i] \in Shown(s) \cup {m}
    BY <1>2, <2>1 DEF Shown
  <2> QED BY <2>1, <2>2 DEF Shown
<1>3. CASE Len(seen) = MaxSeenIds
  <2> DEFINE s == Tail(seen)
  <2>1. seen' = Append(s, m)
    BY <1>3 DEF IB!Remember
  <2>2. s \in Seq(Ids) /\ Len(s) = Len(seen) - 1 /\ DOMAIN s = 1..(Len(seen) - 1)
        /\ DOMAIN seen = 1..Len(seen) /\ \A i \in DOMAIN s : s[i] = seen[i + 1]
    BY <1>1, <1>3
  <2> HIDE DEF s
  <2>3. Shown(s) \subseteq Shown(seen)
    BY <1>1, <2>2 DEF Shown
  <2>4. /\ seen' \in Seq(Ids) /\ Len(seen') = Len(s) + 1
        /\ Shown(seen') \subseteq Shown(s) \cup {m}
    BY <1>2, <2>1, <2>2, Zenon
  <2> QED BY <1>1, <1>3, <2>2, <2>3, <2>4
<1>4. CASE Len(seen) # MaxSeenIds
  <2>1. seen' = Append(seen, m)
    BY <1>4 DEF IB!Remember
  <2>2. /\ seen' \in Seq(Ids) /\ Len(seen') = Len(seen) + 1
        /\ Shown(seen') \subseteq Shown(seen) \cup {m}
    BY <1>1, <1>2, <2>1, Zenon
  <2> QED BY <1>1, <1>4, <2>2
<1> QED BY <1>3, <1>4

\* The buffer with one more message that is ahead of the cursor.
LEMMA HeldEffect ==
    ASSUME ReceiverInv, NEW m \in Ids, SequenceOf[m] > expected
    PROVE  /\ From(IB!Held(m), expected + 1)
           /\ m \in Kept(IB!Held(m))
           /\ Kept(IB!Held(m)) \subseteq Kept(buffer) \cup {m}
           /\ Lives = 1 => Kept(buffer) \subseteq Kept(IB!Held(m))
<1> DEFINE b == IB!Held(m)
           n == SequenceOf[m]
<1>1. n \in Nat \ {0} /\ expected \in Nat
  BY NumberType DEF ReceiverInv, IB!InboxTypeOK
<1>2. /\ DOMAIN b = DOMAIN buffer \cup {n} /\ b[n] = m
      /\ \A s \in DOMAIN b : b[s] = IF s = n THEN m ELSE buffer[s]
  BY DEF IB!Held
<1>3. \A s \in DOMAIN buffer : s \in Nat \ {0} /\ buffer[s] \in Ids /\ SequenceOf[buffer[s]] = s
                              /\ s >= expected + 1
  BY DEF ReceiverInv, From
<1>4. b \in [DOMAIN b -> Ids]
  <2>1. b = [s \in DOMAIN b |-> b[s]]
    BY DEF IB!Held
  <2>2. \A s \in DOMAIN b : b[s] \in Ids
    BY <1>2, <1>3
  <2> HIDE DEF b
  <2> QED BY <2>1, <2>2
<1>5. From(b, expected + 1)
  <2> HIDE DEF b
  <2> QED BY <1>1, <1>2, <1>3, <1>4 DEF From
<1>6. m \in Kept(b) /\ Kept(b) \subseteq Kept(buffer) \cup {m}
  <2> HIDE DEF b, n
  <2> QED BY <1>2 DEF Kept
<1>7. ASSUME Lives = 1, NEW s \in DOMAIN buffer
      PROVE  buffer[s] \in Kept(b)
  <2>1. CASE s = n
    <3>1. buffer[s] = m
      BY <1>3, <1>7, <2>1, NumberIsUnique, ZenonT(30)
    <3> QED BY <1>6, <3>1
  <2>2. CASE s # n
    <3> HIDE DEF b, n
    <3> QED BY <1>2, <2>2 DEF Kept
  <2> QED BY <2>1, <2>2
<1> HIDE DEF b
<1>8. Lives = 1 => Kept(buffer) \subseteq Kept(b)
  BY <1>7 DEF Kept
<1> QED BY <1>5, <1>6, <1>8 DEF b

\* A stream followed by the message whose turn it is.
LEMMA NextInOrder ==
    ASSUME ReceiverInv, NEW m \in Ids, SequenceOf[m] = expected
    PROVE  /\ Below(Append(delivered, m), expected + 1)
           /\ EndsAt(Append(delivered, m), expected + 1)
           /\ Grown(delivered, Append(delivered, m))
           /\ Shown(Append(delivered, m)) = Shown(delivered) \cup {m}
<1> DEFINE d == Append(delivered, m)
           r == <<m>>
           k == expected + 1
<1>1. expected \in Nat \ {0} /\ delivered \in Seq(Ids) /\ Below(delivered, expected)
  BY DEF ReceiverInv, IB!InboxTypeOK
<1>2. d = delivered \o r /\ r \in Seq(Ids) /\ Len(r) = 1 /\ r[1] = m /\ Shown(r) = {m}
  BY <1>1 DEF Shown
<1>3. k \in Nat /\ k >= expected /\ k > expected /\ k - expected = 1
  BY <1>1
<1>4. \A i \in 1..(k - expected) : SequenceOf[r[i]] = expected + i - 1
  BY <1>1, <1>2, <1>3
<1> HIDE DEF d, r, k
<1>a. r \in Seq(Ids) /\ Len(r) = k - expected /\ k \in Nat /\ k >= expected
  BY <1>2, <1>3, Zenon
<1>5. /\ Below(delivered \o r, k) /\ Grown(delivered, delivered \o r)
      /\ Shown(delivered \o r) = Shown(delivered) \cup Shown(r)
  BY <1>1, <1>a, <1>4, ExtendByRun
<1>6. k > expected \/ EndsAt(delivered, expected) => EndsAt(delivered \o r, k)
  BY <1>1, <1>a, <1>4, ExtendByRun, ZenonT(30)
<1> QED BY <1>2, <1>3, <1>5, <1>6, ZenonT(30) DEF d, k

\* A buffer that starts at its oldest entry.
LEMMA OldestStarts ==
    ASSUME NEW x \in Nat, NEW b, From(b, x), NEW e \in DOMAIN b, IB!IsOldest(e, b)
    PROVE  e \in Nat \ {0} /\ e >= x /\ From(b, e)
BY DEF From, IB!IsOldest

\* What lies below a cursor lies below a later one.
LEMMA BelowLater ==
    ASSUME NEW d, NEW x \in Nat, Below(d, x), NEW e \in Nat, e >= x
    PROVE  Below(d, e)
<1>1. \A i \in DOMAIN d : SequenceOf[d[i]] \in Nat /\ SequenceOf[d[i]] < x
  <2>1. \A i \in DOMAIN d : d[i] \in Ids /\ SequenceOf[d[i]] < x
    BY DEF Below
  <2> QED BY <2>1, NumberType
<1>2. \A i \in DOMAIN d : SequenceOf[d[i]] < e
  BY <1>1
<1> QED BY <1>2 DEF Below

\* A drain that starts in an admissible state ends in one.
LEMMA DrainKeeps ==
    ASSUME ReceiverInv, NEW e \in Nat \ {0}, NEW d, Below(d, e), NEW b, From(b, e),
           e \in DOMAIN b \/ EndsAt(d, e), Grown(delivered, d), IB!Deliver(d, b, e),
           seen' \in Seq(Ids), Len(seen') <= MaxSeenIds,
           verdict' \in IB!Verdicts \cup {"none"}, highestRead' = highestRead
    PROVE  /\ ReceiverInv' /\ Grown(delivered, delivered')
           /\ Held' = Shown(d) \cup Kept(b)
<1>1. unread \in Nat /\ delivered \in Seq(Ids) /\ highestRead \in Nat
  BY DEF ReceiverInv, IB!InboxTypeOK
<1>2. /\ expected' \in Nat \ {0}
      /\ unread' \in Nat
      /\ Below(delivered', expected')
      /\ From(buffer', expected' + 1)
      /\ EndsAt(delivered', expected')
      /\ Grown(delivered, delivered')
      /\ Shown(delivered') \cup Kept(buffer') = Shown(d) \cup Kept(b)
  BY <1>1, DeliverEffect, Zenon
<1>3. IB!InboxTypeOK'
  BY <1>1, <1>2, Zenon DEF IB!InboxTypeOK, Below, From
<1>4. Held' = Shown(delivered') \cup Kept(buffer')
  BY DEF Held, Shown, Kept
<1> QED BY <1>2, <1>3, <1>4 DEF ReceiverInv

\* accept: the message is held, or it was seen or passed before.
LEMMA AcceptEffect ==
    ASSUME ReceiverInv, NEW m \in Ids, Accept(m)
    PROVE  /\ ReceiverInv' /\ Grown(delivered, delivered')
           /\ Shown(seen') \subseteq Shown(seen) \cup {m}
           /\ Held' \subseteq Held \cup {m}
           /\ Lives = 1 => Held \subseteq Held'
           /\ m \in Held' \/ m \in Shown(seen) \/ SequenceOf[m] < expected
<1>1. /\ expected \in Nat \ {0} /\ delivered \in Seq(Ids) /\ Len(delivered) \in Nat
      /\ expected + 1 \in Nat \ {0} /\ IB!InboxTypeOK
      /\ Below(delivered, expected) /\ From(buffer, expected + 1) /\ EndsAt(delivered, expected)
  BY DEF ReceiverInv, IB!InboxTypeOK
<1>2. Held = Shown(delivered) \cup Kept(buffer)
  BY DEF Held, Shown, Kept
<1>3. CASE IB!AcceptKnown(m)
  <2>1. /\ UNCHANGED <<expected, buffer, seen, delivered, unread, highestRead>>
        /\ verdict' = "duplicate" /\ m \in Shown(seen)
    BY <1>3 DEF IB!AcceptKnown, IB!Seen, Shown
  <2>2. IB!InboxTypeOK'
    BY <1>1, <2>1, Zenon DEF IB!InboxTypeOK, IB!Verdicts
  <2>3. ReceiverInv'
    BY <1>1, <2>1, <2>2, ZenonT(30) DEF ReceiverInv, Below, From, EndsAt
  <2>4. Held' = Held /\ Grown(delivered, delivered')
    BY <1>1, <2>1 DEF Held, Grown
  <2> QED BY <2>1, <2>3, <2>4 DEF Shown
<1>4. CASE IB!AcceptPassed(m)
  <2>1. /\ UNCHANGED <<expected, buffer, delivered, unread, highestRead>>
        /\ verdict' = "duplicate" /\ IB!Remember(m) /\ SequenceOf[m] < expected
    BY <1>4 DEF IB!AcceptPassed
  <2>2. seen' \in Seq(Ids) /\ Len(seen') <= MaxSeenIds /\ Shown(seen') \subseteq Shown(seen) \cup {m}
    BY <1>1, <2>1, RememberEffect
  <2>3. IB!InboxTypeOK'
    BY <1>1, <2>1, <2>2 DEF IB!InboxTypeOK, IB!Verdicts
  <2>4. ReceiverInv'
    BY <1>1, <2>1, <2>3, ZenonT(30) DEF ReceiverInv, Below, From, EndsAt
  <2>5. Held' = Held /\ Grown(delivered, delivered')
    BY <1>1, <2>1 DEF Held, Grown
  <2> QED BY <2>1, <2>2, <2>4, <2>5
<1>5. CASE IB!AcceptInOrder(m)
  <2> DEFINE d == Append(delivered, m)
  <2>1. /\ SequenceOf[m] = expected /\ IB!Remember(m) /\ IB!Deliver(d, buffer, expected + 1)
        /\ verdict' \in IB!Verdicts \cup {"none"} /\ highestRead' = highestRead
    BY <1>5 DEF IB!AcceptInOrder, IB!Verdicts
  <2>2. seen' \in Seq(Ids) /\ Len(seen') <= MaxSeenIds /\ Shown(seen') \subseteq Shown(seen) \cup {m}
    BY <1>1, <2>1, RememberEffect
  <2>3. /\ Below(d, expected + 1) /\ EndsAt(d, expected + 1) /\ Grown(delivered, d)
        /\ Shown(d) = Shown(delivered) \cup {m}
    BY <2>1, NextInOrder
  <2> HIDE DEF d
  <2>4. ReceiverInv' /\ Grown(delivered, delivered') /\ Held' = Shown(d) \cup Kept(buffer)
    BY <1>1, <2>1, <2>2, <2>3, DrainKeeps, ZenonT(30)
  <2> QED BY <1>2, <2>2, <2>3, <2>4, ZenonT(30)
<1>6. CASE IB!AcceptBuffered(m)
  <2>1. /\ SequenceOf[m] > expected /\ IB!Remember(m) /\ buffer' = IB!Held(m)
        /\ UNCHANGED <<expected, delivered, unread, highestRead>> /\ verdict' = "buffered"
    BY <1>6 DEF IB!AcceptBuffered
  <2>2. seen' \in Seq(Ids) /\ Len(seen') <= MaxSeenIds /\ Shown(seen') \subseteq Shown(seen) \cup {m}
    BY <1>1, <2>1, RememberEffect, Zenon
  <2>3. /\ From(buffer', expected + 1) /\ m \in Kept(buffer')
        /\ Kept(buffer') \subseteq Kept(buffer) \cup {m}
        /\ Lives = 1 => Kept(buffer) \subseteq Kept(buffer')
    BY <2>1, HeldEffect, Zenon
  <2>4. IB!InboxTypeOK'
    BY <1>1, <2>1, <2>2, <2>3, ZenonT(30) DEF IB!InboxTypeOK, IB!Verdicts, From
  <2>5. ReceiverInv'
    BY <1>1, <2>1, <2>3, <2>4 DEF ReceiverInv, Below, EndsAt
  <2>6. Held' = Shown(delivered) \cup Kept(buffer')
    BY <2>1 DEF Held, Shown, Kept
  <2>7. Grown(delivered, delivered')
    BY <1>1, <2>1 DEF Grown
  <2> QED BY <1>2, <2>2, <2>3, <2>5, <2>6, <2>7, ZenonT(30)
<1>7. CASE IB!ForceProgress(m)
  <2> DEFINE b == IB!Held(m)
  <2>1. /\ SequenceOf[m] > expected /\ IB!Remember(m)
        /\ verdict' \in IB!Verdicts \cup {"none"} /\ highestRead' = highestRead
    BY <1>7 DEF IB!ForceProgress, IB!Verdicts
  <2>2. PICK e \in DOMAIN b : IB!IsOldest(e, b) /\ IB!Deliver(delivered, b, e)
    BY <1>7 DEF IB!ForceProgress
  <2>3. seen' \in Seq(Ids) /\ Len(seen') <= MaxSeenIds /\ Shown(seen') \subseteq Shown(seen) \cup {m}
    BY <1>1, <2>1, RememberEffect
  <2>4. /\ From(b, expected + 1) /\ m \in Kept(b)
        /\ Kept(b) \subseteq Kept(buffer) \cup {m}
        /\ Lives = 1 => Kept(buffer) \subseteq Kept(b)
    BY <2>1, HeldEffect
  <2> HIDE DEF b
  <2>5. e \in Nat \ {0} /\ e >= expected + 1 /\ From(b, e)
    BY <1>1, <2>2, <2>4, OldestStarts
  <2>6. Below(delivered, e) /\ Grown(delivered, delivered)
    BY <1>1, <2>5, BelowLater DEF Grown
  <2>7. ReceiverInv' /\ Grown(delivered, delivered') /\ Held' = Shown(delivered) \cup Kept(b)
    BY <2>1, <2>2, <2>3, <2>5, <2>6, DrainKeeps
  <2> QED BY <1>2, <2>3, <2>4, <2>7
<1> QED BY <1>3, <1>4, <1>5, <1>6, <1>7, ZenonT(30) DEF Accept

\* check_starvation loses nothing and surfaces in order.
LEMMA StarvationEffect ==
    ASSUME ReceiverInv, IB!CheckStarvation
    PROVE  ReceiverInv' /\ Grown(delivered, delivered') /\ Held' = Held /\ seen' = seen
<1>1. /\ expected \in Nat \ {0} /\ delivered \in Seq(Ids) /\ Len(delivered) \in Nat
      /\ expected + 1 \in Nat /\ Below(delivered, expected) /\ From(buffer, expected + 1)
      /\ seen \in Seq(Ids) /\ Len(seen) <= MaxSeenIds /\ verdict \in IB!Verdicts \cup {"none"}
  BY DEF ReceiverInv, IB!InboxTypeOK
<1>2. PICK e \in DOMAIN buffer :
          IB!IsOldest(e, buffer) /\ IB!Deliver(delivered, buffer, IF e > expected THEN e ELSE expected)
  BY DEF IB!CheckStarvation
<1>3. e \in Nat \ {0} /\ e >= expected + 1 /\ From(buffer, e)
  BY <1>1, <1>2, OldestStarts
<1>4. e > expected
  BY <1>1, <1>3
<1>5. IB!Deliver(delivered, buffer, e)
  BY <1>2, <1>4
<1>6. Below(delivered, e) /\ Grown(delivered, delivered)
  BY <1>1, <1>3, <1>4, BelowLater DEF Grown
<1>7. UNCHANGED <<seen, highestRead, verdict>>
  BY DEF IB!CheckStarvation
<1>8. /\ seen' \in Seq(Ids) /\ Len(seen') <= MaxSeenIds /\ verdict' \in IB!Verdicts \cup {"none"}
      /\ highestRead' = highestRead
  BY <1>1, <1>7, Zenon
<1>9. ReceiverInv' /\ Grown(delivered, delivered') /\ Held' = Shown(delivered) \cup Kept(buffer)
  BY <1>2, <1>3, <1>5, <1>6, <1>8, DrainKeeps
<1>10. Held = Shown(delivered) \cup Kept(buffer)
  BY DEF Held, Shown, Kept
<1> QED BY <1>7, <1>9, <1>10

-----------------------------------------------------------------------------
(* Links and wires. *)

\* What is left of a wire after a loss, or after its first frame was read.
LEMMA WireParts ==
    ASSUME NEW S, NEW w \in Seq(S), NEW v,
           v \in Prefixes(w) \/ v \in Suffixes(w) \/ (w # <<>> /\ v = Tail(w))
    PROVE  v \in Seq(S) /\ PartOf(v, w)
<1>1. Len(w) \in Nat /\ DOMAIN w = 1..Len(w)
  OBVIOUS
<1>2. ASSUME NEW a \in Nat \ {0}, NEW c \in Nat, c <= Len(w), v = SubSeq(w, a, c)
      PROVE  v \in Seq(S) /\ PartOf(v, w)
  <2>1. CASE a > c
    <3>1. v = <<>>
      BY <1>1, <1>2, <2>1
    <3>2. DOMAIN v = {} /\ v \in Seq(S) /\ 0 \in Nat
      BY <3>1
    <3> QED BY <3>2 DEF PartOf
  <2>2. CASE a <= c
    <3>1. v \in Seq(S) /\ DOMAIN v = 1..(c - a + 1) /\ \A i \in 1..(c - a + 1) : v[i] = w[a + i - 1]
      BY <1>1, <1>2, <2>2
    <3>2. a - 1 \in Nat
      OBVIOUS
    <3>3. ASSUME NEW i \in DOMAIN v PROVE i + (a - 1) \in DOMAIN w /\ v[i] = w[i + (a - 1)]
      <4>1. i + (a - 1) = a + i - 1 /\ i + (a - 1) \in 1..Len(w)
        BY <1>1, <1>2, <3>1
      <4> QED BY <1>1, <3>1, <4>1, Zenon
    <3> QED BY <3>1, <3>2, <3>3 DEF PartOf
  <2> QED BY <1>1, <1>2, <2>1, <2>2
<1>3. CASE v \in Prefixes(w)
  <2>1. PICK k \in 0..Len(w) : v = SubSeq(w, 1, k)
    BY <1>3 DEF Prefixes
  <2>2. k \in Nat /\ k <= Len(w) /\ 1 \in Nat \ {0}
    BY <1>1
  <2> QED BY <1>2, <2>1, <2>2, ZenonT(30)
<1>4. CASE v \in Suffixes(w)
  <2>1. PICK k \in 1..(Len(w) + 1) : v = SubSeq(w, k, Len(w))
    BY <1>4 DEF Suffixes
  <2>2. k \in Nat \ {0} /\ Len(w) \in Nat /\ Len(w) <= Len(w)
    BY <1>1
  <2> QED BY <1>2, <2>1, <2>2, ZenonT(30)
<1>5. CASE w # <<>> /\ v = Tail(w)
  <2>1. v \in Seq(S) /\ DOMAIN v = 1..(Len(w) - 1) /\ \A i \in 1..(Len(w) - 1) : v[i] = w[i + 1]
    BY <1>1, <1>5
  <2>2. \A i \in DOMAIN v : i + 1 \in DOMAIN w /\ v[i] = w[i + 1]
    BY <1>1, <2>1
  <2>3. 1 \in Nat
    OBVIOUS
  <2> QED BY <2>1, <2>2, <2>3 DEF PartOf
<1> QED BY <1>3, <1>4, <1>5

\* A frame handed to the relay.
LEMMA ForwardedWire ==
    ASSUME NEW S, NEW w \in Seq(S), NEW f \in S, NEW v \in Forwarded(w, f)
    PROVE  v \in Seq(S) /\ (v = w \/ v = Append(w, f))
BY DEF Forwarded

\* The keys, flags and bounds of the link.
LEMMA LinkStep ==
    ASSUME LinkTypes, [Next]_vars
    PROVE  LinkTypes'
<1>1. CASE UNCHANGED <<life, linkVars>>
  BY <1>1 DEF LinkTypes, linkVars
<1>2. CASE LinkLost
  <2>1. losses' \in [link : 0..MaxLinkLosses, peer : 0..MaxPeerLosses]
    BY <1>2, ChatLinkConstants DEF LinkLost, LinkTypes
  <2> QED BY <1>2, <2>1, Zenon DEF LinkLost, LinkTypes
<1>3. CASE PeerLost
  <2>1. losses' \in [link : 0..MaxLinkLosses, peer : 0..MaxPeerLosses]
    BY <1>3, ChatLinkConstants DEF PeerLost, LinkTypes
  <2>2. present' \in BOOLEAN
    BY <1>3 DEF PeerLost
  <2> QED BY <1>3, <2>1, <2>2, Zenon DEF PeerLost, LinkTypes
<1>4. CASE LinkRestored
  BY <1>4 DEF LinkRestored, LinkTypes
<1>5. CASE PeerBack
  BY <1>5 DEF PeerBack, LinkTypes
<1>6. CASE HandleKexHello
  <2>1. gen' \in Nat /\ gen' = gen + 1
    BY <1>6 DEF HandleKexHello, LinkTypes
  <2>2. CASE SenderIsHost
    BY <1>6, <2>1, <2>2 DEF HandleKexHello, SetSession, LinkTypes
  <2>3. CASE ~ SenderIsHost
    BY <1>6, <2>1, <2>3 DEF HandleKexHello, SetSession, LinkTypes
  <2> QED BY <2>2, <2>3
<1>7. CASE HandleKexReply
  BY <1>7, Zenon DEF HandleKexReply, SetSession, LinkTypes
<1>8. CASE Restart
  <2>1. life' \in 1..Lives /\ sKey' \in Nat
    BY <1>8, ChatLinkConstants DEF Restart, LinkTypes
  <2>2. kex' \in {"none", "hello", "reply"}
    BY <1>8 DEF Restart
  <2>3. rReady' \in BOOLEAN /\ present' \in BOOLEAN /\ ready' \in BOOLEAN /\ usable' \in BOOLEAN
    BY <1>8, ZenonT(30) DEF Restart, LinkTypes
  <2> QED BY <1>8, <2>1, <2>2, <2>3 DEF Restart, LinkTypes
<1>9. CASE PumpStep
  BY <1>1, <1>9 DEF PumpStep, PumpTake, WaitSendable, StartSend, SendDone, SendFailed, AckTimeout,
                    WaiterCancelled, NextAttempt, DeliveryConfirmed
<1>10. CASE \/ \E m \in Ids : SendMessage(m)
            \/ HandleMessage \/ HandleAck \/ HandleReadReceipt \/ Watchdog \/ MarkRead
  BY <1>1, <1>10 DEF SendMessage, HandleMessage, HandleAck, HandleReadReceipt, Watchdog, MarkRead
<1>11. CASE UNCHANGED vars
  BY <1>1, <1>11 DEF vars
<1> QED BY <1>2, <1>3, <1>4, <1>5, <1>6, <1>7, <1>8, <1>9, <1>10, <1>11, ZenonT(30) DEF Next, Recovery

\* The message of the frame that arrives next.
LEMMA HeadMessage ==
    ASSUME WireTypes, msgWire # <<>>
    PROVE  Head(msgWire).msg \in Ids
<1>1. Head(msgWire) \in MsgFrames
  BY DEF WireTypes
<1> QED BY <1>1 DEF MsgFrames

\* _handle_message opens the frame under the current key, or drops it.
LEMMA MessageArrives ==
    ASSUME WireTypes, HandleMessage
    PROVE  \/ UNCHANGED ibVars
           \/ Head(msgWire).msg \in Ids /\ Accept(Head(msgWire).msg)
<1>1. msgWire # <<>> /\ (UNCHANGED ibVars \/ Accept(Head(msgWire).msg))
  BY Zenon DEF HandleMessage, ibVars
<1> QED BY <1>1, HeadMessage, Zenon

\* The receiver's side of a step: a drain, an accept, a read cursor, or nothing.
LEMMA ReceiverStep ==
    ASSUME ReceiverInv, WireTypes, [Next]_vars
    PROVE  ReceiverInv' /\ highestRead' \in Nat /\ Grown(delivered, delivered')
<1>1. /\ expected \in Nat \ {0} /\ delivered \in Seq(Ids) /\ Len(delivered) \in Nat
      /\ DOMAIN buffer \subseteq Nat /\ highestRead \in Nat
      /\ ReceiverInv' => highestRead' \in Nat
  BY DEF ReceiverInv, IB!InboxTypeOK
<1>2. CASE UNCHANGED ibVars
  BY <1>1, <1>2 DEF ibVars, ReceiverInv, IB!InboxTypeOK, Below, From, EndsAt, Grown
<1>3. CASE HandleMessage
  <2>1. CASE Head(msgWire).msg \in Ids /\ Accept(Head(msgWire).msg)
    BY <1>1, <2>1, AcceptEffect, Zenon
  <2> QED BY <1>2, <1>3, <2>1, MessageArrives, Zenon
<1>4. CASE Watchdog
  BY <1>1, <1>4, StarvationEffect, ZenonT(30) DEF Watchdog
<1>5. CASE MarkRead
  <2>1. /\ unread' = 0 /\ UNCHANGED <<expected, buffer, seen, delivered, verdict>>
        /\ highestRead' \in {highestRead, expected - 1} \cup DOMAIN buffer
    BY <1>5 DEF MarkRead, IB!MarkAllRead
  <2>2. highestRead' \in Nat
    BY <1>1, <2>1
  <2>3. IB!InboxTypeOK'
    BY <2>1, <2>2, Zenon DEF ReceiverInv, IB!InboxTypeOK
  <2> QED BY <1>1, <2>1, <2>2, <2>3 DEF ReceiverInv, Below, From, EndsAt, Grown
<1>6. CASE PumpStep
  BY <1>2, <1>6, Zenon DEF PumpStep, PumpTake, WaitSendable, StartSend, SendDone, SendFailed, AckTimeout,
                    WaiterCancelled, NextAttempt, DeliveryConfirmed
<1>7. CASE (\E m \in Ids : SendMessage(m)) \/ HandleAck \/ HandleReadReceipt
  BY <1>2, <1>7, Zenon DEF SendMessage, HandleAck, HandleReadReceipt
<1>8. CASE LinkLost \/ PeerLost \/ Recovery \/ Restart
  BY <1>2, <1>8, ZenonT(30) DEF LinkLost, PeerLost, Recovery, LinkRestored, PeerBack, HandleKexHello, HandleKexReply,
                    Restart
<1>9. CASE UNCHANGED vars
  BY <1>2, <1>9, Zenon DEF vars
<1> QED BY <1>3, <1>4, <1>5, <1>6, <1>7, <1>8, <1>9 DEF Next

\* How one step changes the wire that carries the messages.
LEMMA MsgWireStep ==
    ASSUME SenderInv, WireTypes, LinkTypes, [Next]_vars
    PROVE  /\ msgWire' \in Seq(MsgFrames)
           /\ \/ PartOf(msgWire', msgWire)
              \/ StartSend /\ msgWire' = Append(msgWire, [msg |-> pump.msg, key |-> sKey])
<1>1. msgWire \in Seq(MsgFrames)
  BY DEF WireTypes
<1>2. CASE UNCHANGED msgWire
  <2>1. 0 \in Nat /\ \A i \in DOMAIN msgWire : i + 0 \in DOMAIN msgWire /\ msgWire[i] = msgWire[i + 0]
    BY <1>1
  <2> QED BY <1>1, <1>2, <2>1, Zenon DEF PartOf
<1>3. CASE StartSend
  <2>1. pump.msg \in Ids
    BY <1>3 DEF StartSend, SenderInv, Busy
  <2>2. [msg |-> pump.msg, key |-> sKey] \in MsgFrames
    BY <2>1 DEF LinkTypes, MsgFrames
  <2>3. msgWire' \in Forwarded(msgWire, [msg |-> pump.msg, key |-> sKey])
    BY <1>3 DEF StartSend
  <2>4. /\ msgWire' \in Seq(MsgFrames)
        /\ msgWire' = msgWire \/ msgWire' = Append(msgWire, [msg |-> pump.msg, key |-> sKey])
    BY <1>1, <2>2, <2>3, ForwardedWire
  <2> QED BY <1>2, <1>3, <2>4
<1>4. CASE HandleMessage
  BY <1>1, <1>4, WireParts, ZenonT(30) DEF HandleMessage
<1>5. CASE LinkLost \/ PeerLost \/ Restart
  BY <1>1, <1>5, WireParts DEF LinkLost, PeerLost, Restart
<1>6. CASE PumpStep
  BY <1>2, <1>3, <1>6 DEF PumpStep, PumpTake, WaitSendable, SendDone, SendFailed, AckTimeout,
                    WaiterCancelled, NextAttempt, DeliveryConfirmed, wireVars
<1>7. CASE (\E m \in Ids : SendMessage(m)) \/ HandleAck \/ HandleReadReceipt \/ Watchdog \/ MarkRead
  BY <1>2, <1>7 DEF SendMessage, HandleAck, HandleReadReceipt, Watchdog, MarkRead, wireVars
<1>8. CASE Recovery
  BY <1>2, <1>8, Zenon DEF Recovery, LinkRestored, PeerBack, HandleKexHello, HandleKexReply, wireVars
<1>9. CASE UNCHANGED vars
  BY <1>2, <1>9, ZenonT(30) DEF vars, wireVars
<1> QED BY <1>4, <1>5, <1>6, <1>7, <1>8, <1>9 DEF Next

\* How one step changes the wire that carries the answers, and the histories.
LEMMA AckWireStep ==
    ASSUME SenderInv, ReceiverInv, WireTypes, [Next]_vars
    PROVE  /\ ackWire' \in Seq(AckFrames) /\ lastReadSent' \in Nat
           /\ ackHandled' \subseteq Ids /\ reported' \subseteq Ids
           /\ \/ PartOf(ackWire', ackWire)
              \/ /\ HandleMessage /\ Accept(Head(msgWire).msg)
                 /\ ackWire' = Append(ackWire, [type |-> "ack", msg |-> Head(msgWire).msg])
              \/ \E h \in Nat : ackWire' = Append(ackWire, [type |-> "read", upTo |-> h])
           /\ \/ ackHandled' = ackHandled
              \/ /\ ackWire # <<>> /\ Head(ackWire).type = "ack" /\ HandleAck
                 /\ ackHandled' = ackHandled \cup {Head(ackWire).msg}
<1>1. /\ ackWire \in Seq(AckFrames) /\ msgWire \in Seq(MsgFrames) /\ lastReadSent \in Nat
      /\ ackHandled \subseteq Ids /\ reported \subseteq Ids
  BY DEF WireTypes
<1>2. PartOf(ackWire, ackWire)
  <2>1. 0 \in Nat /\ \A i \in DOMAIN ackWire : i + 0 \in DOMAIN ackWire /\ ackWire[i] = ackWire[i + 0]
    BY <1>1
  <2> QED BY <2>1 DEF PartOf
<1>3. CASE UNCHANGED <<ackWire, lastReadSent, ackHandled, reported>>
  BY <1>1, <1>2, <1>3, ZenonT(30)
<1>4. CASE HandleMessage
  <2>1. CASE Head(msgWire).key = rKey
    <3> DEFINE a == [type |-> "ack", msg |-> Head(msgWire).msg]
    <3>1. a \in AckFrames
      BY <1>4, HeadMessage, Zenon DEF HandleMessage, AckFrames
    <3>2. /\ ackWire' \in Forwarded(ackWire, a) /\ Accept(Head(msgWire).msg)
          /\ UNCHANGED <<lastReadSent, ackHandled, reported>>
      BY <1>4, <2>1, Zenon DEF HandleMessage, histVars
    <3>3. ackWire' \in Seq(AckFrames) /\ (ackWire' = ackWire \/ ackWire' = Append(ackWire, a))
      BY <1>1, <3>1, <3>2, ForwardedWire
    <3> QED BY <1>1, <1>2, <1>4, <3>2, <3>3, ZenonT(30)
  <2>2. CASE Head(msgWire).key # rKey
    BY <1>3, <1>4, <2>2, ZenonT(30) DEF HandleMessage, histVars
  <2> QED BY <2>1, <2>2, Zenon
<1>5. CASE MarkRead
  <2>1. highestRead' \in Nat
    BY ReceiverStep, Zenon
  <2>2. CASE highestRead' > lastReadSent /\ rReady
    <3> DEFINE a == [type |-> "read", upTo |-> highestRead']
    <3>1. a \in AckFrames
      BY <2>1 DEF AckFrames
    <3>2. ackWire' \in Forwarded(ackWire, a) /\ lastReadSent' = highestRead' /\ UNCHANGED histVars
      BY <1>5, <2>2, ZenonT(30) DEF MarkRead
    <3>3. ackWire' \in Seq(AckFrames) /\ (ackWire' = ackWire \/ ackWire' = Append(ackWire, a))
      BY <1>1, <3>1, <3>2, ForwardedWire
    <3> QED BY <1>1, <1>2, <2>1, <3>2, <3>3 DEF histVars
  <2>3. CASE ~ (highestRead' > lastReadSent /\ rReady)
    BY <1>3, <1>5, <2>3, ZenonT(30) DEF MarkRead, histVars
  <2> QED BY <2>2, <2>3, Zenon
<1>6. CASE HandleAck
  <2>0. ackWire # <<>> /\ Head(ackWire).type = "ack"
        /\ ackHandled' = ackHandled \cup {Head(ackWire).msg} /\ ackWire' = Tail(ackWire)
        /\ UNCHANGED <<lastReadSent, reported>>
    BY <1>6 DEF HandleAck
  <2>1. Head(ackWire) \in AckFrames
    BY <1>1, <2>0
  <2>2. Head(ackWire).msg \in Ids
    BY <2>0, <2>1 DEF AckFrames
  <2>3. ackWire' \in Seq(AckFrames) /\ PartOf(ackWire', ackWire)
    BY <1>1, <2>0, WireParts, ZenonT(30)
  <2> QED BY <1>1, <1>6, <2>0, <2>2, <2>3, ZenonT(30)
<1>7. CASE HandleReadReceipt
  BY <1>1, <1>7, WireParts, ZenonT(30) DEF HandleReadReceipt, histVars
<1>8. CASE LinkLost \/ PeerLost \/ Restart
  BY <1>1, <1>8, WireParts, ZenonT(30) DEF LinkLost, PeerLost, Restart, histVars
<1>9. CASE DeliveryConfirmed
  <2>1. pump.msg \in Ids
    BY <1>9, ZenonT(30) DEF DeliveryConfirmed, SenderInv, Busy
  <2> QED BY <1>1, <1>2, <1>9, <2>1 DEF DeliveryConfirmed, wireVars
<1>10. CASE PumpStep
  BY <1>3, <1>9, <1>10, Zenon DEF PumpStep, PumpTake, WaitSendable, StartSend, SendDone, SendFailed, AckTimeout,
                    WaiterCancelled, NextAttempt, wireVars, histVars
<1>11. CASE (\E m \in Ids : SendMessage(m)) \/ Watchdog \/ Recovery
  BY <1>3, <1>11, Zenon DEF SendMessage, Watchdog, Recovery, LinkRestored, PeerBack, HandleKexHello,
                     HandleKexReply, wireVars, histVars
<1>12. CASE UNCHANGED vars
  BY <1>3, <1>12 DEF vars, wireVars, histVars
<1> QED BY <1>4, <1>5, <1>6, <1>7, <1>8, <1>10, <1>11, <1>12, ZenonT(30) DEF Next

-----------------------------------------------------------------------------
(* The conversation across restarts. *)

\* What holds however often the sending application restarts.
LinkInv == SenderInv /\ ReceiverInv /\ LinkTypes /\ WireTypes

\* Nothing is submitted, held or on its way when the conversation starts.
LEMMA InitLink == Init => LinkInv
<1> SUFFICES ASSUME Init PROVE LinkInv
  OBVIOUS
<1>1. /\ pump = Idle /\ pump.pc = "idle" /\ queue = <<>> /\ DOMAIN queue = {} /\ DOMAIN delivered = {}
      /\ DOMAIN buffer = {}
      /\ \A n \in Ids : status[n] = "NONE" /\ waiter[n] = "none"
  BY DEF Init, Idle, OB!OutboxInit, IB!InboxInit
<1>2. OB!OutboxTypeOK
  BY DEF Init, OB!OutboxInit, OB!OutboxTypeOK, OB!WaiterStates
<1>3. pump \in PumpStates
  BY ChatLinkConstants DEF Init, PumpStates, Idle
<1>4. SenderInv
  BY <1>1, <1>2, <1>3 DEF SenderInv, PumpOwnsUnsettled, Busy, OB!NoStrandedMessage, ResultMeansLanded,
                          UnnumberedIsNew
<1>5. IB!InboxTypeOK
  BY ChatLinkConstants DEF Init, IB!InboxInit, IB!InboxTypeOK
<1>6. delivered = <<>> /\ expected = 1 /\ buffer = [s \in {} |-> 0]
  BY DEF Init, IB!InboxInit
<1>7. Below(delivered, expected) /\ From(buffer, expected + 1) /\ EndsAt(delivered, expected)
  BY <1>1, <1>5, <1>6 DEF Below, From, EndsAt, IB!InboxTypeOK
<1>8. LinkTypes
  BY ChatLinkConstants DEF Init, LinkTypes
<1>9. WireTypes
  BY DEF Init, WireTypes
<1> QED BY <1>4, <1>5, <1>7, <1>8, <1>9 DEF LinkInv, ReceiverInv

\* Every step keeps what holds across restarts.
LEMMA StepLink == LinkInv /\ [Next]_vars => LinkInv'
<1> SUFFICES ASSUME SenderInv, ReceiverInv, LinkTypes, WireTypes, [Next]_vars
             PROVE  LinkInv'
  BY DEF LinkInv
<1>1. SenderInv'
  BY SenderStep DEF WireTypes
<1>2. ReceiverInv'
  BY ReceiverStep
<1>3. LinkTypes'
  BY LinkStep
<1>4. msgWire' \in Seq(MsgFrames)
  BY MsgWireStep
<1>5. WireTypes'
  BY <1>4, AckWireStep DEF WireTypes
<1> QED BY <1>1, <1>2, <1>3, <1>5, ZenonT(30) DEF LinkInv

\* The invariant bounds the counters, and the pump owns what is unsettled.
LEMMA LinkInvSafe == LinkInv => TypeOK /\ PumpOwnsUnsettled
BY DEF LinkInv, SenderInv, ReceiverInv, LinkTypes, WireTypes, PumpStates, MsgFrames, AckFrames, TypeOK

\* Across any losses, key changes and restarts of the sender the counters stay
\* in their limits and the pump never leaves an unsettled message behind
\* (_deliver, _pump, _ensure_pump).
THEOREM PumpNeverForgets == Spec => [](TypeOK /\ PumpOwnsUnsettled)
BY InitLink, StepLink, LinkInvSafe, PTL DEF Spec
=============================================================================
