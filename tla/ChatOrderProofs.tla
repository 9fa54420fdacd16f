-------------------------- MODULE ChatOrderProofs --------------------------
(***************************************************************************)
(* A conversation in one sending session: what is acknowledged is held and *)
(* the pump, the wires and the reorder buffer implement ordered delivery.  *)
(*                                                                         *)
(* SessionInv is inductive with LinkInv: numbers are given, written and    *)
(* received in one order, and what is acknowledged is held.                *)
(***************************************************************************)
EXTENDS ChatLinkProofs

\* The messages that wait in the queue.
Queued == {m \in Ids : status[m] = "QUEUED"}

\* The messages that may still be written.
Waiting == Queued \cup {m \in Ids : Busy /\ pump.msg = m}

\* The messages that were ever submitted.
Submitted == {m \in Ids : sequence[m] # 0}

\* The messages on the wire.
Sent == {msgWire[i].msg : i \in DOMAIN msgWire}

\* No message of A comes after one of B.
Before(A, B) == \A a \in A, b \in B : SequenceOf[a] <= SequenceOf[b]

\* Sequence numbers are given in the order of submission.
Numbered ==
    \A m \in Submitted : sequence[m] = SequenceOf[m] /\ SequenceOf[m] < nextSequence

\* Messages are written in the order of their numbers.
QueueOrder ==
    /\ \A i, j \in DOMAIN queue : i < j => SequenceOf[queue[i]] < SequenceOf[queue[j]]
    /\ Shown(queue) \subseteq Submitted
    /\ Busy => Before({pump.msg}, Queued)

\* Messages arrive in the order of their numbers: what the receiver holds
\* comes first, then what is on the wire, then what may still be written.
WireOrder ==
    /\ \A i, j \in DOMAIN msgWire : i <= j => SequenceOf[msgWire[i].msg] <= SequenceOf[msgWire[j].msg]
    /\ Sent \subseteq Submitted /\ Held \subseteq Submitted
    /\ Before(Held, Sent) /\ Before(Sent, Waiting) /\ Before(Held, Waiting)

\* What the receiver remembers or acknowledged, it holds.
AnswersKept ==
    /\ Shown(seen) \subseteq Held
    /\ \A i \in DOMAIN ackWire : ackWire[i].type = "ack" => ackWire[i].msg \in Held
    /\ ackHandled \subseteq Held

-----------------------------------------------------------------------------
(* One sending session: the order of what waits. *)

\* What is in the outbox was submitted.
LEMMA InOutboxIsSubmitted ==
    ASSUME SenderInv, NEW m \in Ids, status[m] # "NONE"
    PROVE  m \in Submitted
BY DEF SenderInv, UnnumberedIsNew, Submitted

\* The steps that add nothing to what waits.
LEMMA OrderKept ==
    ASSUME SenderInv, Numbered, QueueOrder, UNCHANGED <<sequence, nextSequence, queue>>,
           Queued' \subseteq Queued, Busy' => Busy /\ pump'.msg = pump.msg
    PROVE  Numbered' /\ QueueOrder' /\ Submitted' = Submitted /\ Waiting' \subseteq Waiting
<1>1. Submitted' = Submitted
  BY DEF Submitted
<1>2. Numbered'
  BY <1>1 DEF Numbered
<1>3. QueueOrder'
  BY <1>1 DEF QueueOrder, Shown, Before
<1>4. Waiting' \subseteq Waiting
  BY DEF Waiting
<1> QED BY <1>1, <1>2, <1>3, <1>4

\* send_message: the newest message has the highest number.
LEMMA SendMessageOrder ==
    ASSUME Lives = 1, SenderInv, Numbered, QueueOrder, NEW m \in Ids, SendMessage(m)
    PROVE  /\ Numbered' /\ QueueOrder' /\ Submitted' = Submitted \cup {m} /\ m \notin Submitted
           /\ Waiting' \subseteq Waiting \cup {m}
           /\ \A n \in Submitted : SequenceOf[n] < SequenceOf[m]
<1>1. /\ sequence[m] = 0 /\ m = <<life, nextSequence>>
      /\ status' = [status EXCEPT ![m] = "QUEUED"]
      /\ sequence' = [sequence EXCEPT ![m] = nextSequence]
      /\ nextSequence' = nextSequence + 1
      /\ queue' = Append(queue, m)
      /\ pump' = IF pump.pc = "idle" THEN [pump EXCEPT !.pc = "start"] ELSE pump
  BY DEF SendMessage, OB!Enqueue
<1>2. SenderTypes
  BY SenderTyped
<1>3. SequenceOf[m] = nextSequence /\ nextSequence \in Nat \ {0}
  BY <1>1, <1>2, NumberOfNext DEF SenderTypes
<1>4. \A n \in Submitted : SequenceOf[n] < SequenceOf[m]
  BY <1>3 DEF Numbered
<1>5. Submitted' = Submitted \cup {m} /\ m \notin Submitted
  BY <1>1, <1>2, <1>3, ZenonT(30) DEF Submitted, SenderTypes
<1>6. Numbered'
  <2> SUFFICES ASSUME NEW n \in Submitted'
               PROVE  sequence'[n] = SequenceOf[n] /\ SequenceOf[n] < nextSequence'
    BY DEF Numbered
  <2>1. CASE n = m
    BY <1>1, <1>2, <1>3, <2>1 DEF SenderTypes
  <2>2. CASE n # m
    <3>1. n \in Submitted /\ n \in Ids
      BY <1>5, <2>2 DEF Submitted
    <3>2. sequence[n] = SequenceOf[n] /\ SequenceOf[n] < nextSequence /\ SequenceOf[n] \in Nat
      BY <3>1, NumberType DEF Numbered
    <3>3. sequence'[n] = sequence[n]
      BY <1>1, <1>2, <2>2, <3>1 DEF SenderTypes
    <3> QED BY <1>1, <1>3, <3>2, <3>3
  <2> QED BY <2>1, <2>2
<1>7. /\ Len(queue) \in Nat /\ DOMAIN queue = 1..Len(queue) /\ DOMAIN queue' = 1..(Len(queue) + 1)
      /\ queue'[Len(queue) + 1] = m /\ \A k \in 1..Len(queue) : queue'[k] = queue[k]
  BY <1>1, <1>2 DEF SenderTypes
<1>8. ASSUME NEW i \in DOMAIN queue', NEW j \in DOMAIN queue', i < j
      PROVE  SequenceOf[queue'[i]] < SequenceOf[queue'[j]]
  <2>1. i \in 1..Len(queue) /\ queue'[i] = queue[i] /\ queue[i] \in Submitted
    BY <1>7, <1>8 DEF QueueOrder, Shown
  <2>2. CASE j \in 1..Len(queue)
    BY <1>7, <1>8, <2>1, <2>2, ZenonT(30) DEF QueueOrder
  <2>3. CASE j = Len(queue) + 1
    BY <1>4, <1>7, <2>1, <2>3, ZenonT(30)
  <2> QED BY <1>7, <2>2, <2>3
<1>9. Shown(queue') \subseteq Submitted'
  BY <1>5, <1>7 DEF QueueOrder, Shown
<1>10. Queued' \subseteq Queued \cup {m} /\ (Busy' => Busy /\ pump'.msg = pump.msg)
  BY <1>1, <1>2 DEF Queued, Busy, SenderTypes, PumpStates
<1>11. Waiting' \subseteq Waiting \cup {m}
  BY <1>10 DEF Waiting
<1>12. ASSUME Busy', NEW n \in Queued'
       PROVE  SequenceOf[pump'.msg] <= SequenceOf[n]
  <2>1. pump.msg \in Submitted /\ pump'.msg = pump.msg /\ Busy
    BY <1>10, <1>12, InOutboxIsSubmitted DEF SenderInv
  <2>2. CASE n = m
    <3>1. SequenceOf[pump.msg] < SequenceOf[m] /\ SequenceOf[pump.msg] \in Nat
      BY <1>4, <2>1, NumberType DEF Submitted
    <3> QED BY <1>3, <2>1, <2>2, <3>1
  <2>3. CASE n # m
    BY <1>10, <2>1, <2>3, ZenonT(30) DEF QueueOrder, Before
  <2> QED BY <2>2, <2>3
<1>13. QueueOrder'
  BY <1>8, <1>9, <1>12 DEF QueueOrder, Before
<1> QED BY <1>4, <1>5, <1>6, <1>11, <1>13

\* _pump takes the waiting message with the lowest number.
LEMMA PumpTakeOrder ==
    ASSUME SenderInv, Numbered, QueueOrder, PumpTake
    PROVE  Numbered' /\ QueueOrder' /\ Submitted' = Submitted /\ Waiting' \subseteq Waiting
<1>1. SenderTypes /\ UNCHANGED <<sequence, nextSequence>>
  BY SenderTyped DEF PumpTake, OB!NextQueued, OB!NothingQueued
<1>2. Submitted' = Submitted /\ Numbered'
  BY <1>1 DEF Submitted, Numbered
<1>3. CASE \E m \in Ids : OB!NextQueued(m) /\ pump' = [pc |-> "try", msg |-> m, attempt |-> 1]
  <2>1. PICK m \in Ids : OB!NextQueued(m) /\ pump' = [pc |-> "try", msg |-> m, attempt |-> 1]
    BY <1>3, Zenon
  <2>2. PICK k \in 1..Len(queue) :
            /\ OB!FirstLive(k) /\ queue[k] = m
            /\ queue' = SubSeq(queue, k + 1, Len(queue))
            /\ status' = [status EXCEPT ![m] = "SENDING"]
    BY <2>1, Zenon DEF OB!NextQueued
  <2>3. /\ Len(queue) \in Nat /\ DOMAIN queue = 1..Len(queue) /\ DOMAIN queue' = 1..(Len(queue) - k)
        /\ \A i \in 1..(Len(queue) - k) : queue'[i] = queue[k + i]
    BY <1>1, <2>2 DEF SenderTypes
  <2>4. \A i \in DOMAIN queue' : k + i \in DOMAIN queue /\ queue'[i] = queue[k + i]
    BY <2>3
  <2>5. \A i, j \in DOMAIN queue' : i < j => SequenceOf[queue'[i]] < SequenceOf[queue'[j]]
    <3> SUFFICES ASSUME NEW i \in DOMAIN queue', NEW j \in DOMAIN queue', i < j
                 PROVE  SequenceOf[queue'[i]] < SequenceOf[queue'[j]]
      OBVIOUS
    <3>1. k + i < k + j
      BY <2>3
    <3>2. SequenceOf[queue[k + i]] < SequenceOf[queue[k + j]]
      BY <2>4, <3>1, ZenonT(30) DEF QueueOrder
    <3> QED BY <2>4, <3>2, ZenonT(30)
  <2>6. Shown(queue') \subseteq Submitted'
    BY <1>2, <2>4 DEF QueueOrder, Shown
  <2>7. m \in Queued /\ Queued' = Queued \ {m}
    BY <1>1, <2>2 DEF Queued, OB!FirstLive, SenderTypes
  <2>8. pump'.msg = m
    BY <2>1
  <2>9. ASSUME NEW n \in Queued'
        PROVE  SequenceOf[m] <= SequenceOf[n]
    <3>1. n \in Ids /\ n # m /\ status[n] = "QUEUED"
      BY <2>7 DEF Queued
    <3>2. PICK j \in 1..Len(queue) : queue[j] = n
      BY <1>1, <3>1 DEF SenderInv, SenderTypes, OB!NoStrandedMessage, OB!Slots
    <3>3. j > k
      BY <2>2, <3>1, <3>2 DEF OB!FirstLive
    <3>4. SequenceOf[queue[k]] < SequenceOf[queue[j]]
      BY <2>3, <3>3 DEF QueueOrder
    <3>5. SequenceOf[m] \in Nat /\ SequenceOf[n] \in Nat
      BY <3>1, NumberType, Zenon
    <3> QED BY <2>2, <3>2, <3>4, <3>5
  <2>10. QueueOrder'
    BY <2>5, <2>6, <2>8, <2>9 DEF QueueOrder, Before
  <2>11. Waiting' \subseteq Waiting
    BY <2>7, <2>8 DEF Waiting
  <2> QED BY <1>2, <2>10, <2>11
<1>4. CASE OB!NothingQueued /\ pump' = Idle
  <2>1. queue' = <<>> /\ status' = status
    BY <1>4 DEF OB!NothingQueued
  <2>2. DOMAIN queue' = {}
    BY <2>1
  <2>3. ~ Busy'
    BY <1>4, Zenon DEF Busy, Idle
  <2>4. QueueOrder'
    BY <2>2, <2>3 DEF QueueOrder, Shown
  <2>5. Waiting' \subseteq Waiting
    BY <2>1, <2>3 DEF Waiting, Queued
  <2> QED BY <1>2, <2>4, <2>5
<1> QED BY <1>3, <1>4 DEF PumpTake

\* A lost link: what was in flight waits again, in the order of its numbers.
LEMMA LinkLostOrder ==
    ASSUME SenderInv, Numbered, QueueOrder, LinkLost
    PROVE  Numbered' /\ QueueOrder' /\ Submitted' = Submitted /\ Waiting' \subseteq Waiting
<1>1. SenderTypes /\ OB!RequeueUnacked /\ pump' = pump
  BY SenderTyped DEF LinkLost, OB!OnReconnecting
<1>2. UNCHANGED <<sequence, nextSequence>>
      /\ \A n \in Ids : status'[n] = IF n \in OB!Pending THEN "QUEUED" ELSE status[n]
  BY <1>1 DEF OB!RequeueUnacked
<1>3. Submitted' = Submitted /\ Numbered'
  BY <1>2 DEF Submitted, Numbered
<1>4. OB!Pending \in SUBSET Ids
  BY DEF OB!Pending
<1>5. OB!Pending \subseteq Submitted
  BY InOutboxIsSubmitted DEF OB!Pending
<1>6. PICK q \in OB!SortedBySequence(OB!Pending) : queue' = q
  BY <1>1 DEF OB!RequeueUnacked
<1>7. /\ \A i \in DOMAIN queue' : queue'[i] \in OB!Pending
      /\ \A i, j \in DOMAIN queue' : i < j => sequence[queue'[i]] < sequence[queue'[j]]
  BY <1>4, <1>6, SortedListing
<1>8. Shown(queue') \subseteq Submitted'
  BY <1>3, <1>5, <1>7 DEF Shown
<1>9. \A i, j \in DOMAIN queue' : i < j => SequenceOf[queue'[i]] < SequenceOf[queue'[j]]
  BY <1>5, <1>7 DEF Numbered
<1>10. \A n \in Queued' : n \in Queued \/ (Busy /\ n = pump.msg)
  BY <1>2 DEF Queued, OB!Pending, SenderInv, PumpOwnsUnsettled, Busy
<1>11. Busy' => Busy
  BY <1>1 DEF Busy
<1>12. ASSUME Busy', NEW n \in Queued'
       PROVE  SequenceOf[pump'.msg] <= SequenceOf[n]
  <2>1. CASE n \in Queued
    BY <1>1, <1>11, <1>12, <2>1 DEF QueueOrder, Before
  <2>2. CASE n = pump.msg
    <3>1. SequenceOf[n] \in Nat
      BY NumberType DEF Queued
    <3> QED BY <1>1, <2>2, <3>1
  <2> QED BY <1>10, <2>1, <2>2
<1>13. QueueOrder'
  BY <1>8, <1>9, <1>12 DEF QueueOrder, Before
<1>14. Waiting' \subseteq Waiting
  BY <1>1, <1>10, <1>11, ZenonT(30) DEF Waiting, Queued
<1> QED BY <1>3, <1>13, <1>14

\* Whatever happens, only a newly submitted message joins those that wait.
LEMMA SenderOrder ==
    ASSUME Lives = 1, SenderInv, LinkTypes, WireTypes, Numbered, QueueOrder, [Next]_vars
    PROVE  /\ Numbered' /\ QueueOrder' /\ Submitted \subseteq Submitted'
           /\ \A m \in Waiting' : m \in Waiting \/ \A n \in Submitted : SequenceOf[n] < SequenceOf[m]
<1>1. CASE UNCHANGED <<obVars, pump>>
  <2>1. UNCHANGED <<sequence, nextSequence, queue>> /\ Queued' = Queued
        /\ (Busy' => Busy /\ pump'.msg = pump.msg)
    BY <1>1 DEF obVars, Queued, Busy
  <2> QED BY <2>1, OrderKept
<1>2. ASSUME NEW m \in Ids, SendMessage(m)
      PROVE  /\ Numbered' /\ QueueOrder' /\ Submitted \subseteq Submitted'
             /\ \A x \in Waiting' : x \in Waiting \/ \A n \in Submitted : SequenceOf[n] < SequenceOf[x]
  BY <1>2, SendMessageOrder
<1>3. CASE PumpTake
  BY <1>3, PumpTakeOrder
<1>4. CASE WaitSendable \/ StartSend \/ SendDone
  <2>1. SenderTypes /\ Busy /\ pump.msg \in Ids
    BY <1>4, SenderTyped DEF SenderInv, Busy, WaitSendable, StartSend, SendDone
  <2>2. UNCHANGED <<sequence, nextSequence, queue>> /\ pump'.msg = pump.msg
    BY <1>4, <2>1 DEF WaitSendable, StartSend, SendDone, obVars, OB!RegisterAckWaiter, OB!MarkSent,
                      SenderTypes, PumpStates
  <2>3. Queued' \subseteq Queued
    BY <1>4, <2>1 DEF WaitSendable, StartSend, SendDone, obVars, OB!RegisterAckWaiter, OB!MarkSent,
                      OB!SentStatus, SenderTypes, Queued
  <2> QED BY <2>1, <2>2, <2>3, OrderKept
<1>5. CASE SendFailed \/ AckTimeout \/ WaiterCancelled
  <2>1. SenderTypes /\ Busy /\ NextAttempt /\ pump.msg \in Ids
    BY <1>5, SenderTyped DEF SenderInv, Busy, SendFailed, AckTimeout, WaiterCancelled
  <2>2. UNCHANGED <<sequence, nextSequence, queue>> /\ (Busy' => pump'.msg = pump.msg)
    BY <2>1, Zenon DEF NextAttempt, SenderTypes, PumpStates, Busy, Idle
  <2>3. Queued' \subseteq Queued
    BY <2>1 DEF NextAttempt, SenderTypes, Queued
  <2> QED BY <2>1, <2>2, <2>3, OrderKept, ZenonT(30)
<1>6. CASE DeliveryConfirmed
  <2>1. UNCHANGED <<sequence, nextSequence, queue>> /\ Queued' = Queued /\ ~ Busy'
    BY <1>6 DEF DeliveryConfirmed, obVars, Queued, Busy, Idle
  <2> QED BY <2>1, OrderKept
<1>7. CASE HandleAck \/ HandleReadReceipt
  <2>1. UNCHANGED <<sequence, nextSequence, queue, pump>>
    BY <1>7 DEF HandleAck, HandleReadReceipt, obVars, OB!MarkDelivered, OB!MarkReadUpTo
  <2>2. SenderTypes
    BY SenderTyped
  <2>3. \A n \in Ids : status'[n] = "QUEUED" => status[n] = "QUEUED"
    <3>1. CASE HandleAck
      BY <2>2, <3>1 DEF HandleAck, obVars, OB!MarkDelivered, SenderTypes
    <3>2. CASE HandleReadReceipt
      BY <2>2, <3>2 DEF HandleReadReceipt, OB!MarkReadUpTo, SenderTypes
    <3> QED BY <1>7, <3>1, <3>2, ZenonT(30)
  <2>4. Queued' \subseteq Queued /\ (Busy' => Busy)
    BY <2>1, <2>3, ZenonT(30) DEF Queued, Busy
  <2> QED BY <2>1, <2>4, OrderKept
<1>8. CASE LinkLost
  BY <1>8, LinkLostOrder
<1>9. CASE HandleMessage \/ Watchdog \/ MarkRead \/ PeerLost \/ Recovery
  BY <1>1, <1>9 DEF HandleMessage, Watchdog, MarkRead, PeerLost, Recovery, LinkRestored, PeerBack,
                    HandleKexHello, HandleKexReply
<1>10. ~ Restart
  BY DEF Restart, LinkTypes
<1>11. CASE UNCHANGED vars
  BY <1>1, <1>11 DEF vars
<1> QED BY <1>2, <1>3, <1>4, <1>5, <1>6, <1>7, <1>8, <1>9, <1>10, <1>11 DEF Next, PumpStep

-----------------------------------------------------------------------------
(* One sending session: what arrives. *)

\* A message whose number the cursor passed is one the receiver holds.
LEMMA PassedIsHeld ==
    ASSUME Lives = 1, ReceiverInv, WireOrder, NEW m \in Sent, m \in Ids, SequenceOf[m] < expected
    PROVE  m \in Held
<1>1. SequenceOf[m] \in Nat \ {0} /\ expected \in Nat
  BY NumberType DEF ReceiverInv, IB!InboxTypeOK
<1>2. expected > 1
  BY <1>1
<1>3. PICK i \in DOMAIN delivered : SequenceOf[delivered[i]] = expected - 1
  BY <1>2 DEF ReceiverInv, EndsAt
<1>4. delivered[i] \in Ids /\ delivered[i] \in Held
  BY DEF ReceiverInv, IB!InboxTypeOK, Held
<1>5. SequenceOf[delivered[i]] <= SequenceOf[m]
  BY <1>4 DEF WireOrder, Before
<1>6. SequenceOf[delivered[i]] = SequenceOf[m]
  BY <1>1, <1>3, <1>5
<1> QED BY <1>4, <1>6, NumberIsUnique

\* The message that arrives next.
LEMMA HeadIsSent ==
    ASSUME WireTypes, msgWire # <<>>
    PROVE  /\ 1 \in DOMAIN msgWire /\ Head(msgWire).msg = msgWire[1].msg
           /\ Head(msgWire).msg \in Sent /\ Head(msgWire).msg \in Ids
<1>1. 1 \in DOMAIN msgWire /\ Head(msgWire) = msgWire[1]
  BY DEF WireTypes
<1> QED BY <1>1, HeadMessage DEF Sent

\* What the receiver holds only grows, by the message that arrives.
LEMMA HeldStep ==
    ASSUME Lives = 1, ReceiverInv, WireTypes, WireOrder, AnswersKept, [Next]_vars
    PROVE  /\ Held \subseteq Held' /\ Shown(seen') \subseteq Held'
           /\ HandleMessage /\ Accept(Head(msgWire).msg) => Head(msgWire).msg \in Held'
           /\ Held' = Held \/ (HandleMessage /\ Held' \subseteq Held \cup {Head(msgWire).msg})
<1>1. CASE HandleMessage /\ Accept(Head(msgWire).msg)
  <2> DEFINE m == Head(msgWire).msg
  <2>1. m \in Ids /\ m \in Sent
    BY <1>1, HeadIsSent DEF HandleMessage
  <2> HIDE DEF m
  <2>2. /\ Shown(seen') \subseteq Shown(seen) \cup {m}
        /\ Held' \subseteq Held \cup {m} /\ Held \subseteq Held'
        /\ m \in Held' \/ m \in Shown(seen) \/ SequenceOf[m] < expected
    BY <1>1, <2>1, AcceptEffect DEF m
  <2>3. m \in Held'
    BY <2>1, <2>2, PassedIsHeld, ZenonT(30) DEF AnswersKept
  <2>4. Shown(seen') \subseteq Held'
    BY <2>2, <2>3 DEF AnswersKept
  <2> QED BY <1>1, <2>2, <2>3, <2>4 DEF m
<1>2. CASE UNCHANGED <<delivered, buffer, seen>> /\ ~ (HandleMessage /\ Accept(Head(msgWire).msg))
  BY <1>2 DEF Held, Shown, AnswersKept
<1>3. CASE IB!CheckStarvation /\ ~ (HandleMessage /\ Accept(Head(msgWire).msg))
  <2>1. Held' = Held /\ seen' = seen
    BY <1>3, StarvationEffect, ZenonT(30)
  <2> QED BY <1>3, <2>1 DEF Shown, AnswersKept
<1>4. IB!CheckStarvation \/ UNCHANGED <<delivered, buffer, seen>> \/ (HandleMessage /\ Accept(Head(msgWire).msg))
  <2>1. CASE HandleMessage \/ Watchdog \/ MarkRead
    BY <2>1, ZenonT(30) DEF HandleMessage, Watchdog, MarkRead, IB!MarkAllRead, ibVars
  <2>2. CASE PumpStep
    BY <2>2 DEF PumpStep, PumpTake, WaitSendable, StartSend, SendDone, SendFailed, AckTimeout,
                WaiterCancelled, NextAttempt, DeliveryConfirmed, ibVars
  <2>3. CASE (\E m \in Ids : SendMessage(m)) \/ HandleAck \/ HandleReadReceipt
    BY <2>3, ZenonT(30) DEF SendMessage, HandleAck, HandleReadReceipt, ibVars
  <2>4. CASE LinkLost \/ PeerLost \/ Recovery \/ Restart
    BY <2>4 DEF LinkLost, PeerLost, Recovery, LinkRestored, PeerBack, HandleKexHello, HandleKexReply,
                Restart, ibVars
  <2>5. CASE UNCHANGED vars
    BY <2>5 DEF vars, ibVars
  <2> QED BY <2>1, <2>2, <2>3, <2>4, <2>5, ZenonT(30) DEF Next
<1> QED BY <1>1, <1>2, <1>3, <1>4, ZenonT(30)

\* What is left of an ordered wire is ordered.
LEMMA PartOrdered ==
    ASSUME WireTypes, WireOrder, msgWire' \in Seq(MsgFrames), PartOf(msgWire', msgWire)
    PROVE  /\ \A i, j \in DOMAIN msgWire' :
                  i <= j => SequenceOf[msgWire'[i].msg] <= SequenceOf[msgWire'[j].msg]
           /\ Sent' \subseteq Sent
<1>1. PICK o \in Nat : \A i \in DOMAIN msgWire' :
                          i + o \in DOMAIN msgWire /\ msgWire'[i] = msgWire[i + o]
  BY DEF PartOf
<1>2. DOMAIN msgWire' \subseteq Nat
  OBVIOUS
<1>3. ASSUME NEW i \in DOMAIN msgWire', NEW j \in DOMAIN msgWire', i <= j
      PROVE  SequenceOf[msgWire'[i].msg] <= SequenceOf[msgWire'[j].msg]
  <2>1. i + o <= j + o
    BY <1>2, <1>3
  <2> QED BY <1>1, <2>1 DEF WireOrder
<1>4. Sent' \subseteq Sent
  BY <1>1 DEF Sent
<1> QED BY <1>3, <1>4

\* The order of arrival is kept by every step.
LEMMA WireOrderStep ==
    ASSUME Lives = 1, SenderInv, ReceiverInv, LinkTypes, WireTypes, Numbered, QueueOrder, WireOrder,
           AnswersKept, [Next]_vars
    PROVE  WireOrder'
<1>1. /\ Submitted \subseteq Submitted'
      /\ \A m \in Waiting' : m \in Waiting \/ \A n \in Submitted : SequenceOf[n] < SequenceOf[m]
  BY SenderOrder
<1>2. /\ Held \subseteq Held'
      /\ Held' = Held \/ (HandleMessage /\ Held' \subseteq Held \cup {Head(msgWire).msg})
  BY HeldStep
<1>3. /\ msgWire' \in Seq(MsgFrames)
      /\ \/ PartOf(msgWire', msgWire)
         \/ StartSend /\ msgWire' = Append(msgWire, [msg |-> pump.msg, key |-> sKey])
  BY MsgWireStep
<1>4. Held \subseteq Ids /\ Sent \subseteq Ids /\ Waiting \subseteq Ids /\ Waiting' \subseteq Ids
      /\ Submitted \subseteq Ids
  BY DEF WireOrder, Submitted, Waiting, Queued
<1>5. /\ Held \subseteq Submitted /\ Sent \subseteq Submitted
      /\ Before(Held, Sent) /\ Before(Sent, Waiting) /\ Before(Held, Waiting)
  BY DEF WireOrder
<1>6. Before(Sent, Waiting') /\ Before(Held, Waiting')
  <2>1. ASSUME NEW n \in Submitted, NEW m \in Waiting', SequenceOf[n] < SequenceOf[m]
        PROVE  SequenceOf[n] <= SequenceOf[m]
    BY <1>4, <2>1, NumberType
  <2> QED BY <1>1, <1>5, <2>1 DEF Before
<1>7. CASE StartSend /\ msgWire' = Append(msgWire, [msg |-> pump.msg, key |-> sKey])
  <2>1. pump.msg \in Ids /\ pump.msg \in Waiting /\ pump.msg \in Submitted
    BY <1>7, InOutboxIsSubmitted DEF StartSend, SenderInv, Busy, Waiting
  <2>2. Held' = Held
    BY <1>7 DEF StartSend, ibVars, Held
  <2> DEFINE n == Len(msgWire)
  <2>3. /\ n \in Nat /\ DOMAIN msgWire = 1..n /\ DOMAIN msgWire' = 1..(n + 1)
        /\ \A i \in 1..n : msgWire'[i] = msgWire[i]
        /\ msgWire'[n + 1] = [msg |-> pump.msg, key |-> sKey]
    BY <1>7 DEF WireTypes
  <2> HIDE DEF n
  <2>4. msgWire'[n + 1].msg = pump.msg
    BY <2>3
  <2>5. ASSUME NEW i \in DOMAIN msgWire'
        PROVE  \/ i \in 1..n /\ msgWire'[i].msg = msgWire[i].msg /\ msgWire[i].msg \in Sent
               \/ i = n + 1
    BY <2>3 DEF Sent
  <2>6. ASSUME NEW i \in DOMAIN msgWire', NEW j \in DOMAIN msgWire', i <= j
        PROVE  SequenceOf[msgWire'[i].msg] <= SequenceOf[msgWire'[j].msg]
    <3>1. CASE j \in 1..n
      <4>1. i \in 1..n
        BY <2>3, <2>6, <3>1
      <4> QED BY <2>3, <2>6, <3>1, <4>1 DEF WireOrder
    <3>2. CASE j = n + 1 /\ i \in 1..n
      BY <1>5, <2>1, <2>4, <2>3, <2>5, <3>2 DEF Before
    <3>3. CASE j = n + 1 /\ i = n + 1
      <4>1. SequenceOf[pump.msg] \in Nat
        BY <2>1, NumberType, ZenonT(30)
      <4> QED BY <2>4, <3>3, <4>1
    <3> QED BY <2>3, <3>1, <3>2, <3>3
  <2>7. Sent' \subseteq Sent \cup {pump.msg}
    BY <2>4, <2>5, ZenonT(30) DEF Sent
  <2>8. Before({pump.msg}, Waiting')
    <3> SUFFICES ASSUME NEW m \in Waiting' PROVE SequenceOf[pump.msg] <= SequenceOf[m]
      BY DEF Before
    <3>1. SequenceOf[pump.msg] \in Nat /\ SequenceOf[m] \in Nat
      BY <1>4, <2>1, NumberType
    <3>2. CASE \A x \in Submitted : SequenceOf[x] < SequenceOf[m]
      BY <2>1, <3>1, <3>2
    <3>3. CASE m \in Waiting
      <4>1. m \in Queued \/ m = pump.msg
        BY <3>3 DEF Waiting
      <4>2. CASE m \in Queued
        BY <1>7, <4>2 DEF QueueOrder, Before, StartSend, Busy
      <4> QED BY <3>1, <4>1, <4>2
    <3> QED BY <1>1, <3>2, <3>3
  <2>9. Sent' \subseteq Submitted' /\ Held' \subseteq Submitted'
    BY <1>1, <1>5, <2>1, <2>2, <2>7
  <2>10. Before(Held', Sent') /\ Before(Sent', Waiting') /\ Before(Held', Waiting')
    BY <1>5, <1>6, <2>1, <2>2, <2>7, <2>8 DEF Before
  <2> QED BY <2>6, <2>9, <2>10 DEF WireOrder
<1>8. CASE PartOf(msgWire', msgWire)
  <2>1. /\ \A i, j \in DOMAIN msgWire' :
                  i <= j => SequenceOf[msgWire'[i].msg] <= SequenceOf[msgWire'[j].msg]
        /\ Sent' \subseteq Sent
    BY <1>3, <1>8, PartOrdered
  <2>2. CASE Held' = Held
    BY <1>1, <1>5, <1>6, <2>1, <2>2, ZenonT(30) DEF WireOrder, Before
  <2>3. CASE HandleMessage /\ Held' \subseteq Held \cup {Head(msgWire).msg}
    <3> DEFINE m == Head(msgWire).msg
    <3>1. m \in Sent /\ 1 \in DOMAIN msgWire /\ m = msgWire[1].msg
      BY <2>3, HeadIsSent DEF HandleMessage
    <3> HIDE DEF m
    <3>2. Held' \subseteq Held \cup {m}
      BY <2>3, ZenonT(30) DEF m
    <3>3. Before({m}, Sent)
      <4>1. \A i \in DOMAIN msgWire : 1 <= i
        BY DEF WireTypes
      <4> QED BY <3>1, <4>1 DEF WireOrder, Before, Sent
    <3>4. Before(Held', Sent') /\ Before(Sent', Waiting') /\ Before(Held', Waiting')
      BY <1>5, <1>6, <2>1, <3>1, <3>2, <3>3 DEF Before
    <3>5. Sent' \subseteq Submitted' /\ Held' \subseteq Submitted'
      BY <1>1, <1>5, <2>1, <3>1, <3>2
    <3> QED BY <2>1, <3>4, <3>5 DEF WireOrder
  <2> QED BY <1>2, <2>2, <2>3
<1> QED BY <1>3, <1>7, <1>8

\* What is acknowledged is held, and stays held.
LEMMA AnswersStep ==
    ASSUME Lives = 1, SenderInv, ReceiverInv, WireTypes, WireOrder, AnswersKept, [Next]_vars
    PROVE  AnswersKept'
<1>1. /\ Held \subseteq Held' /\ Shown(seen') \subseteq Held'
      /\ HandleMessage /\ Accept(Head(msgWire).msg) => Head(msgWire).msg \in Held'
  BY HeldStep
<1>2. /\ ackWire' \in Seq(AckFrames) /\ ackWire \in Seq(AckFrames)
      /\ \/ PartOf(ackWire', ackWire)
         \/ /\ HandleMessage /\ Accept(Head(msgWire).msg)
            /\ ackWire' = Append(ackWire, [type |-> "ack", msg |-> Head(msgWire).msg])
         \/ \E h \in Nat : ackWire' = Append(ackWire, [type |-> "read", upTo |-> h])
      /\ \/ ackHandled' = ackHandled
         \/ /\ ackWire # <<>> /\ Head(ackWire).type = "ack"
            /\ ackHandled' = ackHandled \cup {Head(ackWire).msg}
  BY AckWireStep, ZenonT(30) DEF WireTypes
<1>3. ackHandled' \subseteq Held'
  <2>1. CASE ackHandled' = ackHandled
    BY <1>1, <2>1 DEF AnswersKept
  <2>2. CASE /\ ackWire # <<>> /\ Head(ackWire).type = "ack"
             /\ ackHandled' = ackHandled \cup {Head(ackWire).msg}
    <3>1. 1 \in DOMAIN ackWire /\ Head(ackWire) = ackWire[1]
      BY <1>2, <2>2
    <3> QED BY <1>1, <2>2, <3>1, ZenonT(30) DEF AnswersKept
  <2> QED BY <1>2, <2>1, <2>2
<1>4. ASSUME NEW f, ackWire' = Append(ackWire, f), f.type = "ack" => f.msg \in Held'
      PROVE  \A i \in DOMAIN ackWire' : ackWire'[i].type = "ack" => ackWire'[i].msg \in Held'
  <2>1. /\ Len(ackWire) \in Nat /\ DOMAIN ackWire = 1..Len(ackWire)
        /\ DOMAIN ackWire' = 1..(Len(ackWire) + 1)
        /\ \A i \in 1..Len(ackWire) : ackWire'[i] = ackWire[i]
        /\ ackWire'[Len(ackWire) + 1] = f
    BY <1>2, <1>4
  <2> SUFFICES ASSUME NEW i \in DOMAIN ackWire', ackWire'[i].type = "ack"
               PROVE  ackWire'[i].msg \in Held'
    BY Zenon
  <2>2. CASE i \in 1..Len(ackWire)
    BY <1>1, <2>1, <2>2 DEF AnswersKept
  <2>3. CASE i = Len(ackWire) + 1
    BY <1>4, <2>1, <2>3, ZenonT(30)
  <2> QED BY <2>1, <2>2, <2>3
<1>5. \A i \in DOMAIN ackWire' : ackWire'[i].type = "ack" => ackWire'[i].msg \in Held'
  <2>1. CASE PartOf(ackWire', ackWire)
    BY <1>1, <2>1, ZenonT(30) DEF AnswersKept, PartOf
  <2>2. CASE /\ HandleMessage /\ Accept(Head(msgWire).msg)
             /\ ackWire' = Append(ackWire, [type |-> "ack", msg |-> Head(msgWire).msg])
    BY <1>1, <1>4, <2>2
  <2>3. CASE \E h \in Nat : ackWire' = Append(ackWire, [type |-> "read", upTo |-> h])
    BY <1>4, <2>3
  <2> QED BY <1>2, <2>1, <2>2, <2>3, ZenonT(30)
<1> QED BY <1>1, <1>3, <1>5 DEF AnswersKept

-----------------------------------------------------------------------------
(* The conversation is safe. *)

\* What holds within one sending session.
SessionInv == Numbered /\ QueueOrder /\ WireOrder /\ AnswersKept

\* Nothing is submitted, sent or held at the start.
LEMMA InitSession == Init => SessionInv
<1> SUFFICES ASSUME Init PROVE SessionInv
  OBVIOUS
<1>1. /\ pump.pc = "idle" /\ DOMAIN queue = {} /\ DOMAIN delivered = {} /\ DOMAIN buffer = {}
      /\ DOMAIN msgWire = {} /\ DOMAIN ackWire = {} /\ DOMAIN seen = {} /\ ackHandled = {}
      /\ \A n \in Ids : sequence[n] = 0
  BY DEF Init, Idle, OB!OutboxInit, IB!InboxInit
<1>2. Submitted = {} /\ Held = {} /\ Sent = {} /\ Shown(queue) = {} /\ Shown(seen) = {} /\ ~ Busy
  BY <1>1 DEF Submitted, Held, Sent, Shown, Busy
<1> QED BY <1>1, <1>2, ZenonT(30) DEF SessionInv, Numbered, QueueOrder, WireOrder, AnswersKept, Before

\* Every step of one session keeps its orders.
LEMMA StepSession ==
    ASSUME Lives = 1
    PROVE  LinkInv /\ SessionInv /\ [Next]_vars => SessionInv'
<1> SUFFICES ASSUME SenderInv, ReceiverInv, LinkTypes, WireTypes,
                    Numbered, QueueOrder, WireOrder, AnswersKept, [Next]_vars
             PROVE  SessionInv'
  BY DEF LinkInv, SessionInv
<1>1. Numbered' /\ QueueOrder'
  BY SenderOrder
<1>2. WireOrder'
  BY WireOrderStep
<1>3. AnswersKept'
  BY AnswersStep
<1> QED BY <1>1, <1>2, <1>3 DEF SessionInv

\* In one sending session everything the sender was told has arrived is held
\* by the receiver: the conversation is safe whatever is lost, resent or
\* sealed under another key (_handle_message, _handle_ack).
THEOREM ChatStaysSafe ==
    ASSUME Lives = 1
    PROVE  Spec => []ChatSafe
<1>1. SessionInv => AcknowledgedIsKept
  BY DEF SessionInv, AnswersKept, AcknowledgedIsKept, Held
<1>2. LinkInv /\ SessionInv => ChatSafe
  BY <1>1, LinkInvSafe DEF ChatSafe
<1> QED BY InitLink, InitSession, StepLink, StepSession, <1>2, PTL DEF Spec

-----------------------------------------------------------------------------
(* The conversation keeps its promise. *)

\* What the sender reports about one message.
Verdict(s) == IF s \in {"DELIVERED", "READ"} THEN "delivered"
              ELSE IF s = "FAILED" THEN "failed" ELSE "pending"

\* The reports, message by message.
LEMMA ReportedIs == Reported = [m \in Ids |-> Verdict(status[m])]
BY DEF Reported, Verdict

\* A step that settles nothing changes no report.
LEMMA ReportsKept ==
    ASSUME \A m \in Ids : Verdict(status'[m]) = Verdict(status[m])
    PROVE  Reported' = Reported
<1>1. Reported' = [m \in Ids |-> Verdict(status'[m])]
  BY ReportedIs DEF Reported, Verdict
<1> QED BY <1>1, ReportedIs

\* A step that settles one message changes its report.
LEMMA ReportChanges ==
    ASSUME NEW m \in Ids, NEW s,
           \A n \in Ids : status'[n] = IF n = m THEN s ELSE status[n]
    PROVE  Reported' = [Reported EXCEPT ![m] = Verdict(s)]
<1>1. Reported' = [n \in Ids |-> Verdict(status'[n])]
  BY DEF Reported, Verdict
<1>2. \A n \in Ids : Verdict(status'[n]) = IF n = m THEN Verdict(s) ELSE Verdict(status[n])
  OBVIOUS
<1> QED BY <1>1, <1>2, ReportedIs

\* The steps that submit, receive, surface and settle nothing.
LEMMA StutterStep ==
    ASSUME UNCHANGED <<sequence, delivered, buffer>>,
           \A m \in Ids : Verdict(status'[m]) = Verdict(status[m])
    PROVE  UNCHANGED Promise!abstractVars
<1>1. Reported' = Reported
  BY ReportsKept
<1>2. Held' = Held /\ {m \in Ids : sequence[m] # 0}' = {m \in Ids : sequence[m] # 0}
  BY DEF Held
<1> QED BY <1>1, <1>2 DEF Promise!abstractVars

\* send_message submits.
LEMMA SubmitStep ==
    ASSUME Lives = 1, SenderInv, SessionInv, NEW m \in Ids, SendMessage(m)
    PROVE  Promise!Submit(m)
<1>1. /\ Submitted' = Submitted \cup {m} /\ m \notin Submitted
      /\ \A n \in Submitted : SequenceOf[n] < SequenceOf[m]
  BY SendMessageOrder DEF SessionInv
<1>2. SenderTypes /\ status' = [status EXCEPT ![m] = "QUEUED"] /\ sequence[m] = 0
  BY SenderTyped DEF SendMessage, OB!Enqueue
<1>3. status[m] = "NONE"
  BY <1>2 DEF SenderInv, UnnumberedIsNew
<1>4. \A n \in Ids : Verdict(status'[n]) = Verdict(status[n])
  BY <1>2, <1>3 DEF SenderTypes, Verdict
<1>5. Reported' = Reported
  BY <1>4, ReportsKept
<1>6. Held' = Held /\ delivered' = delivered
  BY DEF SendMessage, ibVars, Held
<1> QED BY <1>1, <1>5, <1>6 DEF Promise!Submit, Submitted

\* What arrives or is drained is progress: in order, and of what was submitted.
LEMMA ProgressStep ==
    ASSUME Lives = 1, LinkInv, SessionInv, LinkInv', SessionInv', [Next]_vars,
           HandleMessage \/ Watchdog
    PROVE  Promise!Progress
<1>1. UNCHANGED <<status, sequence>>
  BY DEF HandleMessage, Watchdog, obVars
<1>2. Reported' = Reported
  BY <1>1, ReportsKept
<1>3. Held \subseteq Held' /\ Held' \subseteq Submitted
  <2>1. Held' \subseteq Submitted' /\ Submitted' = Submitted
    BY <1>1 DEF SessionInv, WireOrder, Submitted
  <2> QED BY <2>1, HeldStep DEF LinkInv, SessionInv
<1>4. Grown(delivered, delivered')
  BY ReceiverStep DEF LinkInv
<1>5. /\ delivered' \in Seq(Ids) /\ delivered \in Seq(Ids)
      /\ \A i, j \in DOMAIN delivered' : i < j => SequenceOf[delivered'[i]] < SequenceOf[delivered'[j]]
  BY Zenon DEF LinkInv, ReceiverInv, Below
<1>6. DOMAIN delivered' = 1..Len(delivered')
  BY <1>5
<1>7. Promise!InOrder(delivered')
  BY <1>5, <1>6 DEF Promise!InOrder
<1>8. \A i \in 1..Len(delivered') : delivered'[i] \in Held'
  BY <1>6 DEF Held
<1>9. Promise!Extends(delivered, delivered')
  BY <1>4 DEF Grown, Promise!Extends
<1> QED BY <1>1, <1>2, <1>3, <1>7, <1>8, <1>9 DEF Promise!Progress, Submitted

\* An acknowledgement settles a message the receiver holds, once.
LEMMA AckStep ==
    ASSUME LinkInv, SessionInv, HandleAck
    PROVE  UNCHANGED Promise!abstractVars \/ \E m \in Ids : Promise!Settle(m)
<1> DEFINE m == Head(ackWire).msg
<1>1. SenderTypes
  BY SenderTyped DEF LinkInv
<1>2. m \in Ids /\ m \in Held
  <2>0. ackWire # <<>> /\ Head(ackWire).type = "ack"
    BY DEF HandleAck
  <2>1. Head(ackWire) \in AckFrames /\ Head(ackWire).type = "ack" /\ 1 \in DOMAIN ackWire
        /\ Head(ackWire) = ackWire[1]
    BY <2>0 DEF LinkInv, WireTypes
  <2>2. m \in Ids
    BY <2>1 DEF AckFrames
  <2> QED BY <2>1, <2>2 DEF SessionInv, AnswersKept
<1>3. /\ IF status[m] = "NONE" THEN UNCHANGED obVars ELSE OB!MarkDelivered(m)
      /\ UNCHANGED <<delivered, buffer>>
  BY DEF HandleAck, ibVars
<1> HIDE DEF m
<1>4. CASE OB!MarkDelivered(m) /\ OB!AckLands(m)
  <2>1. /\ status' = [status EXCEPT ![m] = "DELIVERED"] /\ status[m] \in {"SENDING", "SENT"}
        /\ sequence' = sequence
    BY <1>4 DEF OB!MarkDelivered, OB!AckLands
  <2>2. \A n \in Ids : status'[n] = IF n = m THEN "DELIVERED" ELSE status[n]
    BY <1>1, <1>2, <2>1 DEF SenderTypes
  <2>3. Reported' = [Reported EXCEPT ![m] = "delivered"]
    BY <1>2, <2>2, ReportChanges DEF Verdict
  <2>4. Reported[m] = "pending"
    BY <1>2, <2>1, ReportedIs DEF Verdict
  <2>5. m \in Submitted
    BY <1>2, <2>1, InOutboxIsSubmitted DEF LinkInv
  <2>6. Held' = Held
    BY <1>3 DEF Held
  <2>7. Promise!Settle(m)
    BY <1>2, <1>3, <2>1, <2>3, <2>4, <2>5, <2>6 DEF Promise!Settle, Submitted
  <2> QED BY <1>2, <2>7
<1>5. CASE UNCHANGED <<status, sequence>>
  BY <1>3, <1>5, StutterStep
<1> QED BY <1>3, <1>4, <1>5 DEF obVars, OB!MarkDelivered

\* Giving up settles the message the pump has in hand, if nothing else did.
LEMMA GiveUpStep ==
    ASSUME LinkInv, SessionInv, Busy, NextAttempt
    PROVE  UNCHANGED Promise!abstractVars \/ \E m \in Ids : Promise!Settle(m)
<1> DEFINE m == pump.msg
<1>1. SenderTypes /\ m \in Ids /\ status[m] # "NONE"
  BY SenderTyped DEF LinkInv, SenderInv
<1>2. UNCHANGED <<sequence, delivered, buffer>>
  BY DEF NextAttempt, ibVars
<1>3. status' = status \/ status' = [status EXCEPT ![m] = IF "FAILED" \in OB!Transitions[status[m]]
                                                             THEN "FAILED" ELSE status[m]]
  BY DEF NextAttempt
<1> HIDE DEF m
<1>4. CASE status' = [status EXCEPT ![m] = "FAILED"] /\ status[m] \in {"QUEUED", "SENDING", "SENT"}
  <2>1. \A n \in Ids : status'[n] = IF n = m THEN "FAILED" ELSE status[n]
    BY <1>1, <1>4 DEF SenderTypes
  <2>2. Reported' = [Reported EXCEPT ![m] = "failed"]
    BY <1>1, <2>1, ReportChanges DEF Verdict
  <2>3. Reported[m] = "pending"
    BY <1>1, <1>4, ReportedIs DEF Verdict
  <2>4. m \in Submitted
    BY <1>1, InOutboxIsSubmitted DEF LinkInv
  <2>5. Held' = Held
    BY <1>2, ZenonT(30) DEF Held
  <2>6. Promise!Settle(m)
    BY <1>1, <1>2, <2>2, <2>3, <2>4, <2>5 DEF Promise!Settle, Submitted
  <2> QED BY <1>1, <2>6
<1>5. CASE status' = status
  BY <1>2, <1>5, StutterStep
<1>6. status[m] \in OB!Statuses
  BY <1>1, Zenon DEF SenderTypes
<1>7. "FAILED" \in OB!Transitions[status[m]] <=> status[m] \in {"QUEUED", "SENDING", "SENT"}
  BY <1>6, FailsFrom, ZenonT(30)
<1>8. [status EXCEPT ![m] = status[m]] = status
  BY <1>1, Zenon DEF SenderTypes
<1> QED BY <1>3, <1>4, <1>5, <1>7, <1>8

\* Every step of the sender, the wire, the receiver and the link is a step of
\* the promise, or invisible to it.
LEMMA PromiseStep ==
    ASSUME Lives = 1, LinkInv, SessionInv, LinkInv', SessionInv', [Next]_vars
    PROVE  [Promise!Next]_(Promise!abstractVars)
<1>1. SenderTypes
  BY SenderTyped DEF LinkInv
<1>2. ASSUME NEW m \in Ids, SendMessage(m) PROVE Promise!Next
  BY <1>2, SubmitStep DEF LinkInv, Promise!Next
<1>3. CASE HandleMessage \/ Watchdog
  BY <1>3, ProgressStep DEF Promise!Next
<1>4. CASE HandleAck
  BY <1>4, AckStep DEF Promise!Next
<1>5. CASE SendFailed \/ AckTimeout \/ WaiterCancelled
  BY <1>5, GiveUpStep DEF SendFailed, AckTimeout, WaiterCancelled, Busy, Promise!Next
<1>6. CASE UNCHANGED <<obVars, delivered, buffer>>
  BY <1>6, StutterStep DEF obVars
<1>7. CASE PumpTake
  <2>1. UNCHANGED <<sequence, delivered, buffer>>
    BY <1>7, ZenonT(30) DEF PumpTake, OB!NextQueued, OB!NothingQueued, ibVars
  <2>2. \A n \in Ids : status'[n] = status[n] \/ (status[n] = "QUEUED" /\ status'[n] = "SENDING")
    BY <1>1, <1>7 DEF PumpTake, OB!NextQueued, OB!FirstLive, OB!NothingQueued, SenderTypes
  <2> QED BY <2>1, <2>2, StutterStep, ZenonT(30) DEF Verdict
<1>8. CASE WaitSendable \/ StartSend \/ SendDone
  <2>1. UNCHANGED <<sequence, delivered, buffer>>
    BY <1>8, ZenonT(30) DEF WaitSendable, StartSend, SendDone, OB!RegisterAckWaiter, OB!MarkSent, obVars, ibVars
  <2>2. \A n \in Ids : status'[n] = status[n] \/ (status[n] = "SENDING" /\ status'[n] = "SENT")
    BY <1>1, <1>8 DEF WaitSendable, StartSend, SendDone, OB!RegisterAckWaiter, OB!MarkSent, OB!SentStatus,
                      obVars, SenderTypes
  <2> QED BY <2>1, <2>2, StutterStep, ZenonT(30) DEF Verdict
<1>9. CASE HandleReadReceipt
  <2>1. UNCHANGED <<sequence, delivered, buffer>>
    BY <1>9 DEF HandleReadReceipt, OB!MarkReadUpTo, ibVars
  <2>2. \A n \in Ids : status'[n] = status[n] \/ (status[n] = "DELIVERED" /\ status'[n] = "READ")
    BY <1>1, <1>9 DEF HandleReadReceipt, OB!MarkReadUpTo, SenderTypes
  <2> QED BY <2>1, <2>2, StutterStep DEF Verdict
<1>10. CASE LinkLost
  <2>1. UNCHANGED <<sequence, delivered, buffer>>
    BY <1>10 DEF LinkLost, OB!OnReconnecting, OB!RequeueUnacked, ibVars
  <2>2. \A n \in Ids : \/ status'[n] = status[n]
                       \/ status[n] \in {"QUEUED", "SENDING", "SENT"} /\ status'[n] = "QUEUED"
    BY <1>10, Zenon DEF LinkLost, OB!OnReconnecting, OB!RequeueUnacked, OB!Pending
  <2> QED BY <2>1, <2>2, StutterStep DEF Verdict
<1>11. CASE DeliveryConfirmed \/ MarkRead \/ PeerLost \/ Recovery
  BY <1>6, <1>11, ZenonT(30) DEF DeliveryConfirmed, MarkRead, IB!MarkAllRead, PeerLost, Recovery, LinkRestored,
                     PeerBack, HandleKexHello, HandleKexReply, ibVars
<1>12. ~ Restart
  BY DEF Restart, LinkInv, LinkTypes
<1>13. CASE UNCHANGED vars
  BY <1>6, <1>13 DEF vars, ibVars
<1> QED BY <1>2, <1>3, <1>4, <1>5, <1>7, <1>8, <1>9, <1>10, <1>11, <1>12, <1>13 DEF Next, PumpStep

\* The conversation starts as the promise does.
LEMMA PromiseInit == Init => Promise!Init
<1> SUFFICES ASSUME Init PROVE Promise!Init
  OBVIOUS
<1>1. /\ DOMAIN delivered = {} /\ DOMAIN buffer = {} /\ delivered = <<>>
      /\ \A n \in Ids : sequence[n] = 0 /\ status[n] = "NONE"
  BY DEF Init, OB!OutboxInit, IB!InboxInit
<1>2. Held = {} /\ {m \in Ids : sequence[m] # 0} = {}
  BY <1>1 DEF Held
<1>3. Reported = [m \in Ids |-> "pending"]
  BY <1>1, ReportedIs DEF Verdict
<1> QED BY <1>1, <1>2, <1>3 DEF Promise!Init

\* In one sending session the whole machinery of queues, resends, buffers and
\* keys implements ordered delivery: in order, at most once, and reported as
\* delivered only if the peer has the message (_deliver, _handle_message,
\* _handle_ack, check_starvation).
THEOREM ConversationKeepsPromise ==
    ASSUME Lives = 1
    PROVE  Spec => KeepsPromise
<1>1. LinkInv /\ SessionInv /\ LinkInv' /\ SessionInv' /\ [Next]_vars
        => [Promise!Next]_(Promise!abstractVars)
  BY PromiseStep
<1> QED BY InitLink, InitSession, StepLink, StepSession, PromiseInit, <1>1, PTL
        DEF Spec, KeepsPromise, Promise!Spec
====
