------------------------------ MODULE GroupMesh ------------------------------
(***************************************************************************)
(* Group messages from member "a" to member "b" over their pairwise link   *)
(* (ghostlink/groups/service.py, mesh.py and frames.py): the per-member    *)
(* queue and its pump, the lazy handshake, the epoch rule, the delivery    *)
(* ledger, acknowledgements and read cursors, and what the relay refuses.  *)
(*                                                                         *)
(* A link is [e, id]: its epoch and the hello that made it; both ends of a *)
(* handshake derive the same key and nobody else does, and a proof in the  *)
(* reply binds it to its hello.  The relay hands packets on in order and   *)
(* tells group events to both members on the same connections.  Inbound    *)
(* frames and relay errors are handled without an await that matters; the  *)
(* pump sleeps while it waits for a link and while its envelope waits for  *)
(* the transmit regulator and the socket, and everything else may run      *)
(* then.                                                                   *)
(***************************************************************************)
EXTENDS Naturals, Sequences, FiniteSets, SequencesExt

CONSTANTS
    Messages,    \* how many messages "a" sends; a message is its gseq
    QueueLimit,  \* GROUP_OFFLINE_QUEUE_PER_MEMBER
    MaxGap,      \* GROUP_GSEQ_MAX_GAP
    MaxHellos,   \* bound on the handshakes
    MeshFaults   \* what may go wrong: a set of records of bounds, one of which
                 \* a behaviour follows

ASSUME GroupMeshConstants ==
    /\ {Messages, MaxHellos} \subseteq Nat
    /\ {QueueLimit, MaxGap} \subseteq Nat \ {0}
    /\ MeshFaults \subseteq [away : Nat, rate : Nat, broken : Nat, leap : {"none", "join", "removed"}]

VARIABLES
    fault,      \* the faults that are left
    starter,    \* who holds the smaller identity key, "a" or "b"
    mEpoch,     \* [member -> epoch of its record]
    mLink,      \* [member -> the live link to the other, NoLink if none]
    mDrain,     \* [member -> the draining link of the previous epoch]
    mPend,      \* [member -> the handshake it started and awaits]
    hellos,     \* handshakes started so far
    relayEpoch, \* the authority's epoch
    here,       \* "b" has a session at the relay
    mwire,      \* [member -> packets on their way to it]
    next,       \* a: gseq of the next message
    mqueue,     \* a: the queue of jobs for "b"
    ledger,     \* a: [message -> delivery state]
    waiter,     \* a: a link waiter is registered
    mpump,      \* a: [pc, job, link]: the pump, its job, the link it seals with
    seen,       \* b: message ids it has seen
    cursor,     \* b: the last gseq it accepted
    shown,      \* b: the messages it rendered, in order
    readUpTo    \* b: the read cursor it last sent

gmvars == <<fault, starter, mEpoch, mLink, mDrain, mPend, hellos, relayEpoch, here, mwire,
            next, mqueue, ledger, waiter, mpump, seen, cursor, shown, readUpTo>>
recvVars == <<seen, cursor, shown, readUpTo>>
sendVars == <<next, mqueue, ledger, waiter, mpump>>
meshVars == <<mEpoch, mLink, mDrain, mPend, hellos>>

Members == {"a", "b"}
Partner(m) == IF m = "a" THEN "b" ELSE "a"
NoLink == [e |-> 0, id |-> 0]
Msgs == 1..Messages
NoPump == [pc |-> "off", job |-> 0, link |-> NoLink]
Away == ~here

GroupMeshInit ==
    /\ fault \in MeshFaults /\ starter \in Members
    /\ mEpoch = [m \in Members |-> 1] /\ relayEpoch = 1
    /\ mLink = [m \in Members |-> NoLink] /\ mDrain = mLink /\ mPend = mLink
    /\ hellos = 0 /\ here = TRUE /\ mwire = [m \in Members |-> <<>>]
    /\ next = 1 /\ mqueue = <<>> /\ ledger = [n \in Msgs |-> "none"]
    /\ waiter = FALSE /\ mpump = NoPump
    /\ seen = {} /\ cursor = 0 /\ shown = <<>> /\ readUpTo = 0

-----------------------------------------------------------------------------
(* The relay. *)

\* The other member is on the roster of this epoch: the leap may remove it.
OnRoster(epoch) == ~(epoch > 1 /\ fault.leap = "removed")

\* _handle_group_forward: what becomes of an envelope "a" forwards to "b";
\* a refusal comes back to "a" and names the member.
Verdict(epoch) ==
    CASE ~OnRoster(relayEpoch) -> "not-member"
      [] epoch + 1 < relayEpoch \/ epoch > relayEpoch -> "state"
      [] Away -> "offline"
      [] OTHER -> "ok"
Refusal(code) == [k |-> "error", code |-> code]
ToB(packet, code) ==
    IF code = "ok" THEN [mwire EXCEPT !["b"] = Append(@, packet)]
    ELSE [mwire EXCEPT !["a"] = Append(@, Refusal(code))]
\* An envelope "b" forwards; its own refusals do not concern a ledger of it.
ToA(w, packets) ==
    IF OnRoster(relayEpoch) /\ here THEN [w EXCEPT !["a"] = @ \o packets] ELSE w

\* The forward brake may refuse one envelope of a burst.
Codes(epoch) == {Verdict(epoch)} \cup {c \in {"rate"} : fault.rate > 0
                                                       /\ Verdict(epoch) \in {"ok", "offline"}}
Braked(code) == fault' = IF code = "rate" THEN [fault EXCEPT !.rate = @ - 1] ELSE fault

\* A committed event reaches every member with a session.
RelayLeaps ==
    /\ fault.leap # "none" /\ relayEpoch = 1
    /\ relayEpoch' = 2
    /\ mwire' = [m \in Members |->
                   IF m = "a" \/ here THEN Append(mwire[m], [k |-> "event", e |-> 2]) ELSE mwire[m]]
    /\ UNCHANGED <<fault, starter, meshVars, here, sendVars, recvVars>>

-----------------------------------------------------------------------------
(* The mesh: links of one member. *)

\* _drop_link: link, draining link and handshake of the pair go together.
Dropped(m) ==
    /\ mLink' = [mLink EXCEPT ![m] = NoLink]
    /\ mDrain' = [mDrain EXCEPT ![m] = NoLink]
    /\ mPend' = [mPend EXCEPT ![m] = NoLink]
\* _install_link
Installed(m, link) ==
    /\ mLink' = [mLink EXCEPT ![m] = link]
    /\ mDrain' = [mDrain EXCEPT ![m] = NoLink]
    /\ mPend' = [mPend EXCEPT ![m] = NoLink]

\* link_for the current epoch of the record.
LinkFor(m) == IF mLink[m].e = mEpoch[m] THEN mLink[m] ELSE NoLink

\* accepting_link: the live link of this epoch, or the draining one of the
\* epoch before.
AcceptingLink(m, epoch) ==
    CASE epoch > mEpoch[m] \/ epoch + 1 < mEpoch[m] -> NoLink
      [] mLink[m].e = epoch -> mLink[m]
      [] mDrain[m].e = epoch -> mDrain[m]
      [] OTHER -> NoLink

\* open_inbound: the tag verifies under the link that may carry the epoch.
Opens(m, packet) ==
    AcceptingLink(m, packet.link.e) # NoLink /\ AcceptingLink(m, packet.link.e) = packet.link

\* Beyond the bound a hello is as good as lost: the peer never answers.
MayHello(m) == mPend[m] = NoLink /\ hellos < MaxHellos

\* hello_for: one handshake at a time; a knock also replaces a live link.
StartsHello(m, force) ==
    /\ MayHello(m)
    /\ force \/ LinkFor(m) = NoLink
    /\ hellos' = hellos + 1
    /\ mPend' = [mPend EXCEPT ![m] = [e |-> mEpoch[m], id |-> hellos + 1]]
    /\ IF LinkFor(m) # NoLink
         THEN /\ mLink' = [mLink EXCEPT ![m] = NoLink]
              /\ mDrain' = [mDrain EXCEPT ![m] = NoLink]
         ELSE UNCHANGED <<mLink, mDrain>>

\* observe_epoch: links of older epochs drain, their handshakes are dropped.
ObservesEpoch(m, epoch) ==
    /\ mEpoch' = [mEpoch EXCEPT ![m] = epoch]
    /\ mDrain' = [mDrain EXCEPT ![m] = IF mLink[m] # NoLink /\ mLink[m].e < epoch
                                         THEN mLink[m] ELSE @]
    /\ mLink' = [mLink EXCEPT ![m] = IF @.e < epoch THEN NoLink ELSE @]
    /\ mPend' = [mPend EXCEPT ![m] = IF @.e < epoch THEN NoLink ELSE @]

\* expire and the sweeper: the drain window closes, a handshake times out.
Expire(m) ==
    /\ \/ mDrain[m] # NoLink /\ mDrain' = [mDrain EXCEPT ![m] = NoLink] /\ UNCHANGED mPend
       \/ mPend[m] # NoLink /\ mPend' = [mPend EXCEPT ![m] = NoLink] /\ UNCHANGED mDrain
    /\ UNCHANGED <<fault, starter, mEpoch, mLink, hellos, relayEpoch, here, mwire, sendVars,
                   recvVars>>

-----------------------------------------------------------------------------
(* The sender's ledger and queue. *)

Jobs(q) == {q[i] : i \in DOMAIN q}
Marked(ns, state) == [n \in Msgs |-> IF n \in ns THEN state ELSE ledger[n]]

\* send: a ledger, a job for the member; _enqueue drops the oldest jobs.
Send ==
    /\ next <= Messages /\ OnRoster(mEpoch["a"])
    /\ LET over == IF Len(mqueue) < QueueLimit THEN 0 ELSE Len(mqueue) - QueueLimit + 1 IN
         /\ mqueue' = Append(SubSeq(mqueue, over + 1, Len(mqueue)), next)
         /\ ledger' = [Marked({mqueue[i] : i \in 1..over}, "failed") EXCEPT ![next] = "queued"]
    /\ next' = next + 1
    /\ UNCHANGED <<fault, starter, meshVars, relayEpoch, here, mwire, waiter, mpump, recvVars>>

\* _requeue_sent: whatever was sent and not acknowledged goes back to the
\* front of the queue, in order; the far end is trimmed.
RequeueSent ==
    LET back == {n \in Msgs : ledger[n] = "sent"}
        all == SetToSortSeq(back \ Jobs(mqueue), <) \o mqueue
        kept == SubSeq(all, 1, IF Len(all) < QueueLimit THEN Len(all) ELSE QueueLimit)
    IN /\ mqueue' = kept
       /\ ledger' = [n \in Msgs |-> CASE n \in Jobs(all) \ Jobs(kept) -> "failed"
                                      [] n \in back -> "queued"
                                      [] OTHER -> ledger[n]]

\* _fail_queue
FailQueue ==
    /\ mqueue' = <<>>
    /\ ledger' = Marked(Jobs(mqueue), "failed")

\* The waiter of the pair is taken from the table and the pump that sleeps on
\* it learns how the pairing ended.
WaiterEnds(pc, link) ==
    /\ waiter' = FALSE
    /\ mpump' = IF waiter /\ mpump.pc = "link" THEN [mpump EXCEPT !.pc = pc, !.link = link] ELSE mpump

-----------------------------------------------------------------------------
(* The pump. *)

\* The envelope is sealed and waits for the transmit regulator and the socket.
\* A link that was dropped meanwhile has a zeroed key nobody else holds.
Seals(link) == mpump' = [pc |-> "wire", job |-> mpump.job,
                         link |-> IF link = mLink["a"] THEN link ELSE [link EXCEPT !.id = 0]]

\* _ensure_link without a live link: the pump sleeps on the waiter of the pair.
\* Who makes the waiter starts the pairing, with a hello from the smaller key
\* and a knock from the larger one.
EnsureLink ==
    /\ waiter' = TRUE
    /\ CASE waiter \/ (starter = "a" /\ ~MayHello("a")) ->
              UNCHANGED <<fault, mLink, mDrain, mPend, hellos, mwire>>
         [] ~waiter /\ starter = "a" /\ MayHello("a") ->
              /\ StartsHello("a", FALSE)
              /\ \E code \in Codes(mEpoch["a"]) :
                   /\ Braked(code)
                   /\ mwire' = ToB([k |-> "hello", link |-> mPend'["a"]], code)
         [] ~waiter /\ starter = "b" ->
              /\ \E code \in Codes(mEpoch["a"]) :
                   /\ Braked(code)
                   /\ mwire' = ToB([k |-> "knock", e |-> mEpoch["a"]], code)
              /\ UNCHANGED <<mLink, mDrain, mPend, hellos>>

\* _pump: take the first job; with a live link it is sealed at once.
PumpTakes ==
    /\ mpump.pc = "off" /\ mqueue # <<>>
    /\ OnRoster(mEpoch["a"])
    /\ ledger' = [ledger EXCEPT ![Head(mqueue)] = "sending"]
    /\ IF LinkFor("a") # NoLink
         THEN /\ mpump' = [pc |-> "wire", job |-> Head(mqueue), link |-> LinkFor("a")]
              /\ UNCHANGED <<fault, mLink, mDrain, mPend, hellos, mwire, waiter>>
         ELSE /\ mpump' = [pc |-> "link", job |-> Head(mqueue), link |-> NoLink]
              /\ EnsureLink
    /\ UNCHANGED <<starter, mEpoch, relayEpoch, here, next, mqueue, recvVars>>

\* The member left the roster since the job was queued.
PumpOffRoster ==
    /\ mpump.pc = "off" /\ mqueue # <<>> /\ ~OnRoster(mEpoch["a"])
    /\ FailQueue
    /\ UNCHANGED <<fault, starter, meshVars, relayEpoch, here, mwire, next, waiter, mpump, recvVars>>

\* The job the pump gives up or has sent is taken off by popping the head; on
\* an empty queue that raises, and the pump's task ends.
Popped(state) ==
    /\ mqueue' = IF mqueue = <<>> THEN mqueue ELSE Tail(mqueue)
    /\ ledger' = IF mqueue = <<>> THEN ledger ELSE [ledger EXCEPT ![mpump.job] = state]
    /\ mpump' = NoPump

\* Mutant: the waiter that timed out is left and the job is not given up.
PumpLinkTimesOutSilently ==
    /\ mpump.pc = "link" /\ UNCHANGED gmvars

\* _ensure_link times out, or the pairing failed: the job is given up.
PumpLinkTimesOut ==
    /\ mpump.pc = "link"
    /\ Popped("failed") /\ waiter' = FALSE
    /\ UNCHANGED <<fault, starter, meshVars, relayEpoch, here, mwire, next, recvVars>>
PumpLinkFails ==
    /\ mpump.pc = "failed"
    /\ Popped("failed")
    /\ UNCHANGED <<fault, starter, meshVars, relayEpoch, here, mwire, next, waiter, recvVars>>
PumpOffline ==
    /\ mpump.pc = "offline"
    /\ ledger' = [ledger EXCEPT ![mpump.job] = "queued"] /\ mpump' = NoPump
    /\ UNCHANGED <<fault, starter, meshVars, relayEpoch, here, mwire, next, mqueue, waiter, recvVars>>
\* A link of another epoch is not used: the loop takes the head again.
PumpLinked ==
    /\ mpump.pc = "linked"
    /\ IF mpump.link.e = mEpoch["a"] THEN Seals(mpump.link) ELSE mpump' = NoPump
    /\ UNCHANGED <<fault, starter, meshVars, relayEpoch, here, mwire, next, mqueue, ledger, waiter,
                   recvVars>>

\* The envelope leaves; the head of the queue is popped and the job is SENT.
PumpForwards ==
    /\ mpump.pc = "wire"
    /\ \E code \in Codes(mpump.link.e) :
         /\ Braked(code)
         /\ mwire' = ToB([k |-> "msg", link |-> mpump.link, n |-> mpump.job], code)
    /\ Popped("sent")
    /\ UNCHANGED <<starter, meshVars, relayEpoch, here, next, waiter, recvVars>>
\* The connection fails under the envelope; the job keeps its place.
PumpBreaks ==
    /\ mpump.pc = "wire" /\ fault.broken > 0
    /\ fault' = [fault EXCEPT !.broken = @ - 1]
    /\ ledger' = [ledger EXCEPT ![mpump.job] = "failed"] /\ mpump' = NoPump
    /\ UNCHANGED <<starter, meshVars, relayEpoch, here, mwire, next, mqueue, waiter, recvVars>>

-----------------------------------------------------------------------------
(* Inbound packets. *)

Took(m) == [mwire EXCEPT ![m] = Tail(@)]
Reads(m, kind) == mwire[m] # <<>> /\ Head(mwire[m]).k = kind
\* Both the archived record of a removed member and the roster without it
\* drop what arrives.
Listens(m) == OnRoster(mEpoch[m])
\* What a handler of m sends to the other member.
Answer(m, w, packets) == IF m = "b" THEN ToA(w, packets)
                         ELSE [w EXCEPT !["b"] = IF Away THEN @ ELSE @ \o packets]
Ignores(m) == UNCHANGED <<mEpoch, mLink, mDrain, mPend, hellos>>
Rest == UNCHANGED <<fault, starter, relayEpoch, here>>

\* _handle_kex with a knock: the peer lost its key, a new handshake starts.
OnKnock(m) ==
    /\ Reads(m, "knock")
    /\ IF Listens(m) /\ Head(mwire[m]).e = mEpoch[m] /\ starter = m /\ MayHello(m)
         THEN /\ StartsHello(m, TRUE)
              /\ mwire' = Answer(m, Took(m), <<[k |-> "hello", link |-> mPend'[m]]>>)
              /\ UNCHANGED mEpoch
         ELSE Ignores(m) /\ mwire' = Took(m)
    /\ Rest /\ UNCHANGED <<sendVars, recvVars>>

\* handle_hello: the responder's link supersedes every link and handshake of
\* the pair.
HandleHello(m, link) == Installed(m, link) /\ UNCHANGED <<mEpoch, hellos>>

\* A hello: the waiter is served before the reply is on the wire.
OnHello_(m) ==
    /\ Reads(m, "hello")
    /\ LET link == Head(mwire[m]).link IN
       IF Listens(m) /\ link.e = mEpoch[m]
         THEN /\ HandleHello(m, link)
              /\ mwire' = Answer(m, Took(m), <<[k |-> "reply", link |-> link]>>)
              /\ IF m = "a" THEN WaiterEnds("linked", link) ELSE UNCHANGED <<waiter, mpump>>
         ELSE Ignores(m) /\ mwire' = Took(m) /\ UNCHANGED <<waiter, mpump>>
    /\ Rest /\ UNCHANGED <<next, mqueue, ledger, recvVars>>

\* Mutant: a reply completes whatever handshake is pending.
OnReplyUnbound(m) ==
    /\ Reads(m, "reply")
    /\ LET link == Head(mwire[m]).link IN
       IF mPend[m] # NoLink /\ link.e = mEpoch[m]
         THEN /\ Installed(m, mPend[m]) /\ UNCHANGED <<mEpoch, hellos>>
              /\ IF m = "a" THEN WaiterEnds("linked", mPend[m]) ELSE UNCHANGED <<waiter, mpump>>
         ELSE Ignores(m) /\ UNCHANGED <<waiter, mpump>>
    /\ mwire' = Took(m)
    /\ Rest /\ UNCHANGED <<next, mqueue, ledger, recvVars>>

\* handle_reply: a reply completes the handshake it answers; any other reply
\* ends the pending handshake.
HandleReply(m, link) ==
    /\ IF link = mPend[m] THEN Installed(m, link)
       ELSE mPend' = [mPend EXCEPT ![m] = NoLink] /\ UNCHANGED <<mLink, mDrain>>
    /\ UNCHANGED <<mEpoch, hellos>>

\* A reply serves the waiter, or fails it.
OnReply_(m) ==
    /\ Reads(m, "reply")
    /\ LET link == Head(mwire[m]).link IN
       IF Listens(m) /\ link.e = mEpoch[m]
         THEN /\ HandleReply(m, link)
              /\ CASE m # "a" -> UNCHANGED <<waiter, mpump>>
                   [] m = "a" /\ link = mPend[m] -> WaiterEnds("linked", link)
                   [] m = "a" /\ link # mPend[m] -> WaiterEnds("failed", NoLink)
         ELSE Ignores(m) /\ UNCHANGED <<waiter, mpump>>
    /\ mwire' = Took(m)
    /\ Rest /\ UNCHANGED <<next, mqueue, ledger, recvVars>>

\* _handle_message at the receiver: open, drop duplicates by id (they are
\* acknowledged again), then by group sequence; render, acknowledge over the
\* link that carried the message and send the read cursor over the live link.
Acked(packet) == [k |-> "ack", link |-> packet.link, n |-> packet.n]
CursorSent(upTo) == IF upTo > readUpTo /\ AcceptingLink("b", mEpoch["b"]) = LinkFor("b")
                        /\ LinkFor("b") = Head(mwire["b"]).link
                      THEN <<[k |-> "read", link |-> LinkFor("b"), n |-> upTo]>> ELSE <<>>

\* Mutant: the message id is not remembered.
OnMessageForgetful ==
    /\ Reads("b", "msg")
    /\ LET p == Head(mwire["b"]) IN
       IF Opens("b", p) /\ Listens("b")
         THEN /\ shown' = Append(shown, p.n) /\ cursor' = p.n
              /\ mwire' = ToA(Took("b"), <<Acked(p)>>)
              /\ UNCHANGED <<seen, readUpTo>>
         ELSE mwire' = Took("b") /\ UNCHANGED recvVars
    /\ Rest /\ UNCHANGED <<meshVars, sendVars>>

OnMessage_ ==
    /\ Reads("b", "msg")
    /\ LET p == Head(mwire["b"]) IN
       CASE ~(Opens("b", p) /\ Listens("b")) -> mwire' = Took("b") /\ UNCHANGED recvVars
         [] Opens("b", p) /\ Listens("b") /\ p.n \in seen ->
              /\ mwire' = ToA(Took("b"), <<Acked(p)>> \o CursorSent(cursor))
              /\ readUpTo' = IF CursorSent(cursor) # <<>> THEN cursor ELSE readUpTo
              /\ UNCHANGED <<seen, cursor, shown>>
         [] Opens("b", p) /\ Listens("b") /\ p.n \notin seen ->
              /\ seen' = seen \cup {p.n}
              /\ IF p.n <= cursor \/ (cursor > 0 /\ p.n > cursor + MaxGap)
                   THEN mwire' = Took("b") /\ UNCHANGED <<cursor, shown, readUpTo>>
                   ELSE /\ cursor' = p.n /\ shown' = Append(shown, p.n)
                        /\ mwire' = ToA(Took("b"), <<Acked(p)>> \o CursorSent(p.n))
                        /\ readUpTo' = IF CursorSent(p.n) # <<>> THEN p.n ELSE readUpTo
    /\ Rest /\ UNCHANGED <<meshVars, sendVars>>

\* Mutant: an acknowledgement of one message settles every message before it.
ApplyGackCumulative ==
    /\ Reads("a", "ack")
    /\ LET p == Head(mwire["a"]) IN
         ledger' = IF Opens("a", p) /\ Listens("a")
                     THEN Marked({n \in 1..p.n : ledger[n] = "sent"}, "delivered") ELSE ledger
    /\ mwire' = Took("a")
    /\ Rest /\ UNCHANGED <<meshVars, next, mqueue, waiter, mpump, recvVars>>

\* _apply_gack and _apply_gread at the sender.
ApplyGack ==
    /\ Reads("a", "ack")
    /\ LET p == Head(mwire["a"]) IN
         ledger' = IF Opens("a", p) /\ Listens("a") /\ ledger[p.n] = "sent"
                     THEN [ledger EXCEPT ![p.n] = "delivered"] ELSE ledger
    /\ mwire' = Took("a")
    /\ Rest /\ UNCHANGED <<meshVars, next, mqueue, waiter, mpump, recvVars>>
ApplyGread ==
    /\ Reads("a", "read")
    /\ LET p == Head(mwire["a"]) IN
         ledger' = IF Opens("a", p) /\ Listens("a")
                     THEN Marked({n \in 1..p.n : ledger[n] = "delivered"}, "read") ELSE ledger
    /\ mwire' = Took("a")
    /\ Rest /\ UNCHANGED <<meshVars, next, mqueue, waiter, mpump, recvVars>>

\* _on_forward_error: offline ends every link of the pair and puts what was
\* sent back, the brake only puts it back, any other verdict fails what is
\* under way.
OnForwardError ==
    /\ Reads("a", "error")
    /\ LET code == Head(mwire["a"]).code IN
       CASE code = "offline" ->
              /\ Dropped("a") /\ WaiterEnds("offline", NoLink) /\ RequeueSent
         [] code = "rate" ->
              /\ WaiterEnds("failed", NoLink) /\ RequeueSent
              /\ UNCHANGED <<mLink, mDrain, mPend>>
         [] OTHER ->
              /\ WaiterEnds("failed", NoLink)
              /\ ledger' = Marked({n \in Msgs : ledger[n] \in {"sending", "sent"}}, "failed")
              /\ UNCHANGED <<mLink, mDrain, mPend, mqueue>>
    /\ mwire' = Took("a")
    /\ Rest /\ UNCHANGED <<mEpoch, hellos, next, recvVars>>

\* _on_record_state: the epoch leaps; a handshake of the old epoch fails its
\* waiter; a departed member's links go and its queue is failed.
OnRecordState(m) ==
    /\ Reads(m, "event")
    /\ LET e == Head(mwire[m]).e IN
       IF e <= mEpoch[m] THEN UNCHANGED <<mEpoch, mLink, mDrain, mPend, waiter, mpump, mqueue, ledger>>
       ELSE
         /\ IF OnRoster(e) THEN ObservesEpoch(m, e)
            ELSE Dropped(m) /\ mEpoch' = [mEpoch EXCEPT ![m] = e]
         /\ IF m = "a" /\ mPend["a"] # NoLink /\ mPend["a"].e < e
              THEN WaiterEnds("failed", NoLink) ELSE UNCHANGED <<waiter, mpump>>
         /\ IF m = "a" /\ ~OnRoster(e) THEN FailQueue ELSE UNCHANGED <<mqueue, ledger>>
    /\ mwire' = Took(m)
    /\ Rest /\ UNCHANGED <<hellos, next, recvVars>>

\* sync: the record is attested at the relay's epoch before the event is read;
\* links drain, but no waiter and no queue is told.
Sync ==
    /\ mEpoch["a"] < relayEpoch
    /\ ObservesEpoch("a", relayEpoch)
    /\ UNCHANGED <<fault, starter, hellos, relayEpoch, here, mwire, sendVars, recvVars>>

\* The session of "b" ends with everything on its way to it; attach starts
\* again without links and sync brings its record to the relay's epoch.
SessionLost ==
    /\ here /\ fault.away > 0
    /\ here' = FALSE /\ fault' = [fault EXCEPT !.away = @ - 1]
    /\ mwire' = [mwire EXCEPT !["b"] = <<>>]
    /\ UNCHANGED <<starter, meshVars, relayEpoch, sendVars, recvVars>>
Attach ==
    /\ Away /\ OnRoster(relayEpoch)
    /\ here' = TRUE
    /\ Dropped("b") /\ mEpoch' = [mEpoch EXCEPT !["b"] = relayEpoch]
    /\ UNCHANGED <<fault, starter, hellos, relayEpoch, mwire, sendVars, recvVars>>

Handles(m) == OnKnock(m) \/ OnHello_(m) \/ OnReply_(m) \/ OnRecordState(m)
Pump == \/ PumpTakes \/ PumpOffRoster \/ PumpLinkTimesOut \/ PumpLinkFails \/ PumpOffline
        \/ PumpLinked \/ PumpForwards
GroupMeshSystem ==
    \/ \E m \in Members : Handles(m)
    \/ OnMessage_ \/ ApplyGack \/ ApplyGread \/ OnForwardError \/ Pump
GroupMeshNext ==
    \/ GroupMeshSystem
    \/ Send \/ Sync \/ Attach \/ PumpBreaks \/ RelayLeaps \/ SessionLost
    \/ \E m \in Members : Expire(m)

\* The event loops of both members run and the relay hands packets on, so a
\* step of theirs that can be taken is eventually taken; a member that lost
\* its session comes back.  Sends, faults and expiries need not happen.
GroupMeshSpec == GroupMeshInit /\ [][GroupMeshNext]_gmvars /\ WF_gmvars(GroupMeshSystem)
                 /\ WF_gmvars(Attach)

-----------------------------------------------------------------------------
(* Properties. *)

\* What the receiver renders of one sender is in the order it was composed
\* and without repetition, whatever is resent, re-keyed or requeued
\* (service.py _handle_message, frames.py GseqTracker and SeenIds).
RenderedInOrder ==
    \A i, j \in DOMAIN shown : i < j => shown[i] < shown[j]

\* A delivery state of DELIVERED or READ is never a guess: the recipient has
\* the message id in its seen set, so an acknowledgement is never credited
\* to another message and a read cursor never reaches past what the
\* recipient accepted (service.py _apply_gack, _apply_gread).
SettledWasSeen ==
    \A n \in Msgs : /\ ledger[n] \in {"delivered", "read"} => n \in seen
                    /\ ledger[n] = "read" => n <= cursor

\* Two live links of the same epoch between the members hold the same key, or
\* one of the members is about to learn of a newer handshake or of a lost
\* session: while nothing is on the wire and nobody waits, live links agree
\* (mesh.py handle_hello, handle_reply, _install_link).
LinksAgree ==
    (/\ mwire["a"] = <<>> /\ mwire["b"] = <<>> /\ here /\ fault.away = 0
     /\ LinkFor("a") # NoLink /\ LinkFor("b") # NoLink /\ mEpoch["a"] = mEpoch["b"]
     /\ mPend["a"] = NoLink /\ mPend["b"] = NoLink)
       => LinkFor("a") = LinkFor("b")

\* Messages of the pairwise mesh are rendered in order, acknowledged only by
\* who saw them, under keys the members agree on (service.py, mesh.py).
MeshSafe == RenderedInOrder /\ SettledWasSeen /\ LinksAgree

\* Whatever is queued for a member is eventually sent, given up or failed:
\* the pump never sleeps forever on a pairing, through lost sessions, epoch
\* leaps and refusals (service.py _pump, _ensure_link, _sweep).
QueueDrains == (mqueue # <<>>) ~> (mqueue = <<>>)

\* "Offline members keep their job in the bounded queue": a message shown as
\* QUEUED for a member is in that member's queue (service.py send).
QueuedIsHeld == \A n \in Msgs : ledger[n] = "queued" => n \in Jobs(mqueue)
=============================================================================
