----------------------------- MODULE LocalGroup -----------------------------
(***************************************************************************)
(* One user's record of a group (ghostlink/groups/lifecycle.py, models.py, *)
(* registry.py), kept in step with the relay's committed events.           *)
(*                                                                         *)
(* The relay is the stream its group authority produces: epoch e is entry  *)
(* e of relayLog, which holds the roster after the event.  What it sends   *)
(* arrives in order on one connection.  _on_group_event runs inside the    *)
(* reader; an operation (create, join, sync, leave ...) is a coroutine     *)
(* that sleeps at every request, is woken by the packet that answers it    *)
(* and continues only later, so the reader may handle further packets in   *)
(* between.  An operation keeps the record it read before it slept         *)
(* (op.base).  The relay is honest: signatures verify, rosters and key     *)
(* bindings are consistent.                                                *)
(***************************************************************************)
EXTENDS Naturals, Sequences, FiniteSets

CONSTANTS
    RecordOwner, Self, Others,  \* identities: the owner, a member, further people
    GroupCapacity,        \* MAX_GROUP_MEMBERS
    MaxRecordEpoch,             \* bound on the committed events
    MaxCalls,             \* bound on the operations the user starts
    MaxDrops              \* bound on losses of the connection

ASSUME LocalGroupConstants ==
    /\ RecordOwner # Self /\ {RecordOwner, Self} \cap Others = {}
    /\ {GroupCapacity, MaxRecordEpoch, MaxCalls, MaxDrops} \subseteq Nat

VARIABLES
    me,          \* whose record this is: RecordOwner or Self
    rec,         \* the stored record, NoRecord when there is none
    op,          \* the operation in progress
    inbound,     \* packets on their way to the client, and not yet handled
    relayLog,    \* the authority's events; <<>> before the group exists
    hosted,      \* the relay has not restarted since
    bound,       \* the client's session is attested for the group
    admission,   \* what the relay holds for the client: "no", "pending", "candidate"
    signing,     \* the operation the relay wants the client to sign
    calls, drops

lgvars == <<me, rec, op, inbound, relayLog, hosted, bound, admission,
            signing, calls, drops>>

TerminalStates == {"left", "removed", "dissolved", "defunct"}
NoRecord == [state |-> "none", epoch |-> 0, roster |-> {}, suspect |-> FALSE]
NoPacket == [t |-> "none"]
NoSigning == [kind |-> "none"]
Idle == [pc |-> "idle", asked |-> FALSE, base |-> NoRecord, got |-> NoPacket, event |-> 0,
         what |-> NoSigning]

Epoch == Len(relayLog)
Roster == relayLog[Epoch].roster
GroupLives == hosted /\ Epoch > 0 /\ relayLog[Epoch].kind # "dissolved"

\* The process starts before the group exists, before the user joined it, or
\* with a record an earlier session stored.
LocalGroupInit ==
    /\ me \in {RecordOwner, Self}
    /\ \E stored \in BOOLEAN :
         /\ relayLog =
              (IF me = RecordOwner /\ ~stored THEN <<>>
               ELSE <<[kind |-> "create", subject |-> RecordOwner, roster |-> {RecordOwner}]>>)
              \o (IF me = Self /\ stored
                   THEN <<[kind |-> "join", subject |-> Self, roster |-> {RecordOwner, Self}]>> ELSE <<>>)
         /\ rec = IF stored THEN [state |-> "active", epoch |-> Len(relayLog),
                                  roster |-> {RecordOwner, me}, suspect |-> FALSE]
                  ELSE NoRecord
    /\ op = Idle
    /\ inbound = <<>> /\ hosted = TRUE /\ bound = FALSE /\ admission = "no"
    /\ signing = NoSigning /\ calls = 0 /\ drops = 0

-----------------------------------------------------------------------------
(* The record. *)

\* LocalGroupRegistry.save: a record that is not stored yet is refused once
\* the user tracks GROUP_MAX_GROUPS active groups (the others are not modelled).
Save(record) ==
    \/ rec' = record
    \/ rec = NoRecord /\ rec' = NoRecord

\* What an event makes of a roster and of the state of the record's owner
\* (_apply_event_semantics).
Semantics(record, event) ==
    [record EXCEPT
       !.roster = CASE event.kind = "join" -> @ \cup {event.subject}
                    [] event.kind \in {"left", "removed"} -> @ \ {event.subject}
                    [] OTHER -> @,
       !.state = CASE event.kind = "dissolved" -> "dissolved"
                   [] event.kind \in {"left", "removed"} /\ event.subject = me -> event.kind
                   [] OTHER -> @]

\* The events the semantics accept: admissions of strangers, departures of
\* members, nobody removes the owner.
Acceptable(record, event) ==
    CASE event.kind = "join" -> event.subject \notin record.roster
      [] event.kind = "left" -> event.subject \in record.roster
      [] event.kind = "removed" -> event.subject \in record.roster \ {RecordOwner}
      [] OTHER -> event.kind = "dissolved"

\* Mutant: an event beyond a gap is applied.
ApplyVerifiedEventOverGaps(record, epoch) ==
    IF Acceptable(record, relayLog[epoch])
      THEN [Semantics(record, relayLog[epoch]) EXCEPT !.epoch = epoch]
      ELSE [record EXCEPT !.suspect = TRUE]

\* apply_verified_event on a newer event: exactly the next epoch, or suspect.
ApplyVerifiedEvent(record, epoch) ==
    IF epoch = record.epoch + 1 /\ Acceptable(record, relayLog[epoch])
      THEN [Semantics(record, relayLog[epoch]) EXCEPT !.epoch = epoch]
      ELSE [record EXCEPT !.suspect = TRUE]

\* _on_group_event: stale events and archived groups are left alone; a record
\* the event does not fit is flagged.
OnGroupEvent(epoch) ==
    rec' = IF rec = NoRecord \/ epoch <= rec.epoch \/ rec.state # "active"
             THEN rec ELSE ApplyVerifiedEvent(rec, epoch)

\* _record_from_attested: the authoritative snapshot, unless it is behind the
\* base or does not list the user.
Adoptable(base, answer) ==
    /\ answer.epoch >= base.epoch
    /\ answer.role = "member" /\ me \in relayLog[answer.epoch].roster
Adopted(answer) ==
    [state |-> "active", epoch |-> answer.epoch,
     roster |-> relayLog[answer.epoch].roster, suspect |-> FALSE]

\* archive_locally and purge_archived: only terminal records are discarded.
Archive ==
    /\ rec.state \in TerminalStates
    /\ rec' = NoRecord
    /\ UNCHANGED <<me, op, inbound, relayLog, hosted, bound, admission, signing,
                   calls, drops>>

\* mark_defunct, called when the relay answers a forward with group/unknown.
MarkDefunct ==
    /\ ~hosted /\ rec.state = "active"
    /\ rec' = [rec EXCEPT !.state = "defunct"]
    /\ UNCHANGED <<me, op, inbound, relayLog, hosted, bound, admission, signing,
                   calls, drops>>

-----------------------------------------------------------------------------
(* Operations: the requests they start with. *)

Starts(pc, what) ==
    /\ op.pc = "idle" /\ calls < MaxCalls
    /\ calls' = calls + 1
    /\ op' = [pc |-> pc, asked |-> TRUE, base |-> rec, got |-> NoPacket,
              event |-> 0, what |-> what]
    /\ UNCHANGED <<me, rec, inbound, relayLog, hosted, bound, admission, signing,
                   drops>>

\* _require_usable_record
Usable == rec.state = "active" /\ ~rec.suspect

CreateLocalGroup == me = RecordOwner /\ rec = NoRecord /\ Epoch = 0 /\ Starts("create", NoSigning)
JoinGroup == me = Self /\ Starts("redeem", NoSigning)
SyncGroup == rec.state = "active" /\ Starts("sync", NoSigning)
LeaveGroup ==
    /\ Usable /\ me # RecordOwner
    /\ Starts("before", [kind |-> "left", subject |-> me])
RemoveMember(m) ==
    /\ Usable /\ me = RecordOwner /\ m \in rec.roster \ {RecordOwner}
    /\ Starts("before", [kind |-> "removed", subject |-> m])
DissolveGroup ==
    /\ Usable /\ me = RecordOwner
    /\ Starts("before", [kind |-> "dissolved", subject |-> RecordOwner])

-----------------------------------------------------------------------------
(* The relay. *)

RelayAnswer(packet) == inbound' = Append(inbound, packet)

\* The relay handles the request the operation is waiting for.  An attestation
\* rebinds a member's session; a session with a reservation becomes a
\* candidate, for whom the owner is asked to sign.
RelayAnswersAttest ==
    /\ op.asked /\ op.pc \in {"attest", "reattest", "sync", "before"}
    /\ op' = [op EXCEPT !.asked = FALSE]
    /\ CASE ~hosted -> RelayAnswer([t |-> "error", code |-> "unknown"])
                       /\ UNCHANGED <<bound, admission>>
         [] GroupLives /\ me \in Roster ->
              /\ RelayAnswer([t |-> "attested", role |-> "member", epoch |-> Epoch])
              /\ bound' = TRUE /\ UNCHANGED admission
         [] GroupLives /\ me \notin Roster /\ admission = "pending" ->
              /\ RelayAnswer([t |-> "attested", role |-> "candidate", epoch |-> Epoch])
              /\ bound' = TRUE /\ admission' = "candidate"
         [] OTHER -> RelayAnswer([t |-> "error", code |-> "refused"]) /\ UNCHANGED <<bound, admission>>
    /\ UNCHANGED <<me, rec, relayLog, hosted, signing, calls, drops>>

RelayAnswersRedeem ==
    /\ op.asked /\ op.pc = "redeem"
    /\ op' = [op EXCEPT !.asked = FALSE]
    /\ IF GroupLives /\ admission # "candidate"
         THEN /\ RelayAnswer([t |-> "redeemed", epoch |-> Epoch])
              /\ admission' = "pending"
         ELSE RelayAnswer([t |-> "error", code |-> "refused"]) /\ UNCHANGED admission
    /\ UNCHANGED <<me, rec, relayLog, hosted, bound, signing, calls, drops>>

RelayAnswersCreate ==
    /\ op.asked /\ op.pc = "create"
    /\ op' = [op EXCEPT !.asked = FALSE]
    /\ relayLog' = <<[kind |-> "create", subject |-> RecordOwner, roster |-> {RecordOwner}]>>
    /\ bound' = TRUE
    /\ RelayAnswer([t |-> "granted"])
    /\ UNCHANGED <<me, rec, hosted, admission, signing, calls, drops>>

\* Committing an event: the next epoch, told to every attested session.
Commit(kind, m) ==
    /\ GroupLives /\ Epoch < MaxRecordEpoch
    /\ relayLog' = Append(relayLog,
                          [kind |-> kind, subject |-> m,
                           roster |-> CASE kind = "join" -> Roster \cup {m}
                                        [] kind \in {"left", "removed"} -> Roster \ {m}
                                        [] OTHER -> Roster])
    /\ bound' = (bound /\ ~(m = me /\ kind \in {"left", "removed"}))
    /\ admission' = IF m = me THEN "no" ELSE admission
    /\ inbound' = IF bound THEN Append(inbound, [t |-> "event", epoch |-> Epoch + 1]) ELSE inbound

\* Who may join or depart now, and with whose signature.
MayCommit(kind, m) ==
    CASE kind = "join" -> /\ m \notin Roster /\ Cardinality(Roster) < GroupCapacity
                          /\ m = me => admission = "candidate"
      [] kind \in {"left", "removed"} -> m \in Roster \ {RecordOwner}
      [] OTHER -> m = RecordOwner
Signer(kind, m) == IF kind = "left" THEN m ELSE RecordOwner

\* Somebody else signs: the event commits without the client.
OthersCommit(kind, m) ==
    /\ GroupLives /\ signing = NoSigning /\ MayCommit(kind, m) /\ Signer(kind, m) # me
    /\ Commit(kind, m)
    /\ UNCHANGED <<me, rec, op, hosted, signing, calls, drops>>

\* The client has to sign: an admission its owner is asked for, or the
\* operation it requested itself.
RelayAsksSignature(kind, m) ==
    /\ GroupLives /\ bound /\ signing = NoSigning /\ MayCommit(kind, m) /\ Signer(kind, m) = me
    /\ \A i \in DOMAIN inbound : inbound[i].t # "sign"  \* bound: one request under way
    /\ kind = "join" \/ (op.pc = "wait" /\ op.asked /\ op.what = [kind |-> kind, subject |-> m])
    /\ signing' = [kind |-> kind, subject |-> m, epoch |-> Epoch + 1, signed |-> FALSE]
    /\ RelayAnswer([t |-> "sign", kind |-> kind, subject |-> m, epoch |-> Epoch + 1])
    /\ op' = IF kind = "join" THEN op ELSE [op EXCEPT !.asked = FALSE]
    /\ UNCHANGED <<me, rec, relayLog, hosted, bound, admission, calls, drops>>

RelayCommitsSigned ==
    /\ signing # NoSigning /\ signing.signed
    /\ Commit(signing.kind, signing.subject)
    /\ signing' = NoSigning
    /\ UNCHANGED <<me, rec, op, hosted, calls, drops>>

\* The relay refuses the client's operation, or gives up on a signature for it
\* or for an admission; whoever asked for it is told.
RelayDropsOp ==
    /\ \/ /\ signing # NoSigning
          /\ signing' = NoSigning
          /\ inbound' = IF signing.kind = "join" THEN inbound
                        ELSE Append(inbound, [t |-> "error", code |-> "refused"])
          /\ UNCHANGED <<op, admission>>
       \/ /\ signing = NoSigning /\ op.pc = "wait" /\ op.asked
          /\ op' = [op EXCEPT !.asked = FALSE]
          /\ RelayAnswer([t |-> "error", code |-> "refused"])
          /\ UNCHANGED <<signing, admission>>
       \/ /\ admission = "candidate" /\ bound
          /\ admission' = "no"
          /\ RelayAnswer([t |-> "error", code |-> "refused"])
          /\ UNCHANGED <<signing, op>>
    /\ UNCHANGED <<me, rec, relayLog, hosted, bound, calls, drops>>

\* The relay restarts: its groups are gone.  The connection falls with it.
RelayRestarts ==
    /\ hosted /\ Epoch > 0 /\ drops < MaxDrops
    /\ hosted' = FALSE /\ bound' = FALSE /\ admission' = "no" /\ signing' = NoSigning
    /\ inbound' = <<>> /\ drops' = drops + 1
    /\ UNCHANGED <<me, rec, op, relayLog, calls>>

ConnectionLost ==
    /\ drops < MaxDrops
    /\ drops' = drops + 1
    /\ bound' = FALSE /\ admission' = "no" /\ inbound' = <<>>
    /\ UNCHANGED <<me, rec, op, relayLog, hosted, signing, calls>>

-----------------------------------------------------------------------------
(* The client's reader: packets are handled in order, and an operation that *)
(* waits for one is marked for waking (a future gets its result).           *)

Arrives(type) == inbound # <<>> /\ Head(inbound).t = type
ReaderUnchanged == UNCHANGED <<me, relayLog, hosted, bound, admission, calls, drops>>

\* The event a join, a leave, a removal or a dissolution waits for.
Awaited(event) ==
    \/ op.pc \in {"attest", "await"} /\ event.kind = "join" /\ event.subject = me
    \/ op.pc = "wait" /\ event.kind = op.what.kind /\ event.subject = op.what.subject

\* _route_group_event: the waiter first, then the listener.
ReadEvent ==
    /\ Arrives("event")
    /\ LET epoch == Head(inbound).epoch IN
         /\ op' = IF Awaited(relayLog[epoch]) THEN [op EXCEPT !.event = epoch] ELSE op
         /\ OnGroupEvent(epoch)
    /\ inbound' = Tail(inbound)
    /\ UNCHANGED signing /\ ReaderUnchanged

\* _resolve_group and _reject_pending_group; an answer nobody waits for is
\* dropped.
ReadAnswer ==
    /\ inbound # <<>> /\ Head(inbound).t \in {"attested", "redeemed", "granted", "error"}
    /\ op' = IF op.pc = "idle" \/ op.asked \/ op.got # NoPacket
                THEN op ELSE [op EXCEPT !.got = Head(inbound)]
    /\ inbound' = Tail(inbound)
    /\ UNCHANGED <<rec, signing>> /\ ReaderUnchanged

\* _sign_for_relay: only for the next epoch of a record that is active and
\* not suspect, and only what the user may authorise.
ReadSignRequest ==
    /\ Arrives("sign")
    /\ LET request == Head(inbound) IN
         signing' =
           IF /\ Usable /\ request.epoch = rec.epoch + 1
              /\ (request.kind = "left" /\ request.subject = me)
                   \/ (request.kind # "left" /\ me = RecordOwner)
              /\ signing # NoSigning /\ signing.epoch = request.epoch
             THEN [signing EXCEPT !.signed = TRUE] ELSE signing
    /\ inbound' = Tail(inbound)
    /\ UNCHANGED <<rec, op>> /\ ReaderUnchanged

-----------------------------------------------------------------------------
(* Operations: what follows each await. *)

Resumes(pc, type) ==
    /\ op.pc = pc /\ op.got.t = type
    /\ UNCHANGED <<me, inbound, relayLog, hosted, bound, admission, signing, calls, drops>>
Proceed(pc) == op' = [op EXCEPT !.pc = pc, !.asked = (pc # "await"), !.got = NoPacket]
Done == op' = Idle

CreateGranted ==
    /\ Resumes("create", "granted") /\ Done
    /\ Save([state |-> "active", epoch |-> 1, roster |-> {me}, suspect |-> FALSE])

\* The redemption's snapshot is pinned, then the session attests.
JoinRedeemed ==
    /\ Resumes("redeem", "redeemed")
    /\ op' = [op EXCEPT !.pc = "attest", !.asked = TRUE, !.got = NoPacket,
                        !.base = [state |-> "active", epoch |-> op.got.epoch,
                                  roster |-> relayLog[op.got.epoch].roster, suspect |-> FALSE]]
    /\ UNCHANGED rec

\* Already a member: the snapshot is adopted; otherwise wait for admission.
JoinAttested ==
    /\ Resumes("attest", "attested")
    /\ IF op.got.role = "member"
         THEN /\ IF Adoptable(op.base, op.got) THEN Save(Adopted(op.got)) ELSE UNCHANGED rec
              /\ Done
         ELSE Proceed("await") /\ UNCHANGED rec

\* The admission arrived: attest again, for the roster as it is now.
JoinAdmitted ==
    /\ op.pc = "await" /\ op.event # 0
    /\ Proceed("reattest")
    /\ UNCHANGED <<me, rec, inbound, relayLog, hosted, bound, admission, signing, calls, drops>>

JoinReattested ==
    /\ Resumes("reattest", "attested") /\ Done
    /\ IF op.got.role = "member" /\ op.got.epoch >= op.event /\ Adoptable(op.base, op.got)
         THEN Save(Adopted(op.got)) ELSE UNCHANGED rec

\* sync_group: judged by, and saved over, the record read before the await.
SyncAttested ==
    /\ Resumes("sync", "attested") /\ Done
    /\ rec' = IF Adoptable(op.base, op.got)
                THEN Adopted(op.got) ELSE [op.base EXCEPT !.suspect = TRUE]

SyncUnknown ==
    /\ Resumes("sync", "error") /\ Done
    /\ rec' = IF op.got.code = "unknown" THEN [op.base EXCEPT !.state = "defunct"] ELSE rec

\* leave_group, remove_member, dissolve_group after their attestation.
RequestSent ==
    /\ Resumes("before", "attested") /\ Proceed("wait") /\ UNCHANGED rec

\* _after_committed: the event has been applied by the listener.
AfterCommitted ==
    /\ op.pc = "wait" /\ op.event # 0
    /\ Done
    /\ UNCHANGED <<me, rec, inbound, relayLog, hosted, bound, admission, signing, calls, drops>>

\* Every other refusal, and a timeout of any request, ends the operation.
Refused ==
    /\ op.pc \notin {"idle", "sync"} /\ op.got.t = "error"
    /\ Done
    /\ UNCHANGED <<me, rec, inbound, relayLog, hosted, bound, admission, signing, calls, drops>>
TimedOut ==
    /\ op.pc # "idle" /\ op.got = NoPacket /\ op.event = 0
    /\ Done
    /\ UNCHANGED <<me, rec, inbound, relayLog, hosted, bound, admission, signing, calls, drops>>

-----------------------------------------------------------------------------
EventKinds == {"join", "left", "removed", "dissolved"}

LocalGroupNext ==
    \/ Archive \/ MarkDefunct
    \/ CreateLocalGroup \/ JoinGroup \/ SyncGroup \/ LeaveGroup \/ DissolveGroup
    \/ \E m \in Others : RemoveMember(m)
    \/ RelayAnswersAttest \/ RelayAnswersRedeem \/ RelayAnswersCreate
    \/ \E kind \in EventKinds, m \in {RecordOwner, me} \cup Others :
          OthersCommit(kind, m) \/ RelayAsksSignature(kind, m)
    \/ RelayCommitsSigned \/ RelayDropsOp \/ RelayRestarts \/ ConnectionLost
    \/ ReadEvent \/ ReadAnswer \/ ReadSignRequest
    \/ CreateGranted \/ JoinRedeemed \/ JoinAttested \/ JoinAdmitted \/ JoinReattested
    \/ SyncAttested \/ SyncUnknown \/ RequestSent \/ AfterCommitted \/ Refused \/ TimedOut

LocalGroupSpec == LocalGroupInit /\ [][LocalGroupNext]_lgvars

-----------------------------------------------------------------------------
(* Properties. *)

\* However events, snapshots and losses interleave, the stored record is a
\* state of the group the authority really went through: its roster is the
\* roster of its epoch, an archived record names the event that archived it,
\* and the record of a running group lists its user (_on_group_event,
\* _record_from_attested).
RecordFaithful ==
    rec # NoRecord =>
      /\ rec.epoch \in 1..Epoch
      /\ rec.roster = relayLog[rec.epoch].roster
      /\ rec.state \in {"left", "removed", "dissolved"} =>
           /\ relayLog[rec.epoch].kind = rec.state
           /\ rec.state # "dissolved" => relayLog[rec.epoch].subject = me
      /\ rec.state = "active" => me \in rec.roster

\* "Never regress an epoch" (lifecycle.py, sync_group) and "archived groups
\* are immutable" (_on_group_event): a stored record only moves forward.
RecordNeverRegresses ==
    [][rec # NoRecord /\ rec' # NoRecord =>
         rec'.epoch >= rec.epoch /\ (rec.state # "active" => rec' = rec)]_lgvars
=============================================================================
