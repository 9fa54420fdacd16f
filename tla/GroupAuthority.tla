--------------------------- MODULE GroupAuthority ---------------------------
(***************************************************************************)
(* The relay's registry of one group (ghostlink/groups/authority.py) with  *)
(* the handlers that drive it (ghostlink/transport/relay/server.py).       *)
(*                                                                         *)
(* Membership changes are two-phase: a request queues an operation, the    *)
(* head of the queue is offered to its signer with the epoch it would get, *)
(* and a valid signature commits it.  The authority never awaits, so each  *)
(* call is one action; a handler that writes to a socket between its call  *)
(* and _deliver_sign_task owes that delivery in the meantime.              *)
(*                                                                         *)
(* A session stands for a connection of one identity.  The relay keeps     *)
(* nothing of a session it has detached, so a fresh session id may be the  *)
(* same value again.  Clocks are abstracted to "the timeout may be over".  *)
(***************************************************************************)
EXTENDS Naturals, Sequences, FiniteSets

CONSTANTS
    Identities,       \* who may be on the roster
    Owner,            \* the creator of the group
    Sessions,         \* connections an identity may have
    IdentityOf,       \* the identity behind each session
    NoSession,        \* session_id is None
    MaxGroupMembers,  \* MAX_GROUP_MEMBERS
    MaxPendingOps,    \* GROUP_MAX_PENDING_OPS
    EventsKept,       \* GROUP_EVENTS_KEPT
    MaxEpoch          \* bound on the commits

ASSUME GroupConstants ==
    /\ IsFiniteSet(Identities)
    /\ IsFiniteSet(Sessions)
    /\ Owner \in Identities
    /\ IdentityOf \in [Sessions -> Identities]
    /\ NoSession \notin Sessions
    /\ MaxGroupMembers \in Nat \ {0}
    /\ MaxPendingOps \in Nat \ {0}
    /\ EventsKept \in Nat \ {0}
    /\ MaxEpoch \in Nat

VARIABLES
    state,         \* the group: "none", "active", "dissolved" or "purged"
    members,       \* status of each identity, "none" if not in group.members
    session,       \* session_id of each member
    pendingJoins,  \* sessions that hold a pending join
    ops,           \* FIFO of pending operations
    epoch,
    events,        \* the signed events still kept
    owed           \* handlers that have yet to call _deliver_sign_task

groupVars == <<state, members, session, pendingJoins, ops, epoch, events, owed>>

Kinds == {"join", "left", "removed", "dissolved"}

\* epoch is 0 until next_sign_task promotes the operation; current says
\* whether join_candidate is the very member object in group.members.
Ops == [kind : Kinds, subject : Identities, signer : Identities,
        epoch : Nat, current : BOOLEAN]

Active == {i \in Identities : members[i] = "active"}
Candidates == {i \in Identities : members[i] = "candidate"}

TypeOK ==
    /\ state \in {"none", "active", "dissolved", "purged"}
    /\ members \in [Identities -> {"none", "candidate", "active"}]
    /\ session \in [Identities -> Sessions \cup {NoSession}]
    /\ pendingJoins \subseteq Sessions
    /\ ops \in Seq(Ops)
    /\ Len(ops) <= MaxPendingOps
    /\ epoch \in Nat
    /\ events \in Seq([epoch : Nat, kind : Kinds, subject : Identities])
    /\ owed \subseteq {"attest", "settled"}

Init ==
    /\ state = "none"
    /\ members = [i \in Identities |-> "none"]
    /\ session = [i \in Identities |-> NoSession]
    /\ pendingJoins = {}
    /\ ops = <<>>
    /\ epoch = 0
    /\ events = <<>>
    /\ owed = {}

\* create_group: the creator is the owner, at epoch 1.
CreateGroup(s) ==
    /\ state = "none"
    /\ IdentityOf[s] = Owner
    /\ state' = "active"
    /\ members' = [members EXCEPT ![Owner] = "active"]
    /\ session' = [session EXCEPT ![Owner] = s]
    /\ epoch' = 1
    /\ UNCHANGED <<pendingJoins, ops, events, owed>>

-----------------------------------------------------------------------------
(* The queue of operations. *)

\* Mutant: the epoch is assigned when the operation is queued, so that all of
\* the queue is stamped at once.
OfferedAll(q) ==
    [k \in DOMAIN q |-> IF q[k].epoch = 0 THEN [q[k] EXCEPT !.epoch = epoch + 1] ELSE q[k]]

\* next_sign_task, as _deliver_sign_task calls it: the head is promoted.
Offered(q) ==
    IF q # <<>> /\ q[1].epoch = 0 THEN [q EXCEPT ![1].epoch = epoch + 1] ELSE q

Pending(kind, subject) ==
    \E k \in DOMAIN ops : ops[k].kind = kind /\ ops[k].subject = subject

NewOp(kind, subject, signer) ==
    [kind |-> kind, subject |-> subject, signer |-> signer, epoch |-> 0,
     current |-> kind = "join"]

\* The operations of q once the member object of i has left group.members or
\* was replaced there.
Detached(q, i) ==
    [k \in DOMAIN q |-> IF q[k].subject = i THEN [q[k] EXCEPT !.current = FALSE] ELSE q[k]]

\* _deliver_sign_task of a handler that has written to its socket.
DeliverSignTask ==
    /\ owed # {}
    /\ owed' \in {owed \ {h} : h \in owed}
    /\ ops' = Offered(ops)
    /\ UNCHANGED <<state, members, session, pendingJoins, epoch, events>>

\* The write of GROUP_ATTESTED fails, and the handler ends before its offer.
AttestedLost ==
    /\ "attest" \in owed
    /\ owed' = owed \ {"attest"}
    /\ UNCHANGED <<state, members, session, pendingJoins, ops, epoch, events>>

-----------------------------------------------------------------------------
(* Joining. *)

Reserved == Cardinality(Active) + Cardinality(Candidates) + Cardinality(pendingJoins)

\* Mutant: candidates are forgotten in the check.
BeginJoinRedemptionOver(s) ==
    /\ state = "active"
    /\ s \notin pendingJoins
    /\ Cardinality(Active) + Cardinality(pendingJoins) < MaxGroupMembers
    /\ pendingJoins' = pendingJoins \cup {s}
    /\ UNCHANGED <<state, members, session, ops, epoch, events, owed>>

\* begin_join_redemption, in the handler whose invite turns out good (with a
\* bad one cancel_pending_join undoes it in the same step).
BeginJoinRedemption(s) ==
    /\ state = "active"
    /\ s \notin pendingJoins
    /\ Reserved < MaxGroupMembers
    /\ pendingJoins' = pendingJoins \cup {s}
    /\ UNCHANGED <<state, members, session, ops, epoch, events, owed>>

\* attest by an active member: its session is bound again.
AttestMember(s) ==
    /\ state = "active"
    /\ members[IdentityOf[s]] = "active"
    /\ session' = [session EXCEPT ![IdentityOf[s]] = s]
    /\ owed' = owed \cup {"attest"}
    /\ UNCHANGED <<state, members, pendingJoins, ops, epoch, events>>

\* attest with a pending join: a fresh candidate takes the identity's place.
BecomeCandidate(s) ==
    /\ state = "active"
    /\ members[IdentityOf[s]] # "active"
    /\ s \in pendingJoins
    /\ pendingJoins' = pendingJoins \ {s}
    /\ members' = [members EXCEPT ![IdentityOf[s]] = "candidate"]
    /\ session' = [session EXCEPT ![IdentityOf[s]] = s]

\* Mutant: a pending admission is queued again.
AttestCandidateAgain(s) ==
    /\ BecomeCandidate(s)
    /\ Len(ops) < MaxPendingOps
    /\ ops' = Append(Detached(ops, IdentityOf[s]), NewOp("join", IdentityOf[s], Owner))
    /\ owed' = owed \cup {"attest"}
    /\ UNCHANGED <<state, epoch, events>>

\* Its admission is queued for the owner, once.
AttestCandidate(s) ==
    /\ BecomeCandidate(s)
    /\ Len(ops) < MaxPendingOps
    /\ ops' = IF Pending("join", IdentityOf[s])
                THEN Detached(ops, IdentityOf[s])
                ELSE Append(ops, NewOp("join", IdentityOf[s], Owner))
    /\ owed' = owed \cup {"attest"}
    /\ UNCHANGED <<state, epoch, events>>

\* The queue is full: _enqueue_op refuses when the candidate is written.
AttestRefused(s) ==
    /\ BecomeCandidate(s)
    /\ Len(ops) >= MaxPendingOps
    /\ ops' = Detached(ops, IdentityOf[s])
    /\ UNCHANGED <<state, epoch, events, owed>>

-----------------------------------------------------------------------------
(* Requests of members; _deliver_sign_task follows without an await. *)

Attested(i) == session[i] # NoSession /\ members[i] = "active"

\* Mutant: the limit on pending operations is not checked.
RequestUnbounded(i, kind, subject, signer) ==
    /\ state = "active"
    /\ Attested(i)
    /\ ops' = Offered(IF Pending(kind, subject) THEN ops
                      ELSE Append(ops, NewOp(kind, subject, signer)))
    /\ UNCHANGED <<state, members, session, pendingJoins, epoch, events, owed>>

\* A request of i, queued by _enqueue_op unless the same one is pending.
Request(i, kind, subject, signer) ==
    /\ state = "active"
    /\ Attested(i)
    /\ Len(ops) < MaxPendingOps
    /\ ops' = Offered(IF Pending(kind, subject) THEN ops
                      ELSE Append(ops, NewOp(kind, subject, signer)))
    /\ UNCHANGED <<state, members, session, pendingJoins, epoch, events, owed>>

\* Mutant: the owner may leave like any member.
RequestLeaveAnyone(i) == Request(i, "left", i, i)

RequestLeave(i) ==
    /\ i # Owner
    /\ Request(i, "left", i, i)

RequestRemove(i) ==
    /\ members[i] = "active"
    /\ i # Owner
    /\ Request(Owner, "removed", i, Owner)

RequestDissolve == Request(Owner, "dissolved", Owner, Owner)

-----------------------------------------------------------------------------
(* Signatures. *)

\* Mutant: at the limit the newest event is dropped, not the oldest.
KeptOldest(log) ==
    LET n == Len(log) IN IF n > EventsKept THEN SubSeq(log, 1, EventsKept) ELSE log

\* The newest EventsKept events.
Kept(log) ==
    LET n == Len(log) IN IF n > EventsKept THEN SubSeq(log, n - EventsKept + 1, n) ELSE log

\* What _commit does to the roster.
CommitRoster(op) ==
    \/ /\ op.kind = "join"
       /\ members' = [members EXCEPT ![op.subject] = IF op.current THEN "active" ELSE @]
       /\ ops' = Tail(ops)
       /\ UNCHANGED <<state, session>>
    \/ /\ op.kind \in {"left", "removed"}
       /\ members' = [members EXCEPT ![op.subject] = "none"]
       /\ session' = [session EXCEPT ![op.subject] = NoSession]
       /\ ops' = Detached(Tail(ops), op.subject)
       /\ UNCHANGED state
    \/ /\ op.kind = "dissolved"
       /\ state' = "dissolved"
       /\ ops' = <<>>
       /\ UNCHANGED <<members, session>>

\* The head is out for a signature, and its signer's session can answer.
Signable ==
    /\ state = "active"
    /\ ops # <<>> /\ ops[1].epoch # 0
    /\ Attested(ops[1].signer)

\* Mutant: a departure is committed without an epoch of its own.
SubmitSignatureNoEpoch ==
    /\ Signable
    /\ epoch < MaxEpoch
    /\ epoch' = IF ops[1].kind = "removed" THEN epoch ELSE epoch + 1
    /\ events' = Kept(Append(events,
                  [epoch |-> epoch + 1, kind |-> ops[1].kind, subject |-> ops[1].subject]))
    /\ CommitRoster(ops[1])
    /\ owed' = owed \cup {"settled"}
    /\ UNCHANGED pendingJoins

\* submit_signature: the event is broadcast before the next offer.
SubmitSignature ==
    /\ Signable
    /\ epoch < MaxEpoch
    /\ epoch' = epoch + 1
    /\ events' = Kept(Append(events,
                  [epoch |-> epoch + 1, kind |-> ops[1].kind, subject |-> ops[1].subject]))
    /\ CommitRoster(ops[1])
    /\ owed' = owed \cup {"settled"}
    /\ UNCHANGED pendingJoins

\* _abort_head_op: a join's candidate is dropped by its fingerprint.
AbortHeadOp ==
    /\ ops' = Tail(ops)
    /\ IF ops[1].kind = "join"
         THEN /\ members' = [members EXCEPT ![ops[1].subject] = "none"]
              /\ session' = [session EXCEPT ![ops[1].subject] = NoSession]
         ELSE UNCHANGED <<members, session>>

\* submit_signature with a signature that does not verify; the handler
\* answers with an error and offers nothing.
SubmitBadSignature ==
    /\ Signable
    /\ AbortHeadOp
    /\ UNCHANGED <<state, pendingJoins, epoch, events, owed>>

-----------------------------------------------------------------------------
(* The sweeper and the end of a connection. *)

\* The signature wait is over.  Only an expired join makes a notice, and only
\* a notice makes _sweep_groups offer the next operation.
SignTimeout ==
    /\ state = "active"
    /\ ops # <<>> /\ ops[1].epoch # 0
    /\ AbortHeadOp
    /\ owed' = IF ops[1].kind = "join" THEN owed \cup {"settled"} ELSE owed
    /\ UNCHANGED <<state, pendingJoins, epoch, events>>

\* A pending join expires, with a notice.
JoinTimeout(s) ==
    /\ state = "active"
    /\ s \in pendingJoins
    /\ pendingJoins' = pendingJoins \ {s}
    /\ owed' = owed \cup {"settled"}
    /\ UNCHANGED <<state, members, session, ops, epoch, events>>

\* The tombstone of a dissolved group is dropped.
PurgeTombstone ==
    /\ state = "dissolved"
    /\ state' = "purged"
    /\ UNCHANGED <<members, session, pendingJoins, ops, epoch, events, owed>>

\* disbind_session
DisbindSession(s) ==
    /\ state = "active"
    /\ s \in pendingJoins \/ session[IdentityOf[s]] = s
    /\ session' = [i \in Identities |-> IF session[i] = s THEN NoSession ELSE session[i]]
    /\ pendingJoins' = pendingJoins \ {s}
    /\ UNCHANGED <<state, members, ops, epoch, events, owed>>

Next ==
    \/ \E s \in Sessions :
          \/ CreateGroup(s)
          \/ BeginJoinRedemption(s)
          \/ AttestMember(s)
          \/ AttestCandidate(s)
          \/ AttestRefused(s)
          \/ JoinTimeout(s)
          \/ DisbindSession(s)
    \/ \E i \in Identities : RequestLeave(i) \/ RequestRemove(i)
    \/ RequestDissolve
    \/ DeliverSignTask
    \/ AttestedLost
    \/ SubmitSignature
    \/ SubmitBadSignature
    \/ SignTimeout
    \/ PurgeTombstone

Spec == Init /\ [][Next]_groupVars

\* A running handler goes on to its delivery and not all of its writes fail,
\* and the sweeper ends every signature wait.
FairSpec == Spec /\ SF_groupVars(DeliverSignTask) /\ WF_groupVars(SignTimeout)

-----------------------------------------------------------------------------
(* Properties. *)

\* The roster, the candidates and the pending joins together never exceed the
\* capacity, however redemptions, attestations, aborts and expiries interleave
\* (begin_join_redemption checks only when a slot is reserved).
CapacityRespected == Reserved <= MaxGroupMembers

\* What a queued operation relies on when it is committed, after any number of
\* other commits: an admission is queued once, for someone who is not a member,
\* and if its candidate is the one on the roster, that one still is a candidate;
\* a departure is never the owner's (_enqueue_op, attest, _commit).
OpConsistent(op, m) ==
    /\ op.kind = "join" =>
          /\ m[op.subject] # "active"
          /\ op.current => m[op.subject] = "candidate"
    /\ op.kind \in {"left", "removed"} => op.subject # Owner
QueueConsistent ==
    /\ \A k \in DOMAIN ops : OpConsistent(ops[k], members)
    /\ \A j, k \in DOMAIN ops :
          ops[j].kind = "join" /\ ops[k].kind = "join" /\ ops[j].subject = ops[k].subject
          => j = k

\* At most the head of the queue is out for a signature, and the epoch that is
\* being signed is the one the commit will assign (next_sign_task, _commit).
SignedEpochIsNext ==
    \A k \in DOMAIN ops : ops[k].epoch # 0 => k = 1 /\ ops[k].epoch = epoch + 1

\* A live group always has its owner on the roster, so that whatever waits for
\* the owner's signature can still get it (request_leave, request_remove).
OwnerStays == state = "active" => members[Owner] = "active"

\* The kept events are the gapless end of the log: the newest one carries the
\* group's epoch, and each is the successor of the one before (_commit).
EventsAreTail ==
    \A k \in DOMAIN events : events[k].epoch + Len(events) = epoch + k

\* What the authority keeps of a group stays consistent however redemptions,
\* attestations, signatures, aborts and departures interleave: its limits, its
\* queue, the epoch out for a signature, the owner and the log (authority.py).
GroupSafe ==
    /\ TypeOK /\ CapacityRespected /\ QueueConsistent
    /\ SignedEpochIsNext /\ OwnerStays /\ EventsAreTail

\* A member joins or departs only in a commit, one at a time: an abort, a
\* timeout or a late attestation never puts an active member in or out, even
\* though _abort_head_op drops the candidate by fingerprint alone.
RosterMoves ==
    Active' # Active =>
        \/ epoch = 0
        \/ /\ epoch' = epoch + 1
           /\ \E i \in Identities : Active' \in {Active \cup {i}, Active \ {i}}
RosterChangesByEpoch == [][RosterMoves]_groupVars

\* Who is a member by the signed events alone: the owner, and whoever has
\* joined and not departed since.
LogRoster ==
    {Owner} \cup
    {i \in Identities : \E k \in DOMAIN events :
        /\ events[k].kind = "join" /\ events[k].subject = i
        /\ \A j \in DOMAIN events :
              j > k /\ events[j].subject = i => events[j].kind = "join"}

\* "Clients always converge by applying the signed event stream": as long as no
\* event was dropped, the stream yields the roster the relay enforces.
StreamMatchesRoster ==
    state = "active" /\ Len(events) = epoch - 1 => LogRoster = Active

\* "remove vs leave: First committed wins; the other verdicts off final state":
\* a departure is committed only for somebody who is still on the roster.
DepartStep ==
    epoch' = epoch + 1 /\ events' # <<>> =>
        LET e == events'[Len(events')]
        IN  e.kind \in {"left", "removed"} => members[e.subject] = "active"
DepartsOnce == [][DepartStep]_groupVars

\* A candidate's admission is pending, so that it ends: "signature wait <= 60 s,
\* then the op aborts and the candidate slot frees".
CandidateIsPending ==
    state = "active" => \A i \in Candidates : Pending("join", i)

\* A queued operation is always offered to its signer in the end ("so the next
\* head is offered with a fresh epoch").
HeadIsOffered ==
    (ops # <<>> /\ ops[1].epoch = 0) ~> (ops = <<>> \/ ops[1].epoch # 0)

=============================================================================
