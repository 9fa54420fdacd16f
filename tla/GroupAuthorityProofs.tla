------------------------ MODULE GroupAuthorityProofs ------------------------
(***************************************************************************)
(* Proofs about the group authority, for any set of identities and         *)
(* sessions and any limits: the roster, its capacity and the epochs that   *)
(* are being signed.                                                       *)
(***************************************************************************)
EXTENDS GroupAuthority, FiniteSetTheorems, TLAPS

Events == [epoch : Nat, kind : Kinds, subject : Identities]

-----------------------------------------------------------------------------
(* The queue operators. *)

\* Detached changes no operation but its current flag, and clears that of i.
LEMMA DetachedQueue ==
    ASSUME NEW q \in Seq(Ops), NEW i \in Identities
    PROVE  /\ Detached(q, i) \in Seq(Ops)
           /\ Len(Detached(q, i)) = Len(q)
           /\ \A k \in 1..Len(q) :
                 /\ Detached(q, i)[k].kind = q[k].kind
                 /\ Detached(q, i)[k].subject = q[k].subject
                 /\ Detached(q, i)[k].signer = q[k].signer
                 /\ Detached(q, i)[k].epoch = q[k].epoch
                 /\ Detached(q, i)[k].current => q[k].current /\ q[k].subject # i
<1> DEFINE d == Detached(q, i)
<1>1. \A k \in 1..Len(q) : q[k] \in Ops
  OBVIOUS
<1>2. DOMAIN q = 1..Len(q) /\ Len(q) \in Nat
  OBVIOUS
<1>3. d \in [1..Len(q) -> Ops]
  BY <1>1, <1>2, Zenon DEF Detached, Ops
<1>4. d \in Seq(Ops) /\ Len(d) = Len(q)
  <2> HIDE DEF d
  <2> QED BY <1>2, <1>3
<1>5. \A k \in 1..Len(q) :
         d[k] = IF q[k].subject = i THEN [q[k] EXCEPT !.current = FALSE] ELSE q[k]
  BY <1>2 DEF Detached
<1>6. \A k \in 1..Len(q) :
         /\ d[k].kind = q[k].kind /\ d[k].subject = q[k].subject
         /\ d[k].signer = q[k].signer /\ d[k].epoch = q[k].epoch
         /\ d[k].current => q[k].current /\ q[k].subject # i
  <2> HIDE DEF d
  <2> QED BY <1>1, <1>5, Zenon DEF Ops
<1> QED BY <1>4, <1>6

\* Offered changes no operation but the epoch of an unpromoted head.
LEMMA OfferedQueue ==
    ASSUME NEW q \in Seq(Ops), epoch \in Nat
    PROVE  /\ Offered(q) \in Seq(Ops)
           /\ Len(Offered(q)) = Len(q)
           /\ \A k \in 1..Len(q) :
                 /\ Offered(q)[k].kind = q[k].kind
                 /\ Offered(q)[k].subject = q[k].subject
                 /\ Offered(q)[k].current = q[k].current
                 /\ \/ Offered(q)[k].epoch = q[k].epoch
                    \/ k = 1 /\ Offered(q)[k].epoch = epoch + 1
<1>1. CASE q # <<>> /\ q[1].epoch = 0
  <2> DEFINE r == [q EXCEPT ![1].epoch = epoch + 1]
  <2>1. Offered(q) = r
    BY <1>1 DEF Offered
  <2>2. Len(q) \in Nat /\ Len(q) >= 1 /\ DOMAIN q = 1..Len(q)
    BY <1>1
  <2>3. \A k \in 1..Len(q) : q[k] \in Ops
    OBVIOUS
  <2>4. r = [q EXCEPT ![1] = [q[1] EXCEPT !.epoch = epoch + 1]]
    OBVIOUS
  <2>5. [q[1] EXCEPT !.epoch = epoch + 1] \in Ops
    BY <2>2, <2>3 DEF Ops
  <2>6. r \in [1..Len(q) -> Ops]
    BY <2>2, <2>3, <2>4, <2>5
  <2>7. \A k \in 1..Len(q) :
           r[k] = IF k = 1 THEN [q[1] EXCEPT !.epoch = epoch + 1] ELSE q[k]
    BY <2>2, <2>4
  <2> HIDE DEF r
  <2>8. r \in Seq(Ops) /\ Len(r) = Len(q)
    BY <2>2, <2>6
  <2>9. \A k \in 1..Len(q) :
           /\ r[k].kind = q[k].kind /\ r[k].subject = q[k].subject
           /\ r[k].current = q[k].current
           /\ \/ r[k].epoch = q[k].epoch
              \/ k = 1 /\ r[k].epoch = epoch + 1
    BY <2>2, <2>3, <2>7 DEF Ops
  <2> QED BY <2>1, <2>8, <2>9
<1>2. CASE ~ (q # <<>> /\ q[1].epoch = 0)
  BY <1>2 DEF Offered
<1> QED BY <1>1, <1>2

\* The kept events are a tail of the log, and all of it up to the limit.
LEMMA KeptTail ==
    ASSUME NEW log \in Seq(Events), EventsKept \in Nat \ {0}
    PROVE  /\ Kept(log) \in Seq(Events)
           /\ Len(Kept(log)) <= Len(log)
           /\ \A k \in 1..Len(Kept(log)) :
                 Kept(log)[k] = log[k + Len(log) - Len(Kept(log))]
<1>1. Len(log) \in Nat
  OBVIOUS
<1>2. CASE Len(log) > EventsKept
  <2>1. Kept(log) = SubSeq(log, Len(log) - EventsKept + 1, Len(log))
    BY <1>2 DEF Kept
  <2>2. SubSeq(log, Len(log) - EventsKept + 1, Len(log)) \in Seq(Events)
    BY <1>1, <1>2
  <2>3. Len(SubSeq(log, Len(log) - EventsKept + 1, Len(log))) = EventsKept
    BY <1>1, <1>2
  <2>4. \A k \in 1..EventsKept :
           SubSeq(log, Len(log) - EventsKept + 1, Len(log))[k] = log[k + Len(log) - EventsKept]
    BY <1>1, <1>2
  <2> QED BY <1>1, <1>2, <2>1, <2>2, <2>3, <2>4
<1>3. CASE ~ (Len(log) > EventsKept)
  BY <1>1, <1>3 DEF Kept
<1> QED BY <1>2, <1>3

-----------------------------------------------------------------------------
(* What the queue promises, as a predicate on a queue, a roster, an epoch. *)

Statuses == {"none", "candidate", "active"}
Rosters == [Identities -> Statuses]

Queue(q, m, e) ==
    /\ \A k \in 1..Len(q) :
          /\ OpConsistent(q[k], m)
          /\ q[k].epoch # 0 => k = 1 /\ q[k].epoch = e + 1
    /\ \A j, k \in 1..Len(q) :
          q[j].kind = "join" /\ q[k].kind = "join" /\ q[j].subject = q[k].subject => j = k

NoJoin(q, i) == \A k \in 1..Len(q) : ~ (q[k].kind = "join" /\ q[k].subject = i)

\* The promise is what QueueConsistent and SignedEpochIsNext say.
LEMMA QueueMeaning ==
    ASSUME ops \in Seq(Ops)
    PROVE  Queue(ops, members, epoch) <=> QueueConsistent /\ SignedEpochIsNext
<1>1. DOMAIN ops = 1..Len(ops)
  OBVIOUS
<1> QED BY <1>1 DEF Queue, QueueConsistent, SignedEpochIsNext

\* The subject of a queued operation is an identity.
LEMMA QueueSubjects ==
    ASSUME NEW q \in Seq(Ops)
    PROVE  \A k \in 1..Len(q) : q[k].subject \in Identities
<1>1. \A k \in 1..Len(q) : q[k] \in Ops
  OBVIOUS
<1> QED BY <1>1 DEF Ops

\* Promoting the head keeps it.
LEMMA QueueOffered ==
    ASSUME NEW q \in Seq(Ops), NEW m \in Rosters, epoch \in Nat, Queue(q, m, epoch)
    PROVE  Queue(Offered(q), m, epoch)
<1> DEFINE r == Offered(q)
<1>1. Len(r) = Len(q)
  BY OfferedQueue
<1>2. \A k \in 1..Len(q) :
         /\ r[k].kind = q[k].kind /\ r[k].subject = q[k].subject
         /\ r[k].current = q[k].current
         /\ \/ r[k].epoch = q[k].epoch
            \/ k = 1 /\ r[k].epoch = epoch + 1
  BY OfferedQueue
<1> HIDE DEF r
<1>3. Queue(r, m, epoch)
  BY <1>1, <1>2 DEF Queue, OpConsistent
<1> QED BY <1>3 DEF r

\* Appending a fresh operation that is consistent keeps it.
LEMMA QueueAppend ==
    ASSUME NEW q \in Seq(Ops), NEW m \in Rosters, NEW e \in Nat, Queue(q, m, e),
           NEW op \in Ops, op.epoch = 0, OpConsistent(op, m),
           op.kind = "join" => NoJoin(q, op.subject)
    PROVE  Queue(Append(q, op), m, e)
<1> DEFINE r == Append(q, op)
<1>1. Len(q) \in Nat /\ Len(r) = Len(q) + 1
  OBVIOUS
<1>2. \A k \in 1..Len(r) : r[k] = IF k = Len(q) + 1 THEN op ELSE q[k]
  OBVIOUS
<1> HIDE DEF r
<1>3. \A k \in 1..Len(r) :
         /\ OpConsistent(r[k], m)
         /\ r[k].epoch # 0 => k = 1 /\ r[k].epoch = e + 1
  <2> SUFFICES ASSUME NEW k \in 1..Len(r)
               PROVE  /\ OpConsistent(r[k], m)
                      /\ r[k].epoch # 0 => k = 1 /\ r[k].epoch = e + 1
    OBVIOUS
  <2>1. CASE k = Len(q) + 1
    BY <1>2, <2>1
  <2>2. CASE k # Len(q) + 1
    BY <1>1, <1>2, <2>2 DEF Queue
  <2> QED BY <2>1, <2>2
<1>4. \A j, k \in 1..Len(r) :
         r[j].kind = "join" /\ r[k].kind = "join" /\ r[j].subject = r[k].subject => j = k
  BY <1>1, <1>2 DEF Queue, NoJoin
<1>5. Queue(r, m, e)
  BY <1>3, <1>4 DEF Queue
<1> QED BY <1>5 DEF r

\* Without its head, nothing of the queue is promoted, and no admission of the
\* head's subject is left if the head was one.
LEMMA QueueTail ==
    ASSUME NEW q \in Seq(Ops), NEW m \in Rosters, NEW e \in Nat, NEW f \in Nat,
           Queue(q, m, e), q # <<>>
    PROVE  /\ Tail(q) \in Seq(Ops)
           /\ Queue(Tail(q), m, f)
           /\ q[1].kind = "join" => NoJoin(Tail(q), q[1].subject)
<1> DEFINE r == Tail(q)
<1>1. Len(q) \in Nat /\ Len(q) >= 1 /\ Len(r) = Len(q) - 1 /\ r \in Seq(Ops)
  OBVIOUS
<1>2. \A k \in 1..Len(r) : r[k] = q[k + 1] /\ k + 1 \in 1..Len(q)
  BY <1>1
<1> HIDE DEF r
<1>3. \A k \in 1..Len(r) :
         /\ OpConsistent(r[k], m)
         /\ r[k].epoch # 0 => k = 1 /\ r[k].epoch = f + 1
  <2> SUFFICES ASSUME NEW k \in 1..Len(r)
               PROVE  OpConsistent(r[k], m) /\ r[k].epoch = 0
    OBVIOUS
  <2>1. k + 1 \in 1..Len(q) /\ k + 1 # 1 /\ r[k] = q[k + 1] BY <1>1, <1>2
  <2>2. OpConsistent(q[k + 1], m) /\ q[k + 1].epoch = 0 BY <2>1 DEF Queue
  <2> QED BY <2>1, <2>2
<1>4. \A j, k \in 1..Len(r) :
         r[j].kind = "join" /\ r[k].kind = "join" /\ r[j].subject = r[k].subject => j = k
  BY <1>1, <1>2 DEF Queue
<1>5. q[1].kind = "join" => NoJoin(r, q[1].subject)
  BY <1>1, <1>2 DEF Queue, NoJoin
<1> QED BY <1>1, <1>3, <1>4, <1>5 DEF Queue, r

\* The status of i may change to anything if no admission of i is queued.
LEMMA QueueRoster ==
    ASSUME NEW q \in Seq(Ops), NEW m \in Rosters, NEW e \in Nat, Queue(q, m, e),
           NEW i \in Identities, NEW v \in Statuses, NoJoin(q, i)
    PROVE  Queue(q, [m EXCEPT ![i] = v], e)
<1>1. \A k \in 1..Len(q) : q[k].subject \in Identities
  BY QueueSubjects
<1> QED BY <1>1 DEF Queue, NoJoin, OpConsistent, Rosters

\* If the operations on i are detached, i may become anything but active.
LEMMA QueueDetached ==
    ASSUME NEW q \in Seq(Ops), NEW m \in Rosters, NEW e \in Nat, Queue(q, m, e),
           NEW i \in Identities, NEW v \in Statuses \ {"active"}
    PROVE  Queue(Detached(q, i), [m EXCEPT ![i] = v], e)
<1> DEFINE d == Detached(q, i)
<1>1. Len(d) = Len(q)
  BY DetachedQueue
<1>2. \A k \in 1..Len(q) :
         /\ d[k].kind = q[k].kind /\ d[k].subject = q[k].subject
         /\ d[k].epoch = q[k].epoch
         /\ d[k].current => q[k].current /\ q[k].subject # i
  BY DetachedQueue
<1>3. \A k \in 1..Len(q) : q[k].subject \in Identities
  BY QueueSubjects
<1> HIDE DEF d
<1>4. Queue(d, [m EXCEPT ![i] = v], e)
  BY <1>1, <1>2, <1>3 DEF Queue, OpConsistent, Rosters, Statuses
<1> QED BY <1>4 DEF d

-----------------------------------------------------------------------------
(* Type correctness. *)

\* The rest of a queue is a queue, and no longer.
LEMMA TailSeq ==
    ASSUME NEW S, NEW q \in Seq(S), q # <<>>, NEW n \in Nat, Len(q) <= n
    PROVE  Tail(q) \in Seq(S) /\ Len(Tail(q)) <= n
OBVIOUS

\* A commit keeps the types.
LEMMA CommitTypes ==
    ASSUME TypeOK, SubmitSignature
    PROVE  TypeOK'
<1> USE GroupConstants
<1>1. ops \in Seq(Ops) /\ ops # <<>> /\ ops[1] \in Ops
  BY DEF TypeOK, SubmitSignature, Signable
<1>2. Tail(ops) \in Seq(Ops) /\ Len(Tail(ops)) <= MaxPendingOps
  <2>1. Len(ops) <= MaxPendingOps BY DEF TypeOK
  <2> QED BY <1>1, <2>1, TailSeq
<1>3. /\ Detached(Tail(ops), ops[1].subject) \in Seq(Ops)
      /\ Len(Detached(Tail(ops), ops[1].subject)) = Len(Tail(ops))
  <2>1. ops[1].subject \in Identities BY <1>1 DEF Ops
  <2> QED BY <1>2, <2>1, DetachedQueue, Zenon
<1>4. ops' \in Seq(Ops) /\ Len(ops') <= MaxPendingOps
  <2> HIDE DEF Detached
  <2>1. ops' \in {Tail(ops), Detached(Tail(ops), ops[1].subject), <<>>}
    BY DEF SubmitSignature, CommitRoster
  <2>2. <<>> \in Seq(Ops) /\ Len(<<>>) <= MaxPendingOps
    OBVIOUS
  <2> QED BY <1>2, <1>3, <2>1, <2>2, ZenonT(30)
<1>5. /\ members' \in [Identities -> {"none", "candidate", "active"}]
      /\ session' \in [Identities -> Sessions \cup {NoSession}]
      /\ state' \in {"none", "active", "dissolved", "purged"}
  BY <1>1 DEF SubmitSignature, CommitRoster, TypeOK, Ops
<1>6. events' \in Seq(Events)
  <2> DEFINE ev == [epoch |-> epoch + 1, kind |-> ops[1].kind, subject |-> ops[1].subject]
  <2>1. ev \in Events
    BY <1>1 DEF TypeOK, Ops, Events
  <2>2. events' = Kept(Append(events, ev))
    BY DEF SubmitSignature
  <2> HIDE DEF ev
  <2>3. Append(events, ev) \in Seq(Events)
    BY <2>1 DEF TypeOK, Events
  <2> QED BY <2>2, <2>3, KeptTail, Zenon
<1>7. epoch' \in Nat /\ pendingJoins' \subseteq Sessions /\ owed' \subseteq {"attest", "settled"}
  BY DEF SubmitSignature, TypeOK
<1> QED BY <1>4, <1>5, <1>6, <1>7 DEF TypeOK, Events

\* So does an abort of the head.
LEMMA AbortTypes ==
    ASSUME TypeOK, ops # <<>>, AbortHeadOp
    PROVE  /\ ops' \in Seq(Ops) /\ Len(ops') <= MaxPendingOps
           /\ members' \in [Identities -> {"none", "candidate", "active"}]
           /\ session' \in [Identities -> Sessions \cup {NoSession}]
<1>1. ops[1] \in Ops /\ Tail(ops) \in Seq(Ops) /\ Len(Tail(ops)) <= MaxPendingOps
  BY GroupConstants DEF TypeOK
<1> QED BY <1>1, Zenon DEF AbortHeadOp, TypeOK, Ops

\* Every step keeps the types.
LEMMA TypeStep ==
    ASSUME TypeOK, [Next]_groupVars
    PROVE  TypeOK'
<1> USE GroupConstants
<1>1. ASSUME NEW s \in Sessions, CreateGroup(s) PROVE TypeOK'
  BY <1>1 DEF CreateGroup, TypeOK
<1>2. ASSUME NEW s \in Sessions, BeginJoinRedemption(s) PROVE TypeOK'
  BY <1>2 DEF BeginJoinRedemption, TypeOK
<1>3. ASSUME NEW s \in Sessions, AttestMember(s) PROVE TypeOK'
  BY <1>3 DEF AttestMember, TypeOK
<1>4. ASSUME NEW s \in Sessions, AttestCandidate(s) PROVE TypeOK'
  <2>1. /\ Detached(ops, IdentityOf[s]) \in Seq(Ops)
        /\ Len(Detached(ops, IdentityOf[s])) = Len(ops)
    BY DetachedQueue DEF TypeOK
  <2>2. NewOp("join", IdentityOf[s], Owner) \in Ops
    BY DEF NewOp, Ops, Kinds
  <2>3. ops' \in Seq(Ops) /\ Len(ops') <= MaxPendingOps
    BY <1>4, <2>1, <2>2 DEF AttestCandidate, TypeOK
  <2> QED BY <1>4, <2>3 DEF AttestCandidate, BecomeCandidate, TypeOK
<1>5. ASSUME NEW s \in Sessions, AttestRefused(s) PROVE TypeOK'
  <2>1. /\ Detached(ops, IdentityOf[s]) \in Seq(Ops)
        /\ Len(Detached(ops, IdentityOf[s])) = Len(ops)
    BY DetachedQueue DEF TypeOK
  <2> QED BY <1>5, <2>1 DEF AttestRefused, BecomeCandidate, TypeOK
<1>6. ASSUME NEW s \in Sessions, JoinTimeout(s) PROVE TypeOK'
  BY <1>6 DEF JoinTimeout, TypeOK
<1>7. ASSUME NEW s \in Sessions, DisbindSession(s) PROVE TypeOK'
  BY <1>7 DEF DisbindSession, TypeOK
<1>8. ASSUME NEW i \in Identities, NEW kind \in Kinds, NEW subject \in Identities,
             NEW signer \in Identities, Request(i, kind, subject, signer)
      PROVE  TypeOK'
  <2> DEFINE q == IF Pending(kind, subject) THEN ops
                  ELSE Append(ops, NewOp(kind, subject, signer))
  <2>1. NewOp(kind, subject, signer) \in Ops
    BY DEF NewOp, Ops
  <2>2. q \in Seq(Ops) /\ Len(q) <= MaxPendingOps
    BY <1>8, <2>1 DEF Request, TypeOK
  <2>3. ops' = Offered(q)
    BY <1>8 DEF Request
  <2> HIDE DEF q
  <2>4. ops' \in Seq(Ops) /\ Len(ops') <= MaxPendingOps
    BY <2>2, <2>3, OfferedQueue DEF TypeOK
  <2> QED BY <1>8, <2>4 DEF Request, TypeOK
<1>9. CASE DeliverSignTask
  <2>1. ops' \in Seq(Ops) /\ Len(ops') <= MaxPendingOps
    BY <1>9, OfferedQueue DEF DeliverSignTask, TypeOK
  <2> QED BY <1>9, <2>1, Zenon DEF DeliverSignTask, TypeOK
<1>10. CASE AttestedLost
  BY <1>10 DEF AttestedLost, TypeOK
<1>11. CASE SubmitSignature
  BY <1>11, CommitTypes
<1>12. CASE SubmitBadSignature
  BY <1>12, AbortTypes DEF SubmitBadSignature, Signable, TypeOK
<1>13. CASE SignTimeout
  BY <1>13, AbortTypes DEF SignTimeout, TypeOK
<1>14. CASE PurgeTombstone
  BY <1>14 DEF PurgeTombstone, TypeOK
<1>15. CASE UNCHANGED groupVars
  BY <1>15 DEF groupVars, TypeOK
<1>16. ASSUME NEW i \in Identities, RequestLeave(i) \/ RequestRemove(i) PROVE TypeOK'
  BY <1>8, <1>16 DEF RequestLeave, RequestRemove, Kinds
<1>17. CASE RequestDissolve
  BY <1>8, <1>17 DEF RequestDissolve, Kinds
<1> QED
  BY <1>1, <1>2, <1>3, <1>4, <1>5, <1>6, <1>7, <1>9, <1>10, <1>11, <1>12, <1>13,
     <1>14, <1>15, <1>16, <1>17 DEF Next

-----------------------------------------------------------------------------
(* The queue and the roster. *)

\* Before create_group there is nothing, and with it there is an epoch.
Fresh ==
    /\ state = "none" => /\ members = [i \in Identities |-> "none"]
                         /\ pendingJoins = {} /\ ops = <<>> /\ events = <<>>
    /\ state = "none" <=> epoch = 0

RosterInv == TypeOK /\ Fresh /\ OwnerStays /\ QueueConsistent /\ SignedEpochIsNext

\* What a commit does to the queue and the owner.
LEMMA CommitQueue ==
    ASSUME RosterInv, SubmitSignature
    PROVE  Queue(ops', members', epoch') /\ OwnerStays'
<1> DEFINE op == ops[1]
           rest == Tail(ops)
<1>1. /\ ops \in Seq(Ops) /\ ops # <<>> /\ Len(ops) \in Nat /\ 1 \in 1..Len(ops)
      /\ op \in Ops /\ members \in Rosters /\ epoch \in Nat
      /\ epoch' = epoch + 1 /\ state = "active"
  BY DEF SubmitSignature, Signable, RosterInv, TypeOK, Rosters, Statuses
<1>2. Queue(ops, members, epoch)
  BY <1>1, QueueMeaning DEF RosterInv
<1>3. OpConsistent(op, members)
  BY <1>1, <1>2 DEF Queue
<1>4. /\ rest \in Seq(Ops) /\ Queue(rest, members, epoch')
      /\ op.kind = "join" => NoJoin(rest, op.subject)
  BY <1>1, <1>2, QueueTail
<1>5. op.subject \in Identities
  BY <1>1 DEF Ops
<1>6. members[Owner] = "active"
  BY <1>1 DEF RosterInv, OwnerStays
<1>7. CommitRoster(op)
  BY DEF SubmitSignature
<1> HIDE DEF op, rest
<1>8. CASE op.kind = "join"
  <2>1. PICK v \in Statuses : members' = [members EXCEPT ![op.subject] = v]
                              /\ (v = "active" \/ v = members[op.subject])
    <3>1. members' = [members EXCEPT ![op.subject] =
                        IF op.current THEN "active" ELSE members[op.subject]]
      BY <1>7, <1>8 DEF CommitRoster
    <3>2. members[op.subject] \in Statuses
      BY <1>1, <1>5 DEF Rosters
    <3> QED BY <3>1, <3>2, Zenon DEF Statuses
  <2>2. ops' = rest
    BY <1>7, <1>8 DEF CommitRoster, rest
  <2>3. Queue(rest, members', epoch')
    <3>1. /\ rest \in Seq(Ops) /\ members \in Rosters /\ epoch' \in Nat
          /\ Queue(rest, members, epoch') /\ NoJoin(rest, op.subject)
      BY <1>1, <1>4, <1>8
    <3>2. Queue(rest, [members EXCEPT ![op.subject] = v], epoch')
      BY <1>5, <3>1, QueueRoster, Zenon
    <3> QED BY <2>1, <3>2
  <2> QED BY <1>1, <1>5, <1>6, <2>1, <2>2, <2>3, GroupConstants DEF OwnerStays, Rosters
<1>9. CASE op.kind \in {"left", "removed"}
  <2>1. /\ members' = [members EXCEPT ![op.subject] = "none"]
        /\ ops' = Detached(rest, op.subject)
    BY <1>7, <1>9 DEF CommitRoster, rest
  <2>2. Queue(ops', members', epoch')
    <3>1. /\ rest \in Seq(Ops) /\ members \in Rosters /\ epoch' \in Nat
          /\ Queue(rest, members, epoch') /\ "none" \in Statuses \ {"active"}
      BY <1>1, <1>4 DEF Statuses
    <3>2. Queue(Detached(rest, op.subject), [members EXCEPT ![op.subject] = "none"], epoch')
      BY <1>5, <3>1, QueueDetached, Zenon
    <3> QED BY <2>1, <3>2
  <2>3. op.subject # Owner
    BY <1>3, <1>9 DEF OpConsistent
  <2> QED BY <1>1, <1>5, <1>6, <2>1, <2>2, <2>3, GroupConstants DEF OwnerStays, Rosters
<1>10. CASE op.kind = "dissolved"
  <2>1. state' = "dissolved" /\ ops' = <<>>
    BY <1>7, <1>10 DEF CommitRoster
  <2> QED BY <2>1 DEF Queue, OwnerStays
<1> QED BY <1>7, <1>8, <1>9, <1>10 DEF CommitRoster

\* What an abort does to them.
LEMMA AbortQueue ==
    ASSUME RosterInv, state = "active", ops # <<>>, AbortHeadOp, UNCHANGED <<state, epoch>>
    PROVE  Queue(ops', members', epoch') /\ OwnerStays'
<1> DEFINE op == ops[1]
           rest == Tail(ops)
<1>1. /\ ops \in Seq(Ops) /\ Len(ops) \in Nat /\ 1 \in 1..Len(ops)
      /\ op \in Ops /\ members \in Rosters /\ epoch \in Nat
  BY DEF RosterInv, TypeOK, Rosters, Statuses
<1>2. Queue(ops, members, epoch)
  BY <1>1, QueueMeaning DEF RosterInv
<1>3. OpConsistent(op, members)
  BY <1>1, <1>2 DEF Queue
<1>4. /\ rest \in Seq(Ops) /\ Queue(rest, members, epoch')
      /\ op.kind = "join" => NoJoin(rest, op.subject)
  BY <1>1, <1>2, QueueTail
<1>5. op.subject \in Identities /\ ops' = rest
  BY <1>1 DEF Ops, AbortHeadOp
<1>6. members[Owner] = "active"
  BY DEF RosterInv, OwnerStays
<1>7. CASE op.kind = "join"
  <2>1. members' = [members EXCEPT ![op.subject] = "none"]
    BY <1>7 DEF AbortHeadOp
  <2>2. op.subject # Owner
    BY <1>3, <1>6, <1>7 DEF OpConsistent
  <2> HIDE DEF op, rest
  <2>3. Queue(rest, members', epoch')
    BY <1>1, <1>4, <1>5, <1>7, <2>1, QueueRoster, ZenonT(30) DEF Statuses
  <2> QED BY <1>1, <1>5, <1>6, <2>1, <2>2, <2>3, GroupConstants DEF OwnerStays, Rosters
<1>8. CASE op.kind # "join"
  <2>1. members' = members
    BY <1>8 DEF AbortHeadOp
  <2> HIDE DEF op, rest
  <2> QED BY <1>4, <1>5, <1>6, <2>1 DEF OwnerStays
<1> QED BY <1>7, <1>8

\* A candidate that is written keeps the owner, and the queue once what the
\* queue holds for it is detached.
LEMMA CandidateQueue ==
    ASSUME RosterInv, NEW s \in Sessions, BecomeCandidate(s)
    PROVE  /\ Queue(Detached(ops, IdentityOf[s]), members', epoch)
           /\ NoJoin(ops, IdentityOf[s]) => Queue(ops, members', epoch)
           /\ members'[Owner] = "active"
           /\ members'[IdentityOf[s]] = "candidate"
           /\ IdentityOf[s] \in Identities
<1>1. /\ ops \in Seq(Ops) /\ members \in Rosters /\ epoch \in Nat
      /\ IdentityOf[s] \in Identities
  BY GroupConstants DEF RosterInv, TypeOK, Rosters, Statuses
<1>2. Queue(ops, members, epoch)
  BY <1>1, QueueMeaning DEF RosterInv
<1>3. /\ members' = [members EXCEPT ![IdentityOf[s]] = "candidate"]
      /\ members[Owner] = "active" /\ IdentityOf[s] # Owner
  BY DEF BecomeCandidate, RosterInv, OwnerStays
<1>4. Queue(Detached(ops, IdentityOf[s]), members', epoch)
  BY <1>1, <1>2, <1>3, QueueDetached, Zenon DEF Statuses
<1>5. NoJoin(ops, IdentityOf[s]) => Queue(ops, members', epoch)
  BY <1>1, <1>2, <1>3, QueueRoster, ZenonT(30) DEF Statuses
<1> QED BY <1>1, <1>3, <1>4, <1>5, GroupConstants DEF Rosters

\* Every step keeps the queue, the roster and the owner in agreement.
LEMMA RosterStep ==
    ASSUME RosterInv, [Next]_groupVars
    PROVE  RosterInv'
<1> USE GroupConstants
<1>0. /\ ops \in Seq(Ops) /\ members \in Rosters /\ epoch \in Nat
      /\ Queue(ops, members, epoch)
  BY QueueMeaning DEF RosterInv, TypeOK, Rosters, Statuses
<1>13. TypeOK'
  BY TypeStep DEF RosterInv
<1>14. Queue(ops', members', epoch') => QueueConsistent' /\ SignedEpochIsNext'
  <2>1. ops' \in Seq(Ops) /\ DOMAIN ops' = 1..Len(ops')
    BY <1>13 DEF TypeOK
  <2> QED BY <2>1 DEF Queue, QueueConsistent, SignedEpochIsNext
<1> SUFFICES Queue(ops', members', epoch') /\ OwnerStays' /\ Fresh'
  BY <1>13, <1>14 DEF RosterInv
<1>1. ASSUME NEW s \in Sessions, CreateGroup(s)
      PROVE  Queue(ops', members', epoch') /\ OwnerStays' /\ Fresh'
  <2>1. ops' = <<>>
    BY <1>1 DEF CreateGroup, RosterInv, Fresh
  <2>2. Queue(ops', members', epoch')
    BY <2>1 DEF Queue
  <2> QED BY <1>0, <1>1, <2>2 DEF CreateGroup, OwnerStays, Fresh, Rosters
<1>2. ASSUME NEW s \in Sessions,
             BeginJoinRedemption(s) \/ AttestMember(s) \/ JoinTimeout(s) \/ DisbindSession(s)
      PROVE  Queue(ops', members', epoch') /\ OwnerStays' /\ Fresh'
  <2>1. UNCHANGED <<state, members, ops, epoch>> /\ state = "active"
    BY <1>2 DEF BeginJoinRedemption, AttestMember, JoinTimeout, DisbindSession
  <2> QED BY <1>0, <2>1 DEF RosterInv, OwnerStays, Fresh
<1>3. ASSUME NEW s \in Sessions, AttestCandidate(s)
      PROVE  Queue(ops', members', epoch') /\ OwnerStays' /\ Fresh'
  <2> DEFINE i == IdentityOf[s]
             new == NewOp("join", i, Owner)
  <2>1. BecomeCandidate(s) /\ UNCHANGED <<state, epoch>> /\ state = "active"
    BY <1>3 DEF AttestCandidate, BecomeCandidate
  <2>2. /\ Queue(Detached(ops, i), members', epoch)
        /\ NoJoin(ops, i) => Queue(ops, members', epoch)
        /\ members'[Owner] = "active" /\ members'[i] = "candidate" /\ i \in Identities
    BY <2>1, CandidateQueue
  <2>3. members' \in Rosters
    BY <1>0, <2>1 DEF BecomeCandidate, Rosters, Statuses
  <2>4. CASE Pending("join", i)
    <3>1. ops' = Detached(ops, i)
      BY <1>3, <2>4 DEF AttestCandidate
    <3> QED BY <2>1, <2>2, <3>1 DEF OwnerStays, Fresh, RosterInv
  <2>5. CASE ~ Pending("join", i)
    <3>1. ops' = Append(ops, new)
      BY <1>3, <2>5 DEF AttestCandidate
    <3>2. NoJoin(ops, i)
      BY <1>0, <2>5 DEF NoJoin, Pending
    <3>3. /\ new \in Ops /\ new.epoch = 0 /\ new.subject = i /\ new.kind = "join"
      BY <2>2 DEF NewOp, Ops, Kinds
    <3>4. OpConsistent(new, members')
      BY <2>2 DEF OpConsistent, NewOp
    <3> HIDE DEF new, i
    <3>5. Queue(ops, members', epoch)
      BY <2>2, <3>2
    <3>6. Queue(Append(ops, new), members', epoch)
      BY <1>0, <2>3, <3>2, <3>3, <3>4, <3>5, QueueAppend, ZenonT(30)
    <3> QED BY <2>1, <2>2, <3>1, <3>6 DEF OwnerStays, Fresh, RosterInv
  <2> QED BY <2>4, <2>5
<1>4. ASSUME NEW s \in Sessions, AttestRefused(s)
      PROVE  Queue(ops', members', epoch') /\ OwnerStays' /\ Fresh'
  <2>1. /\ BecomeCandidate(s) /\ UNCHANGED <<state, epoch>> /\ state = "active"
        /\ ops' = Detached(ops, IdentityOf[s])
    BY <1>4 DEF AttestRefused, BecomeCandidate
  <2>2. Queue(Detached(ops, IdentityOf[s]), members', epoch) /\ members'[Owner] = "active"
    BY <2>1, CandidateQueue
  <2> QED BY <2>1, <2>2 DEF OwnerStays, Fresh, RosterInv
<1>5. ASSUME NEW i \in Identities, NEW kind \in Kinds \ {"join"}, NEW subject \in Identities,
             NEW signer \in Identities, Request(i, kind, subject, signer),
             kind \in {"left", "removed"} => subject # Owner
      PROVE  Queue(ops', members', epoch') /\ OwnerStays' /\ Fresh'
  <2> DEFINE new == NewOp(kind, subject, signer)
             q == IF Pending(kind, subject) THEN ops ELSE Append(ops, new)
  <2>1. /\ new \in Ops /\ new.epoch = 0 /\ new.kind # "join"
        /\ OpConsistent(new, members)
    BY <1>5 DEF NewOp, Ops, OpConsistent
  <2>2. Append(ops, new) \in Seq(Ops) /\ Queue(Append(ops, new), members, epoch)
    <3> HIDE DEF new
    <3> QED BY <1>0, <2>1, QueueAppend
  <2>3. q \in Seq(Ops) /\ Queue(q, members, epoch)
    <3> HIDE DEF new
    <3> QED BY <1>0, <2>2
  <2>4. /\ ops' = Offered(q) /\ UNCHANGED <<state, members, epoch, pendingJoins, events>>
        /\ state = "active"
    BY <1>5 DEF Request
  <2> HIDE DEF q
  <2>5. Queue(Offered(q), members, epoch)
    BY <1>0, <2>3, QueueOffered
  <2> QED BY <2>4, <2>5 DEF RosterInv, OwnerStays, Fresh
<1>6. CASE DeliverSignTask
  <2>1. ops' = Offered(ops) /\ UNCHANGED <<state, members, epoch, pendingJoins, events>>
    BY <1>6 DEF DeliverSignTask
  <2>2. Queue(Offered(ops), members, epoch)
    BY <1>0, QueueOffered
  <2>3. state = "none" => ops' = <<>>
    BY <2>1 DEF RosterInv, Fresh, Offered
  <2> QED BY <2>1, <2>2, <2>3 DEF RosterInv, OwnerStays, Fresh
<1>7. CASE AttestedLost \/ UNCHANGED groupVars
  <2>1. UNCHANGED <<state, members, ops, epoch, pendingJoins, events>>
    BY <1>7 DEF AttestedLost, groupVars
  <2> QED BY <1>0, <2>1 DEF RosterInv, OwnerStays, Fresh
<1>8. CASE SubmitSignature
  <2>1. Queue(ops', members', epoch') /\ OwnerStays'
    BY <1>8, CommitQueue
  <2>2. state' # "none" /\ epoch' # 0
    <3>1. state = "active" /\ epoch' = epoch + 1 /\ state' \in {state, "dissolved"}
      BY <1>8 DEF SubmitSignature, Signable, CommitRoster
    <3>2. epoch \in Nat BY <1>0
    <3> QED BY <3>1, <3>2
  <2> QED BY <2>1, <2>2 DEF Fresh
<1>9. CASE SubmitBadSignature \/ SignTimeout
  <2>1. /\ state = "active" /\ ops # <<>> /\ AbortHeadOp /\ UNCHANGED <<state, epoch>>
    BY <1>9 DEF SubmitBadSignature, Signable, SignTimeout
  <2>2. Queue(ops', members', epoch') /\ OwnerStays'
    BY <2>1, AbortQueue
  <2> QED BY <2>1, <2>2, ZenonT(30) DEF Fresh, RosterInv
<1>10. CASE PurgeTombstone
  BY <1>0, <1>10 DEF PurgeTombstone, RosterInv, OwnerStays, Fresh
<1>11. ASSUME NEW i \in Identities, RequestLeave(i) \/ RequestRemove(i)
       PROVE  Queue(ops', members', epoch') /\ OwnerStays' /\ Fresh'
  BY <1>5, <1>11 DEF RequestLeave, RequestRemove, Kinds
<1>12. CASE RequestDissolve
  BY <1>5, <1>12 DEF RequestDissolve, Kinds
<1> QED
  BY <1>1, <1>2, <1>3, <1>4, <1>6, <1>7, <1>8, <1>9, <1>10, <1>11, <1>12 DEF Next

-----------------------------------------------------------------------------
(* The capacity. *)

On(m) == {i \in Identities : m[i] # "none"}
Slots(m, p) == Cardinality(On(m)) + Cardinality(p)

\* Members and candidates together are whoever is on the roster.
LEMMA CountOn ==
    ASSUME NEW m \in Rosters, NEW p \in SUBSET Sessions
    PROVE  /\ IsFiniteSet(On(m)) /\ Cardinality(On(m)) \in Nat
           /\ IsFiniteSet(p) /\ Cardinality(p) \in Nat
           /\ Cardinality({i \in Identities : m[i] = "active"})
                + Cardinality({i \in Identities : m[i] = "candidate"})
                + Cardinality(p) = Slots(m, p)
<1> DEFINE A == {i \in Identities : m[i] = "active"}
           C == {i \in Identities : m[i] = "candidate"}
<1>1. /\ A \subseteq Identities /\ C \subseteq Identities
      /\ On(m) = A \cup C /\ A \cap C = {} /\ On(m) \subseteq Identities
  BY DEF On, Rosters, Statuses
<1> HIDE DEF A, C
<1>2. IsFiniteSet(A) /\ IsFiniteSet(C) /\ IsFiniteSet(On(m)) /\ IsFiniteSet(p)
  BY <1>1, FS_Subset, GroupConstants
<1>3. /\ Cardinality(A) \in Nat /\ Cardinality(C) \in Nat
      /\ Cardinality(On(m)) \in Nat /\ Cardinality(p) \in Nat
  BY <1>2, FS_CardinalityType
<1>4. Cardinality(A \cup C) = Cardinality(A) + Cardinality(C) - Cardinality(A \cap C)
  BY <1>2, FS_Union
<1>5. Cardinality(A \cap C) = 0
  BY <1>1, FS_EmptySet
<1>6. Cardinality(A) + Cardinality(C) + Cardinality(p) = Slots(m, p)
  BY <1>1, <1>3, <1>4, <1>5 DEF Slots
<1> QED BY <1>2, <1>3, <1>6 DEF A, C

\* The slots in use before and after a step.
LEMMA ReservedSlots ==
    ASSUME TypeOK, TypeOK'
    PROVE  /\ Reserved = Slots(members, pendingJoins)
           /\ Reserved' = Slots(members', pendingJoins')
           /\ members \in Rosters /\ members' \in Rosters
           /\ pendingJoins \subseteq Sessions /\ pendingJoins' \subseteq Sessions
<1>1. /\ members \in Rosters /\ members' \in Rosters
      /\ pendingJoins \in SUBSET Sessions /\ pendingJoins' \in SUBSET Sessions
  BY DEF TypeOK, Rosters, Statuses
<1> QED BY <1>1, CountOn DEF Reserved, Active, Candidates

\* Nobody comes onto the roster and no join becomes pending: no more slots.
LEMMA SlotsShrink ==
    ASSUME NEW m \in Rosters, NEW n \in Rosters, NEW p \in SUBSET Sessions,
           NEW r \in SUBSET p, On(n) \subseteq On(m)
    PROVE  Slots(n, r) <= Slots(m, p)
<1>1. r \in SUBSET Sessions
  OBVIOUS
<1>2. IsFiniteSet(On(m)) /\ IsFiniteSet(p)
  BY CountOn, Zenon
<1>3. Cardinality(On(n)) <= Cardinality(On(m)) /\ Cardinality(r) <= Cardinality(p)
  BY <1>2, FS_Subset
<1>4. /\ Cardinality(On(n)) \in Nat /\ Cardinality(On(m)) \in Nat
      /\ Cardinality(r) \in Nat /\ Cardinality(p) \in Nat
  BY <1>1, CountOn, Zenon
<1> QED BY <1>3, <1>4 DEF Slots

\* A candidate uses the slot of its pending join.
LEMMA SlotsCandidate ==
    ASSUME NEW m \in Rosters, NEW i \in Identities, NEW p \in SUBSET Sessions, NEW s \in p
    PROVE  Slots([m EXCEPT ![i] = "candidate"], p \ {s}) <= Slots(m, p)
<1> DEFINE n == [m EXCEPT ![i] = "candidate"]
<1>1. On(n) = On(m) \cup {i} /\ n \in Rosters
  BY DEF On, Rosters, Statuses
<1> HIDE DEF n
<1>2. /\ IsFiniteSet(On(m)) /\ IsFiniteSet(p)
      /\ Cardinality(On(m)) \in Nat /\ Cardinality(p) \in Nat
  BY CountOn, Zenon
<1>3. Cardinality(On(m) \cup {i}) <= Cardinality(On(m)) + 1
  <2> DEFINE c == Cardinality(On(m))
  <2>1. Cardinality(On(m) \cup {i}) = IF i \in On(m) THEN c ELSE c + 1
    BY <1>2, FS_AddElement, Zenon
  <2>2. c \in Nat
    BY <1>2
  <2> HIDE DEF c
  <2>3. Cardinality(On(m) \cup {i}) <= c + 1
    BY <2>1, <2>2
  <2> QED BY <2>3 DEF c
<1>4. Cardinality(p \ {s}) = Cardinality(p) - 1
  BY <1>2, FS_RemoveElement, Zenon
<1>5. Cardinality(On(m) \cup {i}) \in Nat
  BY <1>1, CountOn, Zenon
<1>6. Slots(n, p \ {s}) <= Slots(m, p)
  BY <1>1, <1>2, <1>3, <1>4, <1>5 DEF Slots
<1> QED BY <1>6 DEF n

\* Every step respects the capacity.
LEMMA CapacityStep ==
    ASSUME RosterInv, RosterInv', CapacityRespected, [Next]_groupVars
    PROVE  CapacityRespected'
<1> USE GroupConstants
<1>1. /\ Reserved = Slots(members, pendingJoins)
      /\ Reserved' = Slots(members', pendingJoins')
      /\ members \in Rosters /\ members' \in Rosters
      /\ pendingJoins \subseteq Sessions /\ pendingJoins' \subseteq Sessions
      /\ ops \in Seq(Ops)
  BY ReservedSlots DEF RosterInv, TypeOK
<1>2. /\ Slots(members, pendingJoins) \in Nat /\ Slots(members', pendingJoins') \in Nat
      /\ Slots(members, pendingJoins) <= MaxGroupMembers
  <2>1. /\ Cardinality(On(members)) \in Nat /\ Cardinality(pendingJoins) \in Nat
        /\ Cardinality(On(members')) \in Nat /\ Cardinality(pendingJoins') \in Nat
    BY <1>1, CountOn, Zenon
  <2>2. Slots(members, pendingJoins) <= MaxGroupMembers
    BY <1>1 DEF CapacityRespected
  <2> QED BY <2>1, <2>2 DEF Slots
<1> SUFFICES Slots(members', pendingJoins') <= MaxGroupMembers
  BY <1>1 DEF CapacityRespected
<1>3. ASSUME NEW s \in Sessions, CreateGroup(s)
      PROVE  Slots(members', pendingJoins') <= MaxGroupMembers
  <2>1. On(members') = {Owner} /\ pendingJoins' = {}
    BY <1>3 DEF CreateGroup, RosterInv, Fresh, On
  <2>2. Cardinality(On(members')) = 1 /\ Cardinality(pendingJoins') = 0
    BY <2>1, FS_Singleton, FS_EmptySet, Zenon
  <2> QED BY <2>2 DEF Slots
<1>4. ASSUME NEW s \in Sessions, BeginJoinRedemption(s)
      PROVE  Slots(members', pendingJoins') <= MaxGroupMembers
  <2>1. members' = members /\ pendingJoins' = pendingJoins \cup {s} /\ s \notin pendingJoins
    BY <1>4 DEF BeginJoinRedemption
  <2>2. /\ IsFiniteSet(pendingJoins) /\ Cardinality(pendingJoins) \in Nat
        /\ Cardinality(On(members)) \in Nat
    BY <1>1, CountOn, Zenon
  <2>3. Cardinality(pendingJoins') = Cardinality(pendingJoins) + 1
    BY <2>1, <2>2, FS_AddElement, ZenonT(30)
  <2>4. Slots(members, pendingJoins) < MaxGroupMembers
    BY <1>1, <1>4 DEF BeginJoinRedemption
  <2> QED BY <2>1, <2>2, <2>3, <2>4 DEF Slots
<1>5. ASSUME NEW s \in Sessions, BecomeCandidate(s)
      PROVE  Slots(members', pendingJoins') <= MaxGroupMembers
  <2>1. /\ members' = [members EXCEPT ![IdentityOf[s]] = "candidate"]
        /\ pendingJoins' = pendingJoins \ {s} /\ s \in pendingJoins
        /\ IdentityOf[s] \in Identities
    BY <1>5 DEF BecomeCandidate
  <2>2. Slots(members', pendingJoins') <= Slots(members, pendingJoins)
    BY <1>1, <2>1, SlotsCandidate, Zenon
  <2> QED BY <1>2, <2>2
<1>6. ASSUME On(members') \subseteq On(members), pendingJoins' \subseteq pendingJoins
      PROVE  Slots(members', pendingJoins') <= MaxGroupMembers
  <2>1. Slots(members', pendingJoins') <= Slots(members, pendingJoins)
    BY <1>1, <1>6, SlotsShrink
  <2> QED BY <1>2, <2>1
<1>7. CASE SubmitSignature
  <2>1. /\ ops # <<>> /\ ops[1] \in Ops /\ 1 \in DOMAIN ops
        /\ CommitRoster(ops[1]) /\ pendingJoins' = pendingJoins
    BY <1>1, <1>7 DEF SubmitSignature, Signable
  <2>2. OpConsistent(ops[1], members)
    BY <2>1, ZenonT(30) DEF RosterInv, QueueConsistent
  <2>3. On(members') \subseteq On(members)
    BY <1>1, <2>1, <2>2 DEF CommitRoster, OpConsistent, On, Rosters, Statuses, Ops
  <2> QED BY <1>6, <2>1, <2>3
<1>8. CASE SubmitBadSignature \/ SignTimeout
  <2>1. /\ ops # <<>> /\ ops[1] \in Ops
        /\ AbortHeadOp /\ pendingJoins' = pendingJoins
    BY <1>1, <1>8 DEF SubmitBadSignature, Signable, SignTimeout
  <2>2. On(members') \subseteq On(members)
    BY <1>1, <2>1 DEF AbortHeadOp, On, Rosters, Ops
  <2> QED BY <1>6, <2>1, <2>2, ZenonT(30)
<1>9. ASSUME members' = members, pendingJoins' \subseteq pendingJoins
      PROVE  Slots(members', pendingJoins') <= MaxGroupMembers
  BY <1>6, <1>9, Zenon
<1>10. ASSUME NEW s \in Sessions, AttestMember(s) \/ JoinTimeout(s) \/ DisbindSession(s)
       PROVE  Slots(members', pendingJoins') <= MaxGroupMembers
  BY <1>9, <1>10, Zenon DEF AttestMember, JoinTimeout, DisbindSession
<1>11. ASSUME NEW i \in Identities, RequestLeave(i) \/ RequestRemove(i)
       PROVE  Slots(members', pendingJoins') <= MaxGroupMembers
  BY <1>9, <1>11, ZenonT(30) DEF RequestLeave, RequestRemove, Request
<1>12. CASE \/ RequestDissolve \/ DeliverSignTask \/ AttestedLost \/ PurgeTombstone
            \/ UNCHANGED groupVars
  BY <1>9, <1>12 DEF RequestDissolve, Request, DeliverSignTask, AttestedLost,
                     PurgeTombstone, groupVars
<1> QED
  BY <1>3, <1>4, <1>5, <1>7, <1>8, <1>10, <1>11, <1>12, ZenonT(30)
  DEF Next, AttestCandidate, AttestRefused

-----------------------------------------------------------------------------
(* The event log. *)

\* Two sums the log needs.
LEMMA SuccSum ==
    \A x, n, e, k \in Nat : x + n = e + k => x + (n + 1) = e + 1 + k
OBVIOUS

\* Dropping the oldest events moves the start of the log by as many.
LEMMA ShiftSum ==
    \A x, n, e, k, h, l \in Nat : x + n = e + 1 + h /\ h = k + n - l => x + l = e + 1 + k
OBVIOUS

\* Every step keeps the log the gapless end of the epochs.
LEMMA EventsStep ==
    ASSUME RosterInv, RosterInv', EventsAreTail, [Next]_groupVars
    PROVE  EventsAreTail'
<1> USE GroupConstants
<1>1. events \in Seq(Events) /\ epoch \in Nat /\ DOMAIN events = 1..Len(events)
  BY DEF RosterInv, TypeOK, Events
<1>2. CASE SubmitSignature
  <2> DEFINE ev == [epoch |-> epoch + 1, kind |-> ops[1].kind, subject |-> ops[1].subject]
             log == Append(events, ev)
  <2>1. events' = Kept(log) /\ epoch' = epoch + 1
    BY <1>2, ZenonT(30) DEF SubmitSignature
  <2>2. ev \in Events /\ ev.epoch = epoch + 1
    <3>1. ops \in Seq(Ops) /\ ops # <<>>
      BY <1>2 DEF SubmitSignature, Signable, RosterInv, TypeOK
    <3>2. ops[1] \in Ops
      BY <3>1
    <3> QED BY <1>1, <3>2 DEF Events, Ops
  <2> HIDE DEF ev
  <2>3. /\ log \in Seq(Events) /\ Len(events) \in Nat /\ Len(log) = Len(events) + 1
        /\ \A k \in 1..Len(log) : log[k] = IF k = Len(events) + 1 THEN ev ELSE events[k]
    BY <1>1, <2>2
  <2> HIDE DEF log
  <2>4. \A k \in 1..Len(events) : events[k].epoch \in Nat
    <3>1. \A k \in 1..Len(events) : events[k] \in Events
      BY <1>1
    <3> QED BY <3>1 DEF Events
  <2>5. \A k \in 1..Len(log) : log[k].epoch \in Nat /\ log[k].epoch + Len(log) = epoch + 1 + k
    <3> SUFFICES ASSUME NEW k \in 1..Len(log)
                 PROVE  log[k].epoch \in Nat /\ log[k].epoch + Len(log) = epoch + 1 + k
      OBVIOUS
    <3>1. CASE k = Len(events) + 1
      BY <1>1, <2>2, <2>3, <3>1
    <3>2. CASE k # Len(events) + 1
      <4>1. k \in 1..Len(events) /\ log[k] = events[k]
        BY <2>3, <3>2
      <4>2. events[k].epoch + Len(events) = epoch + k /\ events[k].epoch \in Nat
        BY <1>1, <2>4, <4>1, Zenon DEF EventsAreTail
      <4>3. Len(log) = Len(events) + 1 /\ Len(events) \in Nat /\ log[k].epoch = events[k].epoch
        BY <2>3, <4>1, Zenon
      <4> QED BY <1>1, <4>1, <4>2, <4>3, SuccSum
    <3> QED BY <3>1, <3>2, ZenonT(30)
  <2>6. /\ events' \in Seq(Events) /\ Len(events') \in Nat /\ Len(events') <= Len(log)
        /\ DOMAIN events' = 1..Len(events')
        /\ \A k \in 1..Len(events') : events'[k] = log[k + Len(log) - Len(events')]
    <3>1. /\ Kept(log) \in Seq(Events) /\ Len(Kept(log)) <= Len(log)
          /\ \A k \in 1..Len(Kept(log)) : Kept(log)[k] = log[k + Len(log) - Len(Kept(log))]
      BY <2>3, KeptTail
    <3>2. Len(Kept(log)) \in Nat /\ DOMAIN Kept(log) = 1..Len(Kept(log))
      BY <3>1
    <3> QED BY <2>1, <3>1, <3>2
  <2>7. \A k \in 1..Len(events') : events'[k].epoch + Len(events') = epoch' + k
    <3> SUFFICES ASSUME NEW k \in 1..Len(events')
                 PROVE  events'[k].epoch + Len(events') = epoch' + k
      OBVIOUS
    <3> DEFINE h == k + Len(log) - Len(events')
    <3>1. h \in 1..Len(log) /\ events'[k] = log[h] /\ Len(log) \in Nat
      BY <2>3, <2>6
    <3>2. log[h].epoch \in Nat /\ log[h].epoch + Len(log) = epoch + 1 + h
      <4> HIDE DEF h
      <4> QED BY <2>5, <3>1
    <3>3. h = k + Len(log) - Len(events')
      OBVIOUS
    <3> HIDE DEF h
    <3>4. k \in Nat /\ Len(events') \in Nat /\ h \in Nat /\ epoch' = epoch + 1
      BY <2>1, <2>6, <3>1
    <3>5. log[h].epoch + Len(events') = epoch + 1 + k
      <4> DEFINE x == log[h].epoch
                 n == Len(log)
                 l == Len(events')
      <4>1. x \in Nat /\ n \in Nat /\ l \in Nat /\ x + n = epoch + 1 + h /\ h = k + n - l
        BY <3>1, <3>2, <3>3, <3>4, ZenonT(30)
      <4> HIDE DEF x, n, l
      <4>2. x + l = epoch + 1 + k
        BY <1>1, <3>4, <4>1, ShiftSum
      <4> QED BY <4>2 DEF x, n, l
    <3> QED BY <3>1, <3>4, <3>5
  <2> QED BY <2>6, <2>7, Zenon DEF EventsAreTail
<1>3. ASSUME NEW s \in Sessions, CreateGroup(s) PROVE EventsAreTail'
  BY <1>3 DEF CreateGroup, RosterInv, Fresh, EventsAreTail
<1>4. ASSUME UNCHANGED <<events, epoch>> PROVE EventsAreTail'
  BY <1>4, Zenon DEF EventsAreTail
<1>5. ASSUME NEW s \in Sessions,
             \/ BeginJoinRedemption(s) \/ AttestMember(s) \/ AttestCandidate(s)
             \/ AttestRefused(s) \/ JoinTimeout(s) \/ DisbindSession(s)
      PROVE  EventsAreTail'
  BY <1>4, <1>5, Zenon DEF BeginJoinRedemption, AttestMember, AttestCandidate, AttestRefused,
                    JoinTimeout, DisbindSession
<1>6. ASSUME NEW i \in Identities, RequestLeave(i) \/ RequestRemove(i) PROVE EventsAreTail'
  BY <1>4, <1>6, Zenon DEF RequestLeave, RequestRemove, Request
<1>7. CASE \/ RequestDissolve \/ DeliverSignTask \/ AttestedLost \/ SubmitBadSignature
           \/ SignTimeout \/ PurgeTombstone \/ UNCHANGED groupVars
  BY <1>4, <1>7, Zenon DEF RequestDissolve, Request, DeliverSignTask, AttestedLost,
                    SubmitBadSignature, SignTimeout, PurgeTombstone, groupVars
<1> QED BY <1>2, <1>3, <1>5, <1>6, <1>7, ZenonT(30) DEF Next

-----------------------------------------------------------------------------
(* The roster. *)

\* A step that changes the roster is a commit, and changes it by one member.
LEMMA RosterMovesStep ==
    ASSUME RosterInv, [Next]_groupVars
    PROVE  RosterMoves
<1> USE GroupConstants
<1>1. /\ members \in Rosters /\ ops \in Seq(Ops) /\ DOMAIN ops = 1..Len(ops)
  BY DEF RosterInv, TypeOK, Rosters, Statuses
<1>2. ASSUME NEW s \in Sessions, CreateGroup(s) PROVE RosterMoves
  BY <1>2 DEF CreateGroup, RosterInv, Fresh, RosterMoves
<1>3. ASSUME Active' = Active PROVE RosterMoves
  BY <1>3 DEF RosterMoves
<1>4. ASSUME NEW s \in Sessions, BecomeCandidate(s) PROVE RosterMoves
  <2>1. /\ IdentityOf[s] \in Identities /\ members[IdentityOf[s]] # "active"
        /\ members' = [members EXCEPT ![IdentityOf[s]] = "candidate"]
    BY <1>4 DEF BecomeCandidate
  <2>2. Active' = Active
    BY <1>1, <2>1 DEF Active, Rosters
  <2> QED BY <1>3, <2>2
<1>5. CASE SubmitSignature
  <2>1. /\ ops[1] \in Ops /\ CommitRoster(ops[1]) /\ epoch' = epoch + 1
    BY <1>1, <1>5 DEF SubmitSignature, Signable
  <2>2. ops[1].subject \in Identities
    BY <2>1, Zenon DEF Ops
  <2>3. \/ Active' = Active
        \/ Active' = Active \cup {ops[1].subject}
        \/ Active' = Active \ {ops[1].subject}
    <3>1. \/ \E v \in {"active", "none"} : members' = [members EXCEPT ![ops[1].subject] = v]
          \/ members' = members
      BY <1>1, <2>1, <2>2 DEF CommitRoster, Rosters
    <3> QED BY <1>1, <2>2, <3>1, ZenonT(30) DEF Active, Rosters
  <2> QED BY <2>1, <2>2, <2>3 DEF RosterMoves
<1>6. CASE SubmitBadSignature \/ SignTimeout
  <2>1. AbortHeadOp /\ ops[1] \in Ops /\ 1 \in 1..Len(ops)
    <3>1. AbortHeadOp /\ ops # <<>>
      BY <1>6, ZenonT(30) DEF SubmitBadSignature, Signable, SignTimeout
    <3> QED BY <1>1, <3>1
  <2>2. ops[1].kind = "join" => members[ops[1].subject] # "active"
    BY <1>1, <2>1 DEF RosterInv, QueueConsistent, OpConsistent
  <2>3. Active' = Active
    BY <1>1, <2>1, <2>2 DEF AbortHeadOp, Active, Rosters, Ops
  <2> QED BY <1>3, <2>3
<1>7. ASSUME members' = members PROVE RosterMoves
  BY <1>3, <1>7, Zenon DEF Active
<1>8. ASSUME NEW s \in Sessions,
             BeginJoinRedemption(s) \/ AttestMember(s) \/ JoinTimeout(s) \/ DisbindSession(s)
      PROVE  RosterMoves
  BY <1>7, <1>8, Zenon DEF BeginJoinRedemption, AttestMember, JoinTimeout, DisbindSession
<1>9. ASSUME NEW i \in Identities, RequestLeave(i) \/ RequestRemove(i) PROVE RosterMoves
  BY <1>7, <1>9, ZenonT(30) DEF RequestLeave, RequestRemove, Request
<1>10. CASE \/ RequestDissolve \/ DeliverSignTask \/ AttestedLost \/ PurgeTombstone
            \/ UNCHANGED groupVars
  BY <1>7, <1>10 DEF RequestDissolve, Request, DeliverSignTask, AttestedLost,
                     PurgeTombstone, groupVars
<1> QED
  BY <1>2, <1>4, <1>5, <1>6, <1>8, <1>9, <1>10, ZenonT(30) DEF Next, AttestCandidate, AttestRefused

-----------------------------------------------------------------------------
(* The theorems. *)

GroupInv == RosterInv /\ CapacityRespected /\ EventsAreTail

\* The inductive invariant: the types, the queue's agreement with the roster,
\* the capacity and the event log, over every interleaving of redemptions,
\* attestations, requests, signatures, timeouts and disconnects.
THEOREM GroupInvariant == Spec => []GroupInv
<1>1. Init => GroupInv
  <2> SUFFICES ASSUME Init PROVE GroupInv
    OBVIOUS
  <2>1. RosterInv /\ EventsAreTail
    <3>1. ops = <<>> /\ events = <<>> /\ epoch = 0 /\ state = "none" /\ owed = {}
      BY DEF Init
    <3>2. DOMAIN ops = {} /\ DOMAIN events = {} /\ Len(ops) = 0
      BY <3>1
    <3>3. TypeOK
      BY GroupConstants, <3>1, <3>2 DEF Init, TypeOK
    <3>4. Fresh /\ OwnerStays
      BY <3>1 DEF Init, Fresh, OwnerStays
    <3>5. QueueConsistent /\ SignedEpochIsNext /\ EventsAreTail
      BY <3>2 DEF QueueConsistent, SignedEpochIsNext, EventsAreTail
    <3> QED BY <3>3, <3>4, <3>5 DEF RosterInv
  <2>2. Active = {} /\ Candidates = {} /\ pendingJoins = {}
    BY DEF Init, Active, Candidates
  <2>3. Reserved = 0
    BY <2>2, FS_EmptySet DEF Reserved
  <2> QED BY <2>1, <2>3, GroupConstants DEF GroupInv, CapacityRespected
<1>2. GroupInv /\ [Next]_groupVars => GroupInv'
  BY RosterStep, CapacityStep, EventsStep DEF GroupInv
<1> QED BY <1>1, <1>2, PTL DEF Spec

\* The group never promises more slots than MAX_GROUP_MEMBERS.
THEOREM GroupCapacity == Spec => []CapacityRespected
<1>1. GroupInv => CapacityRespected
  BY DEF GroupInv
<1> QED BY <1>1, GroupInvariant, PTL

\* The epoch in the bytes that are out for a signature is the epoch the commit
\* assigns, and only one operation is out at a time.
THEOREM GroupSignedEpoch == Spec => []SignedEpochIsNext
<1>1. GroupInv => SignedEpochIsNext
  BY DEF GroupInv, RosterInv
<1> QED BY <1>1, GroupInvariant, PTL

\* The owner of a live group is always a member of it.
THEOREM GroupOwnerStays == Spec => []OwnerStays
<1>1. GroupInv => OwnerStays
  BY DEF GroupInv, RosterInv
<1> QED BY <1>1, GroupInvariant, PTL

\* The events a member gets when it re-syncs end at the group's epoch and have
\* no gap.
THEOREM GroupEventLog == Spec => []EventsAreTail
<1>1. GroupInv => EventsAreTail
  BY DEF GroupInv
<1> QED BY <1>1, GroupInvariant, PTL

\* No abort, timeout, disconnect or attestation changes who is a member: the
\* roster changes only by a commit, by one member and with a new epoch.
THEOREM GroupRoster == Spec => RosterChangesByEpoch
<1>1. GroupInv /\ [Next]_groupVars => [RosterMoves]_groupVars
  BY RosterMovesStep DEF GroupInv
<1> QED BY <1>1, GroupInvariant, PTL DEF Spec, RosterChangesByEpoch

\* Together: limits, queue, epoch, owner and log of a group stay consistent.
THEOREM GroupSafety == Spec => []GroupSafe
<1>1. GroupInv => GroupSafe
  BY DEF GroupInv, RosterInv, GroupSafe
<1> QED BY <1>1, GroupInvariant, PTL

=============================================================================
