-------------------------- MODULE EndpointProofs --------------------------
(***************************************************************************)
(* What an endpoint keeps to itself, for every value of the constants: its *)
(* connection, the record of a group it is a member of, and the lease      *)
(* under which that record is refreshed. Each part has its inductive       *)
(* invariant, one lemma per group of actions, and its theorems.            *)
(***************************************************************************)
EXTENDS ConnectionManager, Resync, Integers, Sequences, TLAPS


-----------------------------------------------------------------------------
(* The connection manager: one driver at a time. *)

\* A reader that still runs reads the current transport, of a connection that
\* reports CONNECTED, and nobody else drives it.
ReaderAlone ==
    \A t \in Transports : reader[t] \in {"reading", "closing"} =>
        /\ t = current /\ caller = "idle" /\ state = "connected"
        /\ ~Live("auto") /\ ~Live("manual")
        /\ reader[t] = "closing" => wire[t] = "closed"

\* A recovery loop runs while nothing else drives the connection, and the
\* transport it replaces is gone.
LoopAlone ==
    /\ Live("auto") => caller = "idle" /\ \E t \in Transports : reader[t] # "none"
    /\ Live("manual") => caller = "reconnect" /\ loop["manual"].pc # "start"
    /\ \A k \in {"auto", "manual"} :
         /\ ~Live(k) => loop[k] = NoLoop
         /\ loop[k].pc = "callback" => state = "connected" /\ current # NoTransport
         /\ loop[k].pc = "handshake" => loop[k].transport # NoTransport
         /\ loop[k].pc \in {"start", "sleep", "handshake"} =>
               current = NoTransport \/ wire[current] = "closed"

\* What open, reconnect and close may rely on between two awaits.
CallerKnows ==
    /\ caller = "reconnect" => Attempts > 0 /\ (Live("manual") \/ current = NoTransport)
    /\ caller = "handshake" => dialling # NoTransport
    /\ caller = "callback" => state = "connected" /\ current # NoTransport
    /\ closeRequested => caller \in {"detach", "closing", "done"}
    /\ caller \in {"detach", "closing"} => state # "closed"
    /\ caller \in {"closing", "done"} => current = NoTransport
    /\ state = "closed" => current = NoTransport \/ wire[current] = "closed"

\* The inductive invariant of the connection manager.
ConnInv ==
    ConnectionTypeOK /\ LegalMoves /\ Attended /\ ReaderAlone /\ LoopAlone /\ CallerKnows

\* A manager nobody has opened.
LEMMA ConnInvInit == ConnectionInit => ConnInv
<1> SUFFICES ASSUME ConnectionInit PROVE ConnInv
  OBVIOUS
<1>1. loop["auto"] = NoLoop /\ loop["manual"] = NoLoop /\ ~Live("auto") /\ ~Live("manual")
  BY DEF ConnectionInit, NoLoop, Live
<1>2. ConnectionTypeOK
  <2>1. NoLoop \in [pc : LoopPcs, attempt : 0..Attempts, transport : 0..MaxTransports]
    BY ManagerConstants DEF NoLoop, LoopPcs, NoTransport
  <2> QED
    BY <2>1, Zenon DEF ConnectionInit, ConnectionTypeOK, States, Wires, ReaderPcs, CallerPcs
<1>3. LegalMoves /\ Attended /\ ReaderAlone /\ LoopAlone /\ CallerKnows
  BY <1>1 DEF ConnectionInit, LegalMoves, Attended, ReaderAlone, LoopAlone, CallerKnows,
              NoLoop, Live
<1> QED
  BY <1>2, <1>3 DEF ConnInv

\* open(): dial, handshake, callback, and every way out of them.
LEMMA OpenKeeps ==
    ASSUME ConnInv,
      \/ Open \/ OpenDialled \/ OpenDialFails \/ OpenHandshakeFails \/ OpenFails
      \/ OpenHandshakeDone \/ OpenReturns \/ OpenCallbackFails \/ OpenCancelled
    PROVE ConnInv'
<1> USE ManagerConstants DEF ConnInv, ConnectionTypeOK, LegalMoves, Attended, ReaderAlone, LoopAlone, CallerKnows,
  States, Wires, ReaderPcs, LoopPcs, CallerPcs, NoLoop, Live, Transports, NoTransport, Transition, Allowed, Shut, Fresh
<1>1. CASE Open BY <1>1, Zenon DEF Open
<1>2. CASE OpenDialled BY <1>2 DEF OpenDialled
<1>3. CASE OpenDialFails BY <1>3 DEF OpenDialFails
<1>4. CASE OpenHandshakeFails BY <1>4, Zenon DEF OpenHandshakeFails
<1>5. CASE OpenFails BY <1>5, Zenon DEF OpenFails
<1>6. CASE OpenHandshakeDone BY <1>6, Zenon DEF OpenHandshakeDone
<1>7. CASE OpenReturns BY <1>7 DEF OpenReturns
<1>8. CASE OpenCallbackFails BY <1>8 DEF OpenCallbackFails
<1>9. CASE OpenCancelled BY <1>9 DEF OpenCancelled
<1> QED BY <1>1, <1>2, <1>3, <1>4, <1>5, <1>6, <1>7, <1>8, <1>9, Zenon

\* reconnect(), close() and the close by the heartbeat.
LEMMA CallerKeeps ==
    ASSUME ConnInv,
      \/ Reconnect \/ ReconnectGoesOn \/ ReconnectCancelled
      \/ CloseCancelsLoop \/ CloseDetaches \/ CloseFinishes \/ HeartbeatCloses
    PROVE ConnInv'
<1> USE ManagerConstants DEF ConnInv, ConnectionTypeOK, LegalMoves, Attended, ReaderAlone, LoopAlone, CallerKnows,
  States, Wires, ReaderPcs, LoopPcs, CallerPcs, NoLoop, Live, Transports, NoTransport, Transition, Allowed, Shut, Fresh,
  Cancelled, Reading, NextAttempt, Resume
<1>1. CASE Reconnect BY <1>1, Zenon DEF Reconnect
<1>2. CASE ReconnectGoesOn BY <1>2 DEF ReconnectGoesOn
<1>3. CASE ReconnectCancelled BY <1>3 DEF ReconnectCancelled
<1>4. CASE CloseCancelsLoop BY <1>4 DEF CloseCancelsLoop
<1>5. CASE CloseDetaches BY <1>5 DEF CloseDetaches
<1>6. CASE CloseFinishes BY <1>6, Zenon DEF CloseFinishes
<1>7. CASE HeartbeatCloses BY <1>7 DEF HeartbeatCloses
<1> QED BY <1>1, <1>2, <1>3, <1>4, <1>5, <1>6, <1>7, Zenon

\* The read loop: the peer is gone, or the transport ends or fails.
LEMMA ReaderKeeps ==
    ASSUME ConnInv, NEW t \in Transports,
           PeerGone(t) \/ ReadEnd(t) \/ ReadError(t) \/ ReadErrorClosed(t)
    PROVE ConnInv'
<1> USE ManagerConstants DEF ConnInv, ConnectionTypeOK, LegalMoves, Attended, ReaderAlone, LoopAlone, CallerKnows,
  States, Wires, ReaderPcs, LoopPcs, CallerPcs, NoLoop, Live, Transports, NoTransport, Shut
<1>1. CASE PeerGone(t) BY <1>1 DEF PeerGone
<1>2. CASE ReadEnd(t) \/ ReadErrorClosed(t)
  <2>1. /\ ~closeRequested /\ t = current /\ caller = "idle" /\ state = "connected"
        /\ loop["auto"].pc = "none" /\ loop["manual"].pc = "none"
    BY <1>2, Zenon DEF ReadEnd, ReadErrorClosed
  <2>2. /\ UNCHANGED <<current, caller, dialling, closeRequested>>
        /\ wire' \in [Transports -> Wires] /\ wire'[t] = "closed"
        /\ reader' = [reader EXCEPT ![t] = "done"]
        /\ Unexpected
    BY <1>2, <2>1 DEF ReadEnd, ReadErrorClosed
  <2>3. closedEvent' \in BOOLEAN
    BY <2>2, Zenon DEF Unexpected
  <2>4. CASE Attempts > 0
    <3>1. /\ state' = "disconnected"
          /\ loop' = [loop EXCEPT !["auto"] = [NoLoop EXCEPT !.pc = "start"]]
      BY <2>1, <2>2, <2>4 DEF Unexpected
    <3> QED BY <2>1, <2>2, <2>3, <3>1, ZenonT(30)
  <2>5. CASE ~(Attempts > 0)
    <3>1. state' = "closed" /\ loop' = loop
      BY <2>1, <2>2, <2>5, Zenon DEF Unexpected
    <3> QED BY <2>1, <2>2, <2>3, <3>1
  <2> QED BY <2>4, <2>5, Zenon
<1>3. CASE ReadError(t) BY <1>3 DEF ReadError
<1> QED BY <1>1, <1>2, <1>3, Zenon

\* _recover, started by the reader or by reconnect().
LEMMA LoopKeeps ==
    ASSUME ConnInv, NEW k \in {"auto", "manual"},
          \/ LoopStart(k) \/ LoopDialled(k) \/ LoopAttemptFails(k)
          \/ LoopConnected(k) \/ LoopReturns(k) \/ LoopCallbackFails(k)
    PROVE ConnInv'
<1> USE ManagerConstants DEF ConnInv, ConnectionTypeOK, LegalMoves, Attended, ReaderAlone, LoopAlone, CallerKnows,
  States, Wires, ReaderPcs, LoopPcs, CallerPcs, NoLoop, Live, Transports, NoTransport, Transition, Allowed, Fresh,
  NextAttempt, Resume, GiveUp
<1>1. CASE LoopStart(k)
  <2>1. CASE k = "auto" /\ closeRequested BY <1>1, <2>1, Zenon DEF LoopStart
  <2>2. CASE k = "auto" /\ ~closeRequested BY <1>1, <2>2 DEF LoopStart
  <2>3. CASE k = "manual" /\ closeRequested BY <1>1, <2>3, Zenon DEF LoopStart
  <2>4. CASE k = "manual" /\ ~closeRequested BY <1>1, <2>4, ZenonT(30) DEF LoopStart
  <2> QED BY <2>1, <2>2, <2>3, <2>4, Zenon
<1>2. CASE LoopDialled(k)
  <2>1. PICK t \in Transports :
          /\ wire[t] = "none" /\ wire' = [wire EXCEPT ![t] = "open"]
          /\ loop' = [loop EXCEPT ![k] = [pc |-> "handshake", attempt |-> loop[k].attempt,
                                         transport |-> t]]
    BY <1>2, Zenon DEF LoopDialled
  <2>2. /\ loop[k].pc = "sleep"
        /\ UNCHANGED <<state, current, reader, caller, dialling, closeRequested, closedEvent>>
    BY <1>2, Zenon DEF LoopDialled
  <2>3. k = "auto" \/ k = "manual"
    OBVIOUS
  <2> QED BY <2>1, <2>2, <2>3
<1>3. CASE LoopAttemptFails(k)
  <2>0. GiveUp(k) /\ Resume(k, NextAttempt(k) = NoLoop)
    BY <1>3 DEF LoopAttemptFails
  <2>1. /\ loop[k].pc \in {"sleep", "handshake"} /\ state = "reconnecting" /\ ~closeRequested
        /\ loop' = [loop EXCEPT ![k] = NextAttempt(k)]
        /\ UNCHANGED <<current, reader, dialling, closeRequested>>
    BY <1>3, Zenon DEF LoopAttemptFails
  <2>2. /\ wire' \in [Transports -> Wires]
        /\ \A t \in Transports : wire[t] = "closed" => wire'[t] = "closed"
        /\ \A t \in Transports : wire'[t] = "open" => wire[t] = "open"
    BY <1>3, ZenonT(30) DEF LoopAttemptFails
  <2>3. CASE loop[k].attempt = Attempts
    <3>1. /\ state' = "closed" /\ closedEvent' = TRUE
          /\ loop' = [loop EXCEPT ![k] = NoLoop]
          /\ caller' = IF k = "manual" THEN "idle" ELSE caller
      <4>1. loop[k].attempt + 1 > Attempts
        BY <2>3
      <4>2. NextAttempt(k) = NoLoop
        BY <4>1, Zenon DEF NextAttempt
      <4> QED BY <2>0, <2>1, <2>3, <4>2, Zenon DEF GiveUp, Resume
    <3> QED BY <2>1, <2>2, <3>1
  <2>4. CASE loop[k].attempt # Attempts
    <3>1. /\ UNCHANGED <<state, closedEvent, caller>>
          /\ loop[k].attempt + 1 \in 0..Attempts
          /\ loop' = [loop EXCEPT ![k] = [pc |-> "sleep", attempt |-> loop[k].attempt + 1,
                                          transport |-> NoTransport]]
      <4>1. ~(loop[k].attempt + 1 > Attempts) /\ loop[k].attempt + 1 \in 0..Attempts
        BY <2>4
      <4>2. NextAttempt(k) = [pc |-> "sleep", attempt |-> loop[k].attempt + 1, transport |-> NoTransport]
        BY <2>1, <4>1, Zenon DEF NextAttempt
      <4>3. NextAttempt(k) # NoLoop
        BY <4>2
      <4> QED BY <2>0, <2>1, <2>4, <4>1, <4>2, <4>3, Zenon DEF GiveUp, Resume
    <3> QED BY <2>1, <2>2, <3>1
  <2> QED BY <2>3, <2>4, ZenonT(30)
<1>4. CASE LoopConnected(k)
  <2> HIDE DEF ConnInv, ConnectionTypeOK, LegalMoves, Attended, ReaderAlone, LoopAlone, CallerKnows
  <2>1. /\ loop[k].pc = "handshake" /\ state = "reconnecting" /\ state' = "connected"
        /\ current' = loop[k].transport /\ loop' = [loop EXCEPT ![k].pc = "callback"]
        /\ UNCHANGED <<wire, reader, caller, dialling, closeRequested, closedEvent>>
    BY <1>4, Zenon DEF LoopConnected, ConnInv, LegalMoves
  <2>2. /\ loop[k] \in [pc : LoopPcs, attempt : 0..Attempts, transport : 0..MaxTransports]
        /\ k \in DOMAIN loop /\ loop[k].transport \in Transports
    BY <2>1 DEF ConnInv, ConnectionTypeOK, LoopAlone
  <2>3. /\ loop' = [loop EXCEPT ![k] = [pc |-> "callback", attempt |-> loop[k].attempt,
                                        transport |-> loop[k].transport]]
        /\ loop' \in [{"auto", "manual"} -> [pc : LoopPcs, attempt : 0..Attempts, transport : 0..MaxTransports]]
    <3>1. PICK r : r = loop[k]
      OBVIOUS
    <3>2. [r EXCEPT !.pc = "callback"] = [pc |-> "callback", attempt |-> r.attempt, transport |-> r.transport]
      BY <2>2, <3>1
    <3>3. [pc |-> "callback", attempt |-> r.attempt, transport |-> r.transport]
             \in [pc : LoopPcs, attempt : 0..Attempts, transport : 0..MaxTransports]
      BY <2>2, <3>1
    <3> QED BY <2>1, <3>1, <3>2, <3>3, Zenon DEF ConnInv, ConnectionTypeOK
  <2>4. /\ k = "auto" => caller = "idle"
        /\ k = "manual" => caller = "reconnect"
        /\ k = "auto" \/ k = "manual"
    BY <2>1 DEF ConnInv, LoopAlone
  <2>5. \A t \in Transports : reader[t] \notin {"reading", "closing"}
    BY <2>1, <2>4 DEF ConnInv, ReaderAlone
  <2>6. ConnectionTypeOK'
    BY <2>1, <2>2, <2>3, Zenon DEF ConnInv, ConnectionTypeOK
  <2>7. (LegalMoves /\ Attended)'
    BY <2>1, <2>2, <2>3, <2>4 DEF ConnInv, ConnectionTypeOK, LegalMoves, Attended, LoopAlone
  <2>8. ReaderAlone'
    BY <2>1, <2>5 DEF ReaderAlone
  <2>9. LoopAlone'
    BY <2>1, <2>2, <2>3, <2>4 DEF ConnInv, ConnectionTypeOK, LoopAlone
  <2>10. CallerKnows'
    BY <2>1, <2>2, <2>3, <2>4 DEF ConnInv, ConnectionTypeOK, CallerKnows
  <2> QED BY <2>6, <2>7, <2>8, <2>9, <2>10 DEF ConnInv
<1>5. CASE LoopReturns(k) BY <1>5 DEF LoopReturns
<1>6. CASE LoopCallbackFails(k) BY <1>6 DEF LoopCallbackFails
<1> QED BY <1>1, <1>2, <1>3, <1>4, <1>5, <1>6, Zenon

\* Every step of the manager keeps the invariant.
LEMMA ConnInvStep == ConnInv /\ [ConnectionNext]_connVars => ConnInv'
<1> SUFFICES ASSUME ConnInv, [ConnectionNext]_connVars PROVE ConnInv'
  BY Zenon
<1>1. CASE UNCHANGED connVars
  BY <1>1 DEF connVars, ConnInv, ConnectionTypeOK, LegalMoves, Attended, ReaderAlone, LoopAlone,
              CallerKnows, Live
<1>2. CASE ConnectionNext
  BY <1>2, OpenKeeps, CallerKeeps, ReaderKeeps, LoopKeeps DEF ConnectionNext
<1> QED BY <1>1, <1>2

\* The invariant gives the property the run checks.
LEMMA ConnInvSafe == ConnInv => ConnectionSafe
<1> SUFFICES ASSUME ConnInv PROVE ConnectionSafe
  BY Zenon
<1>1. ClosedIsQuiet
  BY DEF ConnInv, ConnectionTypeOK, LegalMoves, ReaderAlone, LoopAlone, CallerKnows, ClosedIsQuiet, Live, Reading, LoopPcs
<1>2. OneDriver
  <2> DEFINE Loops == {k \in {"auto", "manual"} : Live(k)}
             Opening == {caller} \cap {"dial", "handshake", "callback", "failing"}
  <2>1. CASE Reading # {}
    <3>1. Reading = {current} /\ Loops = {} /\ Opening = {}
      BY <2>1 DEF Reading, ConnInv, ReaderAlone
    <3> QED BY <3>1 DEF OneDriver, Drivers
  <2>2. CASE Reading = {} /\ Loops # {}
    <3>1. Opening = {} /\ (Loops = {"auto"} \/ Loops = {"manual"})
      BY <2>2 DEF ConnInv, LoopAlone
    <3> QED BY <2>2, <3>1 DEF OneDriver, Drivers
  <2>3. CASE Reading = {} /\ Loops = {}
    BY <2>3 DEF OneDriver, Drivers
  <2> QED BY <2>1, <2>2, <2>3
<1> QED BY <1>1, <1>2 DEF ConnInv, ConnectionSafe

\* One task drives the connection at a time, CONNECTED is attended and CLOSED
\* is quiet (connection.py), for any number of transports, attempts and
\* calls.
THEOREM ConnectionAlwaysSafe == ConnectionSpec => []ConnectionSafe
BY ConnInvInit, ConnInvStep, ConnInvSafe, PTL DEF ConnectionSpec

-----------------------------------------------------------------------------
(* The record a member keeps of a group. *)

\* The first of a sequence and the rest.
LEMMA HeadAndTail ==
    ASSUME NEW S, NEW s \in Seq(S), s # <<>>
    PROVE  /\ Head(s) \in S /\ Head(s) = s[1]
           /\ Tail(s) \in Seq(S) /\ Len(Tail(s)) = Len(s) - 1 /\ Len(s) > 0
           /\ \A i \in 1..Len(Tail(s)) : Tail(s)[i] = s[i + 1]
OBVIOUS

\* One more at the end of a sequence.
LEMMA AppendedIs ==
    ASSUME NEW S, NEW s \in Seq(S), NEW x \in S
    PROVE  /\ Append(s, x) \in Seq(S) /\ Append(s, x) # <<>> /\ Len(Append(s, x)) = Len(s) + 1
           /\ \A i \in 1..Len(s) : Append(s, x)[i] = s[i]
           /\ Append(s, x)[Len(s) + 1] = x
OBVIOUS

\* An element of a sequence.
LEMMA ElementIs ==
    ASSUME NEW S, NEW s \in Seq(S), NEW n \in 1..Len(s)
    PROVE  s[n] \in S
OBVIOUS

\* The empty sequence.
LEMMA EmptyIs ==
    ASSUME NEW S
    PROVE  /\ <<>> \in Seq(S) /\ Len(<<>>) = 0
           /\ \A s \in Seq(S) : s # <<>> => Len(s) \in Nat \ {0}
OBVIOUS

\* Sequences with the same elements are the same.
LEMMA SameSequence ==
    ASSUME NEW S, NEW s \in Seq(S), NEW t \in Seq(S), Len(s) = Len(t), \A i \in 1..Len(s) : s[i] = t[i]
    PROVE  s = t
OBVIOUS

\* Everybody who is in the group or may be.
People == {RecordOwner, Self} \cup Others
\* The kinds of entry of the relay's log.
LogKinds == {"create", "join", "left", "removed", "dissolved"}
\* An entry, with the roster after it.
LogEntries == [kind : LogKinds, subject : People, roster : SUBSET People]
\* The stored record of a group.
Records == [state : TerminalStates \cup {"none", "active"}, epoch : Nat,
            roster : SUBSET People, suspect : BOOLEAN]
\* What the relay sends.
Packets ==
    [t : {"error"}, code : {"unknown", "refused"}] \cup [t : {"granted"}]
    \cup [t : {"attested"}, role : {"member", "candidate"}, epoch : Nat]
    \cup [t : {"redeemed", "event"}, epoch : Nat]
    \cup [t : {"sign"}, kind : LogKinds, subject : People, epoch : Nat]
\* A signature request that is being answered.
Signings == [kind : EventKinds, subject : People, epoch : Nat, signed : BOOLEAN]
\* Where an operation waits.
OpStates == {"idle", "create", "redeem", "sync", "before", "attest", "await", "reattest", "wait"}
\* An operation of the service.
Operations == [pc : OpStates, asked : BOOLEAN, base : Records, got : Packets \cup {NoPacket},
               event : Nat, what : {NoSigning} \cup [kind : LogKinds, subject : People]]

\* The types of the state.
RecordTypes ==
    /\ me \in {RecordOwner, Self} /\ rec \in Records /\ op \in Operations
    /\ inbound \in Seq(Packets) /\ relayLog \in Seq(LogEntries)
    /\ signing \in {NoSigning} \cup Signings
    /\ bound \in BOOLEAN /\ hosted \in BOOLEAN

\* What an event makes of the roster before it.
RosterAfter(roster, kind, who) ==
    CASE kind = "join" -> roster \cup {who}
      [] kind \in {"left", "removed"} -> roster \ {who}
      [] OTHER -> roster

\* The log starts with the creation, and every later entry is an event whose
\* roster follows from the one before.
Chained(log) ==
    /\ Len(log) > 0 => log[1].roster = {RecordOwner}
    /\ \A i \in 1 .. Len(log) - 1 :
          /\ log[i + 1].kind # "create"
          /\ log[i + 1].roster = RosterAfter(log[i].roster, log[i + 1].kind, log[i + 1].subject)

\* A log that has grown.
Extends(log, longer) ==
    Len(log) <= Len(longer) /\ \A i \in 1 .. Len(log) : longer[i] = log[i]

\* The record is a state the group went through (see RecordFaithful).
Faithful(r, log, who) ==
    r # NoRecord =>
      /\ r.epoch \in 1 .. Len(log)
      /\ r.roster = log[r.epoch].roster
      /\ r.state \in {"left", "removed", "dissolved"} =>
           /\ log[r.epoch].kind = r.state
           /\ r.state # "dissolved" => log[r.epoch].subject = who
      /\ r.state = "active" => who \in r.roster

\* A packet speaks of epochs that have been.
Truthful(p, log, who) ==
    /\ p.t \in {"event", "attested", "redeemed"} => p.epoch \in 1 .. Len(log)
    /\ p.t = "granted" => who = RecordOwner /\ Len(log) > 0

\* A sync has read an active record; a creation is asked for no group yet.
OpFaithful ==
    /\ op.pc = "sync" => Faithful(op.base, relayLog, me) /\ op.base.state = "active"
    /\ op.pc = "create" /\ op.asked => relayLog = <<>> /\ me = RecordOwner

\* The inductive invariant of the record.
RecordInv ==
    /\ RecordTypes /\ Chained(relayLog) /\ Faithful(rec, relayLog, me) /\ OpFaithful
    /\ \A i \in DOMAIN inbound : Truthful(inbound[i], relayLog, me)
    /\ Truthful(op.got, relayLog, me)

-----------------------------------------------------------------------------
\* A record stays a state of the group when the log grows.
LEMMA StillFaithful ==
    ASSUME NEW log \in Seq(LogEntries), NEW longer \in Seq(LogEntries), Extends(log, longer),
           NEW r, NEW who, Faithful(r, log, who)
    PROVE  Faithful(r, longer, who)
<1> SUFFICES ASSUME r # NoRecord PROVE Faithful(r, longer, who)
  BY DEF Faithful
<1>1. r.epoch \in 1 .. Len(log) /\ Len(log) \in Nat /\ Len(longer) \in Nat
  BY DEF Faithful
<1>2. r.epoch \in 1 .. Len(longer) /\ longer[r.epoch] = log[r.epoch]
  BY <1>1 DEF Extends
<1> QED BY <1>2 DEF Faithful

\* A packet stays true when the log grows.
LEMMA StillTruthful ==
    ASSUME NEW log \in Seq(LogEntries), NEW longer \in Seq(LogEntries), Extends(log, longer),
           NEW p, NEW who, Truthful(p, log, who)
    PROVE  Truthful(p, longer, who)
<1>1. Len(log) \in Nat /\ Len(longer) \in Nat /\ Len(log) <= Len(longer)
  BY DEF Extends
<1> QED BY <1>1 DEF Truthful

\* An event appended with the roster that follows keeps the log chained.
LEMMA ChainGrows ==
    ASSUME NEW log \in Seq(LogEntries), Chained(log), Len(log) > 0, NEW kind \in EventKinds,
           NEW who \in People
    PROVE  LET entry == [kind |-> kind, subject |-> who,
                         roster |-> RosterAfter(log[Len(log)].roster, kind, who)]
           IN  /\ Append(log, entry) \in Seq(LogEntries) /\ Chained(Append(log, entry))
               /\ Extends(log, Append(log, entry))
<1> DEFINE entry == [kind |-> kind, subject |-> who,
                     roster |-> RosterAfter(log[Len(log)].roster, kind, who)]
           n == Len(log)
           longer == Append(log, entry)
<1>0. n \in Nat /\ n > 0 /\ log[n] \in LogEntries
  BY ElementIs
<1>1. log[n].roster \in SUBSET People
  BY <1>0 DEF LogEntries
<1>2. entry \in LogEntries
  <2>1. RosterAfter(log[n].roster, kind, who) \in SUBSET People
    BY <1>1 DEF RosterAfter
  <2> QED BY <2>1 DEF LogEntries, LogKinds, EventKinds
<1>3. /\ longer \in Seq(LogEntries) /\ Len(longer) = n + 1 /\ longer[n + 1] = entry
      /\ \A i \in 1 .. n : longer[i] = log[i]
  BY <1>0, <1>2, AppendedIs
<1>4. entry.kind = kind /\ entry.subject = who /\ kind # "create"
      /\ entry.roster = RosterAfter(log[n].roster, kind, who)
  BY DEF EventKinds
<1> HIDE DEF longer, entry, n
<1>5. Chained(longer)
  <2>1. longer[1].roster = {RecordOwner}
    BY <1>0, <1>3 DEF Chained, n
  <2>2. ASSUME NEW i \in 1 .. n
        PROVE  /\ longer[i + 1].kind # "create"
               /\ longer[i + 1].roster =
                    RosterAfter(longer[i].roster, longer[i + 1].kind, longer[i + 1].subject)
    <3>1. CASE i = n
      BY <1>0, <1>3, <1>4, <3>1
    <3>2. CASE i # n
      <4>1. i \in 1 .. n - 1 /\ i + 1 \in 1 .. n
        BY <1>0, <3>2
      <4>2. longer[i] = log[i] /\ longer[i + 1] = log[i + 1]
        BY <1>3, <4>1
      <4> QED BY <4>1, <4>2 DEF Chained, n
    <3> QED BY <3>1, <3>2
  <2>3. Len(longer) - 1 = n
    BY <1>0, <1>3
  <2> QED BY <2>1, <2>2, <2>3 DEF Chained
<1>6. Extends(log, longer)
  BY <1>0, <1>3 DEF Extends, n
<1> QED BY <1>3, <1>5, <1>6 DEF longer, entry, n

\* apply_verified_event leaves a state the group went through.
LEMMA AppliedFaithful ==
    ASSUME RecordInv, NEW r \in Records, Faithful(r, relayLog, me), r.state = "active",
           NEW epoch \in 1 .. Len(relayLog)
    PROVE  /\ ApplyVerifiedEvent(r, epoch) \in Records
           /\ Faithful(ApplyVerifiedEvent(r, epoch), relayLog, me)
<1> DEFINE event == relayLog[epoch]
           result == ApplyVerifiedEvent(r, epoch)
<1>0. /\ relayLog \in Seq(LogEntries) /\ Len(relayLog) \in Nat /\ r # NoRecord
      /\ event \in LogEntries
  BY ElementIs DEF RecordInv, RecordTypes, NoRecord
<1>1. CASE epoch = r.epoch + 1 /\ Acceptable(r, event)
  <2>1. /\ r.epoch \in 1 .. Len(relayLog) - 1 /\ r.roster = relayLog[r.epoch].roster /\ me \in r.roster
    BY <1>0, <1>1 DEF Faithful
  <2>2. event.kind # "create" /\ event.roster = RosterAfter(r.roster, event.kind, event.subject)
    BY <1>1, <2>1, Zenon DEF RecordInv, Chained
  <2> DEFINE then == CASE event.kind = "dissolved" -> "dissolved"
                       [] event.kind \in {"left", "removed"} /\ event.subject = me -> event.kind
                       [] OTHER -> r.state
  <2>3. result = [state |-> then, epoch |-> epoch, roster |-> event.roster, suspect |-> r.suspect]
    BY <1>1, <2>2, Zenon DEF ApplyVerifiedEvent, Semantics, RosterAfter, Records
  <2>4. then \in TerminalStates \cup {"active"} /\ event.roster \in SUBSET People
    BY <1>0 DEF LogEntries, LogKinds, TerminalStates
  <2>5. result \in Records
    BY <2>3, <2>4 DEF Records
  <2>6. /\ then \in {"left", "removed", "dissolved"} =>
             event.kind = then /\ (then # "dissolved" => event.subject = me)
        /\ then = "active" => me \in event.roster
    BY <1>0, <2>1, <2>2 DEF LogEntries, LogKinds, RosterAfter
  <2> HIDE DEF then, result
  <2> QED BY <1>0, <2>3, <2>5, <2>6 DEF Faithful, result
<1>2. CASE ~(epoch = r.epoch + 1 /\ Acceptable(r, event))
  <2>1. result = [r EXCEPT !.suspect = TRUE]
    BY <1>2 DEF ApplyVerifiedEvent
  <2> HIDE DEF result
  <2>2. result \in Records /\ result.state = r.state /\ result.epoch = r.epoch /\ result.roster = r.roster
    BY <2>1, Zenon DEF Records
  <2> QED BY <1>0, <2>2 DEF Faithful, result
<1> QED BY <1>1, <1>2, Zenon

-----------------------------------------------------------------------------
\* The actions that leave the log alone.
QuietSteps ==
    \/ Archive \/ MarkDefunct
    \/ CreateLocalGroup \/ JoinGroup \/ SyncGroup \/ LeaveGroup \/ DissolveGroup
    \/ \E m \in Others : RemoveMember(m)
    \/ RelayAnswersAttest \/ RelayAnswersRedeem
    \/ \E kind \in EventKinds, m \in {RecordOwner, me} \cup Others : RelayAsksSignature(kind, m)
    \/ RelayDropsOp \/ RelayRestarts \/ ConnectionLost
    \/ ReadEvent \/ ReadAnswer \/ ReadSignRequest
    \/ CreateGranted \/ JoinRedeemed \/ JoinAttested \/ JoinAdmitted \/ JoinReattested
    \/ SyncAttested \/ SyncUnknown \/ RequestSent \/ AfterCommitted \/ Refused \/ TimedOut

\* Which is what they do.
LEMMA QuietLog ==
    ASSUME QuietSteps
    PROVE  relayLog' = relayLog /\ me' = me
<1>1. CASE \/ Archive \/ MarkDefunct
           \/ CreateLocalGroup \/ JoinGroup \/ SyncGroup \/ LeaveGroup \/ DissolveGroup
           \/ \E m \in Others : RemoveMember(m)
  BY <1>1 DEF Archive, MarkDefunct, CreateLocalGroup, JoinGroup, SyncGroup, LeaveGroup,
              DissolveGroup, RemoveMember, Starts
<1>2. CASE \/ RelayAnswersAttest \/ RelayAnswersRedeem
           \/ \E kind \in EventKinds, m \in {RecordOwner, me} \cup Others : RelayAsksSignature(kind, m)
           \/ RelayDropsOp \/ RelayRestarts \/ ConnectionLost
  BY <1>2, Zenon DEF RelayAnswersAttest, RelayAnswersRedeem, RelayAsksSignature, RelayDropsOp,
              RelayRestarts, ConnectionLost
<1>3. CASE ReadEvent \/ ReadAnswer \/ ReadSignRequest
  BY <1>3 DEF ReadEvent, ReadAnswer, ReadSignRequest, ReaderUnchanged
<1>4. CASE \/ CreateGranted \/ JoinRedeemed \/ JoinAttested \/ JoinAdmitted \/ JoinReattested
           \/ SyncAttested \/ SyncUnknown \/ RequestSent \/ AfterCommitted \/ Refused \/ TimedOut
  BY <1>4 DEF CreateGranted, JoinRedeemed, JoinAttested, JoinAdmitted, JoinReattested,
              SyncAttested, SyncUnknown, RequestSent, AfterCommitted, Refused, TimedOut, Resumes
<1> QED BY <1>1, <1>2, <1>3, <1>4, Zenon DEF QuietSteps

\* A committed event extends the log by one entry that follows from it.
LEMMA CommitLog ==
    ASSUME RecordInv, NEW kind \in EventKinds, NEW m \in People, Commit(kind, m)
    PROVE  /\ relayLog' \in Seq(LogEntries) /\ Chained(relayLog') /\ Extends(relayLog, relayLog')
           /\ Len(relayLog') = Len(relayLog) + 1 /\ Len(relayLog) \in Nat \ {0}
<1>1. /\ relayLog \in Seq(LogEntries) /\ Chained(relayLog) /\ Len(relayLog) > 0 /\ Len(relayLog) \in Nat
  BY DEF RecordInv, RecordTypes, Commit, GroupLives, Epoch
<1>2. relayLog' = Append(relayLog, [kind |-> kind, subject |-> m,
                                    roster |-> RosterAfter(relayLog[Len(relayLog)].roster, kind, m)])
  BY DEF Commit, RosterAfter, Roster, Epoch
<1>3. Len(relayLog') = Len(relayLog) + 1
  BY <1>1, <1>2
<1> QED BY <1>1, <1>2, <1>3, ChainGrows

\* The log only grows, one chained entry at a time.
LEMMA LogStep ==
    ASSUME RecordInv, LocalGroupNext
    PROVE  /\ me' = me /\ relayLog' \in Seq(LogEntries) /\ Chained(relayLog')
           /\ Extends(relayLog, relayLog')
<1>0. relayLog \in Seq(LogEntries) /\ Len(relayLog) \in Nat /\ me \in People
  BY DEF RecordInv, RecordTypes, People
<1>1. CASE QuietSteps
  BY <1>0, <1>1, QuietLog DEF RecordInv, Extends
<1>2. CASE RelayAnswersCreate
  <2>1. relayLog = <<>> /\ me' = me
    BY <1>2 DEF RelayAnswersCreate, RecordInv, OpFaithful
  <2> DEFINE entry == [kind |-> "create", subject |-> RecordOwner, roster |-> {RecordOwner}]
  <2>2. relayLog' = <<entry>> /\ entry \in LogEntries /\ entry.roster = {RecordOwner}
    BY <1>2 DEF RelayAnswersCreate, LogEntries, LogKinds, People
  <2> HIDE DEF entry
  <2>3. /\ relayLog' \in Seq(LogEntries) /\ Len(relayLog') = 1 /\ relayLog'[1] = entry
        /\ Len(relayLog) = 0
    BY <2>1, <2>2
  <2> QED BY <2>1, <2>2, <2>3 DEF Chained, Extends
<1>3. CASE \E kind \in EventKinds, m \in {RecordOwner, me} \cup Others : OthersCommit(kind, m)
  <2>1. PICK kind \in EventKinds, m \in {RecordOwner, me} \cup Others : OthersCommit(kind, m)
    BY <1>3
  <2>2. Commit(kind, m) /\ me' = me /\ m \in People
    BY <1>0, <2>1 DEF OthersCommit, People
  <2> QED BY <2>2, CommitLog
<1>4. CASE RelayCommitsSigned
  <2>1. Commit(signing.kind, signing.subject) /\ me' = me /\ signing \in Signings
    BY <1>4 DEF RelayCommitsSigned, RecordInv, RecordTypes
  <2>2. signing.kind \in EventKinds /\ signing.subject \in People
    BY <2>1, Zenon DEF Signings
  <2> QED BY <2>1, <2>2, CommitLog, Zenon
<1> QED BY <1>1, <1>2, <1>3, <1>4 DEF LocalGroupNext, QuietSteps

-----------------------------------------------------------------------------
\* What becomes of the packets under way.
Sent(p) == p \in Packets /\ Truthful(p, relayLog', me) /\ inbound' = Append(inbound, p)

\* What may happen to the packets under way.
InboundMoves ==
    \/ inbound' = inbound \/ inbound' = <<>>
    \/ inbound # <<>> /\ inbound' = Tail(inbound)
    \/ \E p \in Packets : Sent(p)

\* And nothing else does.
LEMMA InboundStep ==
    ASSUME RecordInv, LocalGroupNext
    PROVE  InboundMoves
<1>0. relayLog \in Seq(LogEntries) /\ Len(relayLog) \in Nat /\ me \in People
  BY DEF RecordInv, RecordTypes, People
<1>e. \A c \in {"unknown", "refused"} :
         /\ [t |-> "error", code |-> c] \in Packets
         /\ Truthful([t |-> "error", code |-> c], relayLog', me)
  BY Zenon DEF Packets, Truthful
<1>1. CASE \/ Archive \/ MarkDefunct
           \/ CreateLocalGroup \/ JoinGroup \/ SyncGroup \/ LeaveGroup \/ DissolveGroup
           \/ \E m \in Others : RemoveMember(m)
  BY <1>1, Zenon DEF Archive, MarkDefunct, CreateLocalGroup, JoinGroup, SyncGroup, LeaveGroup,
              DissolveGroup, RemoveMember, Starts, InboundMoves
<1>2. CASE RelayAnswersAttest
  <2>1. ASSUME NEW role \in {"member", "candidate"}, Epoch > 0
        PROVE  LET p == [t |-> "attested", role |-> role, epoch |-> Epoch]
               IN p \in Packets /\ Truthful(p, relayLog', me)
    <3>1. relayLog' = relayLog
      BY <1>2 DEF RelayAnswersAttest
    <3> QED BY <1>0, <2>1, <3>1 DEF Packets, Truthful, Epoch
  <2>2. \/ RelayAnswer([t |-> "error", code |-> "unknown"])
        \/ Epoch > 0 /\ RelayAnswer([t |-> "attested", role |-> "member", epoch |-> Epoch])
        \/ Epoch > 0 /\ RelayAnswer([t |-> "attested", role |-> "candidate", epoch |-> Epoch])
        \/ RelayAnswer([t |-> "error", code |-> "refused"])
    BY <1>2, Zenon DEF RelayAnswersAttest, GroupLives
  <2> QED BY <1>e, <2>1, <2>2, Zenon DEF RelayAnswer, InboundMoves, Sent
<1>3. CASE RelayAnswersRedeem
  <2>1. \/ RelayAnswer([t |-> "error", code |-> "refused"])
        \/ Epoch > 0 /\ RelayAnswer([t |-> "redeemed", epoch |-> Epoch])
    BY <1>3, Zenon DEF RelayAnswersRedeem, GroupLives
  <2>2. ASSUME Epoch > 0
        PROVE  LET p == [t |-> "redeemed", epoch |-> Epoch]
               IN p \in Packets /\ Truthful(p, relayLog', me)
    <3>1. relayLog' = relayLog
      BY <1>3 DEF RelayAnswersRedeem
    <3> QED BY <1>0, <2>2, <3>1 DEF Packets, Truthful, Epoch
  <2> QED BY <1>e, <2>1, <2>2 DEF RelayAnswer, InboundMoves, Sent
<1>4. CASE RelayAnswersCreate
  <2>1. RelayAnswer([t |-> "granted"]) /\ Len(relayLog') = 1 /\ me = RecordOwner
    BY <1>4 DEF RelayAnswersCreate, RecordInv, OpFaithful
  <2>2. [t |-> "granted"] \in Packets /\ Truthful([t |-> "granted"], relayLog', me)
    BY <2>1 DEF Packets, Truthful
  <2> QED BY <2>1, <2>2 DEF RelayAnswer, InboundMoves, Sent
<1>5. ASSUME NEW kind \in EventKinds, NEW m \in People, Commit(kind, m) PROVE InboundMoves
  <2> DEFINE p == [t |-> "event", epoch |-> Epoch + 1]
  <2>1. Len(relayLog') = Len(relayLog) + 1
    BY <1>5, CommitLog, Zenon
  <2>2. p \in Packets /\ Truthful(p, relayLog', me)
    BY <1>0, <2>1 DEF Packets, Truthful, Epoch
  <2>3. inbound' = inbound \/ inbound' = Append(inbound, p)
    BY <1>5 DEF Commit
  <2> HIDE DEF p
  <2> QED BY <2>2, <2>3 DEF InboundMoves, Sent
<1>6. CASE \E kind \in EventKinds, m \in {RecordOwner, me} \cup Others : OthersCommit(kind, m)
  BY <1>0, <1>5, <1>6 DEF OthersCommit, People
<1>7. CASE RelayCommitsSigned
  <2>1. Commit(signing.kind, signing.subject) /\ signing \in Signings
    BY <1>7 DEF RelayCommitsSigned, RecordInv, RecordTypes
  <2>2. signing.kind \in EventKinds /\ signing.subject \in People
    BY <2>1 DEF Signings
  <2> QED BY <1>5, <2>1, <2>2
<1>8. CASE \E kind \in EventKinds, m \in {RecordOwner, me} \cup Others : RelayAsksSignature(kind, m)
  <2>1. PICK kind \in EventKinds, m \in {RecordOwner, me} \cup Others : RelayAsksSignature(kind, m)
    BY <1>8
  <2> DEFINE p == [t |-> "sign", kind |-> kind, subject |-> m, epoch |-> Epoch + 1]
  <2>2. p \in Packets /\ Truthful(p, relayLog', me)
    BY <1>0, <2>1 DEF Packets, Truthful, Epoch, LogKinds, EventKinds, People
  <2>3. inbound' = Append(inbound, p)
    BY <2>1 DEF RelayAsksSignature, RelayAnswer
  <2> HIDE DEF p
  <2> QED BY <2>2, <2>3 DEF InboundMoves, Sent
<1>9. CASE RelayDropsOp
  BY <1>e, <1>9 DEF RelayDropsOp, RelayAnswer, InboundMoves, Sent
<1>10. CASE RelayRestarts \/ ConnectionLost
  BY <1>10 DEF RelayRestarts, ConnectionLost, InboundMoves
<1>11. CASE ReadEvent \/ ReadAnswer \/ ReadSignRequest
  BY <1>11 DEF ReadEvent, ReadAnswer, ReadSignRequest, Arrives, InboundMoves
<1>12. CASE \/ CreateGranted \/ JoinRedeemed \/ JoinAttested \/ JoinAdmitted \/ JoinReattested
            \/ SyncAttested \/ SyncUnknown \/ RequestSent \/ AfterCommitted \/ Refused \/ TimedOut
  BY <1>12 DEF CreateGranted, JoinRedeemed, JoinAttested, JoinAdmitted, JoinReattested,
               SyncAttested, SyncUnknown, RequestSent, AfterCommitted, Refused, TimedOut, Resumes,
               InboundMoves
<1> QED BY <1>1, <1>2, <1>3, <1>4, <1>6, <1>7, <1>8, <1>9, <1>10, <1>11, <1>12, Zenon DEF LocalGroupNext

\* Every packet under way stays true.
LEMMA InboundKeeps ==
    ASSUME RecordInv, LocalGroupNext
    PROVE  /\ inbound' \in Seq(Packets)
           /\ \A i \in DOMAIN inbound' : Truthful(inbound'[i], relayLog', me')
<1>1. /\ me' = me /\ relayLog \in Seq(LogEntries) /\ relayLog' \in Seq(LogEntries)
      /\ Extends(relayLog, relayLog') /\ inbound \in Seq(Packets)
  BY LogStep DEF RecordInv, RecordTypes
<1>2. \A i \in DOMAIN inbound : Truthful(inbound[i], relayLog', me')
  BY <1>1, StillTruthful, Zenon DEF RecordInv
<1>3. CASE inbound' = inbound
  BY <1>1, <1>2, <1>3
<1>4. CASE inbound' = <<>>
  BY <1>4
<1>5. CASE inbound # <<>> /\ inbound' = Tail(inbound)
  <2>1. /\ Tail(inbound) \in Seq(Packets) /\ Len(Tail(inbound)) = Len(inbound) - 1
        /\ \A i \in 1 .. Len(Tail(inbound)) : Tail(inbound)[i] = inbound[i + 1]
    BY <1>1, <1>5, HeadAndTail
  <2>2. Len(inbound) \in Nat /\ DOMAIN inbound = 1 .. Len(inbound) /\ DOMAIN inbound' = 1 .. Len(inbound')
    BY <1>1, <1>5, <2>1
  <2>3. ASSUME NEW i \in DOMAIN inbound' PROVE Truthful(inbound'[i], relayLog', me')
    <3>1. i + 1 \in DOMAIN inbound /\ inbound'[i] = inbound[i + 1]
      BY <1>5, <2>1, <2>2
    <3> QED BY <1>2, <3>1
  <2> QED BY <1>5, <2>1, <2>3
<1>6. CASE \E p \in Packets : Sent(p)
  <2>1. PICK p \in Packets : Sent(p)
    BY <1>6, Zenon
  <2>2. /\ inbound' \in Seq(Packets) /\ Len(inbound') = Len(inbound) + 1
        /\ inbound'[Len(inbound) + 1] = p /\ \A i \in 1 .. Len(inbound) : inbound'[i] = inbound[i]
    BY <1>1, <2>1, AppendedIs DEF Sent
  <2>3. Len(inbound) \in Nat /\ DOMAIN inbound = 1 .. Len(inbound) /\ DOMAIN inbound' = 1 .. Len(inbound')
    BY <1>1, <2>2
  <2>4. ASSUME NEW i \in DOMAIN inbound' PROVE Truthful(inbound'[i], relayLog', me')
    <3>1. CASE i = Len(inbound) + 1
      BY <1>1, <2>1, <2>2, <3>1, Zenon DEF Sent
    <3>2. CASE i # Len(inbound) + 1
      <4>1. i \in DOMAIN inbound /\ inbound'[i] = inbound[i]
        BY <2>2, <2>3, <3>2
      <4> QED BY <1>2, <4>1, Zenon
    <3> QED BY <3>1, <3>2, Zenon
  <2> QED BY <2>2, <2>4
<1> QED BY <1>3, <1>4, <1>5, <1>6, InboundStep, Zenon DEF InboundMoves

\* The record of an epoch, of one of its members.
LEMMA ActiveRecord ==
    ASSUME NEW log, NEW e \in Nat, e \in 1 .. Len(log), NEW R \in SUBSET People, R = log[e].roster,
           NEW who, who \in R
    PROVE  LET r == [state |-> "active", epoch |-> e, roster |-> R, suspect |-> FALSE]
           IN  r \in Records /\ Faithful(r, log, who)
BY DEF Records, Faithful

\* A record that the relay no longer knows of.
LEMMA DefunctRecord ==
    ASSUME NEW r \in Records, r.state = "active", NEW log, NEW who, Faithful(r, log, who)
    PROVE  /\ [r EXCEPT !.state = "defunct"] \in Records
           /\ Faithful([r EXCEPT !.state = "defunct"], log, who)
<1> DEFINE q == [r EXCEPT !.state = "defunct"]
<1>1. q \in Records /\ q.state = "defunct" /\ q.epoch = r.epoch /\ q.roster = r.roster
  BY DEF Records, TerminalStates
<1>2. r # NoRecord
  BY DEF NoRecord
<1> HIDE DEF q
<1>3. Faithful(q, log, who)
  BY <1>1, <1>2, Zenon DEF Faithful
<1> QED BY <1>1, <1>3, Zenon DEF q

-----------------------------------------------------------------------------
\* The state with nothing in it.
LEMMA NothingHeld ==
    /\ NoRecord \in Records /\ NoPacket \in Packets \cup {NoPacket} /\ Idle \in Operations
    /\ Idle.pc = "idle" /\ Idle.got = NoPacket
    /\ \A log, who : Truthful(NoPacket, log, who) /\ Faithful(NoRecord, log, who)
<1>1. NoRecord \in Records
  BY DEF NoRecord, Records
<1>2. Idle \in Operations
  BY <1>1, Zenon DEF Idle, Operations, OpStates
<1> QED BY <1>1, <1>2, Zenon DEF Idle, Truthful, Faithful, NoPacket

\* What an operation holds stays true when it goes on unchanged.
LEMMA OpStays ==
    ASSUME RecordInv, LocalGroupNext, op'.pc = op.pc, op'.base = op.base, op'.asked => op.asked,
           op.pc = "create" /\ op.asked => relayLog' = relayLog
    PROVE  OpFaithful'
<1>1. /\ me' = me /\ relayLog \in Seq(LogEntries) /\ relayLog' \in Seq(LogEntries)
      /\ Extends(relayLog, relayLog')
  BY LogStep, Zenon DEF RecordInv, RecordTypes
<1>2. op.pc = "sync" => Faithful(op.base, relayLog', me') /\ op.base.state = "active"
  BY <1>1, StillFaithful, Zenon DEF RecordInv, OpFaithful
<1> QED BY <1>1, <1>2, Zenon DEF RecordInv, OpFaithful

\* An operation starts with what it read.
LEMMA OpStartsWell ==
    ASSUME RecordInv,
           \/ CreateLocalGroup \/ JoinGroup \/ SyncGroup \/ LeaveGroup \/ DissolveGroup
           \/ \E m \in Others : RemoveMember(m)
    PROVE  op' \in Operations /\ op'.got = NoPacket /\ OpFaithful' /\ rec' = rec
<1>0. /\ rec \in Records /\ Faithful(rec, relayLog, me) /\ relayLog \in Seq(LogEntries)
      /\ me \in People
  BY Zenon DEF RecordInv, RecordTypes, People
<1>1. PICK pc \in {"create", "redeem", "sync", "before"},
           what \in {NoSigning} \cup [kind : LogKinds, subject : People] :
        /\ Starts(pc, what)
        /\ pc = "sync" => rec.state = "active"
        /\ pc = "create" => Epoch = 0 /\ me = RecordOwner
  <2>1. \A m \in People, kind \in EventKinds :
           [kind |-> kind, subject |-> m] \in [kind : LogKinds, subject : People]
    BY DEF EventKinds, LogKinds
  <2>2. CASE CreateLocalGroup \/ JoinGroup \/ SyncGroup
    BY <2>2, Zenon DEF CreateLocalGroup, JoinGroup, SyncGroup
  <2>3. CASE LeaveGroup
    BY <1>0, <2>1, <2>3, Zenon DEF LeaveGroup, EventKinds
  <2>4. CASE DissolveGroup
    BY <2>1, <2>4, Zenon DEF DissolveGroup, EventKinds, People
  <2>5. CASE \E m \in Others : RemoveMember(m)
    BY <2>1, <2>5, Zenon DEF RemoveMember, EventKinds, People
  <2> QED BY <2>2, <2>3, <2>4, <2>5, Zenon
<1>2. /\ op' = [pc |-> pc, asked |-> TRUE, base |-> rec, got |-> NoPacket, event |-> 0, what |-> what]
      /\ UNCHANGED <<me, rec, relayLog>>
  BY <1>1, Zenon DEF Starts
<1>3. op' \in Operations
  BY <1>0, <1>2, Zenon DEF Operations, OpStates
<1>4. op'.pc = pc /\ op'.base = rec /\ op'.got = NoPacket
  BY <1>2
<1>5. pc = "create" => relayLog = <<>>
  BY <1>0, <1>1, EmptyIs, Zenon DEF Epoch
<1> QED BY <1>0, <1>1, <1>2, <1>3, <1>4, <1>5, Zenon DEF OpFaithful

\* Every step keeps what the operation in progress relies on.
LEMMA OpKeeps ==
    ASSUME RecordInv, LocalGroupNext
    PROVE  op' \in Operations /\ Truthful(op'.got, relayLog', me') /\ OpFaithful'
<1>0. /\ op \in Operations /\ me' = me /\ relayLog \in Seq(LogEntries) /\ relayLog' \in Seq(LogEntries)
      /\ Extends(relayLog, relayLog') /\ inbound \in Seq(Packets) /\ rec \in Records
  BY LogStep, Zenon DEF RecordInv, RecordTypes
<1>g. Truthful(op.got, relayLog', me')
  BY <1>0, StillTruthful, Zenon DEF RecordInv
<1>n. Truthful(NoPacket, relayLog', me')
  BY NothingHeld
<1>s. QuietSteps => relayLog' = relayLog
  BY QuietLog, Zenon
<1>1. ASSUME op' = op, op.pc = "create" /\ op.asked => relayLog' = relayLog
      PROVE  op' \in Operations /\ Truthful(op'.got, relayLog', me') /\ OpFaithful'
  BY <1>0, <1>g, <1>1, OpStays, Zenon
<1>2. ASSUME op' = Idle
      PROVE  op' \in Operations /\ Truthful(op'.got, relayLog', me') /\ OpFaithful'
  BY <1>2, <1>n, NothingHeld, Zenon DEF OpFaithful
<1>3. ASSUME op' = [op EXCEPT !.asked = FALSE]
      PROVE  op' \in Operations /\ Truthful(op'.got, relayLog', me') /\ OpFaithful'
  <2>1. /\ op' \in Operations /\ op'.pc = op.pc /\ op'.base = op.base /\ op'.got = op.got
        /\ op'.asked = FALSE
    BY <1>0, <1>3, Zenon DEF Operations
  <2>2. op'.pc = "sync" => Faithful(op'.base, relayLog', me') /\ op'.base.state = "active"
    BY <1>0, <2>1, StillFaithful, Zenon DEF RecordInv, OpFaithful
  <2> QED BY <1>g, <2>1, <2>2 DEF OpFaithful
<1>4. CASE Archive \/ MarkDefunct \/ RelayRestarts \/ ConnectionLost \/ ReadSignRequest
  BY <1>1, <1>4, <1>s DEF QuietSteps, Archive, MarkDefunct, RelayRestarts, ConnectionLost,
                          ReadSignRequest
<1>5. CASE \/ CreateLocalGroup \/ JoinGroup \/ SyncGroup \/ LeaveGroup \/ DissolveGroup
           \/ \E m \in Others : RemoveMember(m)
  BY <1>5, <1>n, OpStartsWell
<1>6. CASE RelayAnswersAttest \/ RelayAnswersRedeem \/ RelayAnswersCreate
  BY <1>3, <1>6, Zenon DEF RelayAnswersAttest, RelayAnswersRedeem, RelayAnswersCreate
<1>7. ASSUME NEW kind \in EventKinds, NEW m \in People, Commit(kind, m), op' = op
      PROVE  op' \in Operations /\ Truthful(op'.got, relayLog', me') /\ OpFaithful'
  <2>1. ~(op.pc = "create" /\ op.asked)
    <3>1. relayLog # <<>>
      BY <1>7, CommitLog, Zenon
    <3> QED BY <3>1, Zenon DEF RecordInv, OpFaithful
  <2> QED BY <1>1, <1>7, <2>1, Zenon
<1>8. CASE \E kind \in EventKinds, m \in {RecordOwner, me} \cup Others : OthersCommit(kind, m)
  <2>1. me \in People
    BY DEF RecordInv, RecordTypes, People
  <2> QED BY <1>7, <1>8, <2>1, Zenon DEF OthersCommit, People
<1>9. CASE RelayCommitsSigned
  <2>1. Commit(signing.kind, signing.subject) /\ signing \in Signings /\ op' = op
    BY <1>9 DEF RelayCommitsSigned, RecordInv, RecordTypes
  <2>2. signing.kind \in EventKinds /\ signing.subject \in People
    BY <2>1 DEF Signings
  <2> QED BY <1>7, <2>1, <2>2, Zenon
<1>10. CASE \E kind \in EventKinds, m \in {RecordOwner, me} \cup Others : RelayAsksSignature(kind, m)
  <2>1. relayLog' = relayLog
    BY <1>10, <1>s DEF QuietSteps
  <2>2. op' = op \/ op' = [op EXCEPT !.asked = FALSE]
    BY <1>10, Zenon DEF RelayAsksSignature
  <2> QED BY <1>1, <1>3, <2>1, <2>2
<1>11. CASE RelayDropsOp
  <2>1. relayLog' = relayLog
    BY <1>11, <1>s DEF QuietSteps
  <2>2. op' = op \/ op' = [op EXCEPT !.asked = FALSE]
    BY <1>11 DEF RelayDropsOp
  <2> QED BY <1>1, <1>3, <2>1, <2>2
<1>12. CASE ReadEvent
  <2>1. relayLog' = relayLog
    BY <1>12, <1>s DEF QuietSteps
  <2>2. inbound # <<>> /\ Head(inbound).t = "event"
    BY <1>12, Zenon DEF ReadEvent, Arrives
  <2>3. Head(inbound) \in Packets /\ Head(inbound) = inbound[1] /\ 1 \in DOMAIN inbound
    BY <1>0, <2>2, HeadAndTail
  <2>4. Head(inbound).epoch \in Nat
    <3>1. Truthful(inbound[1], relayLog, me)
      BY <2>3 DEF RecordInv
    <3> QED BY <1>0, <2>2, <2>3, <3>1 DEF Truthful
  <2>5. op' = op \/ op' = [op EXCEPT !.event = Head(inbound).epoch]
    BY <1>12 DEF ReadEvent
  <2>6. ASSUME op' = [op EXCEPT !.event = Head(inbound).epoch]
        PROVE  /\ op' \in Operations /\ op'.pc = op.pc /\ op'.base = op.base /\ op'.got = op.got
               /\ op'.asked = op.asked
    BY <1>0, <2>4, <2>6, Zenon DEF Operations
  <2> QED BY <1>1, <1>g, <2>1, <2>5, <2>6, OpStays
<1>13. CASE ReadAnswer
  <2>1. relayLog' = relayLog
    BY <1>13, <1>s, Zenon DEF QuietSteps
  <2>2. inbound # <<>>
    BY <1>13, Zenon DEF ReadAnswer
  <2>3. Head(inbound) \in Packets /\ Head(inbound) = inbound[1] /\ 1 \in DOMAIN inbound
    BY <1>0, <2>2, HeadAndTail
  <2>4. Truthful(Head(inbound), relayLog', me')
    BY <1>0, <2>1, <2>3, Zenon DEF RecordInv
  <2>5. op' = op \/ op' = [op EXCEPT !.got = Head(inbound)]
    BY <1>13 DEF ReadAnswer
  <2>6. ASSUME op' = [op EXCEPT !.got = Head(inbound)]
        PROVE  /\ op' \in Operations /\ op'.pc = op.pc /\ op'.base = op.base /\ op'.got = Head(inbound)
               /\ op'.asked = op.asked
    BY <1>0, <2>3, <2>6, Zenon DEF Operations
  <2> QED BY <1>1, <2>1, <2>4, <2>5, <2>6, OpStays, Zenon
<1>14. CASE \/ CreateGranted \/ JoinReattested \/ SyncAttested \/ SyncUnknown \/ AfterCommitted
            \/ Refused \/ TimedOut
  BY <1>2, <1>14, Zenon DEF CreateGranted, JoinReattested, SyncAttested, SyncUnknown, AfterCommitted,
                     Refused, TimedOut, Done
<1>15. ASSUME NEW pc \in {"await", "reattest", "wait"}, Proceed(pc)
       PROVE  op' \in Operations /\ Truthful(op'.got, relayLog', me') /\ OpFaithful'
  <2>1. op' \in Operations /\ op'.pc = pc /\ op'.got = NoPacket
    BY <1>0, <1>15, Zenon DEF Proceed, Operations, OpStates
  <2> QED BY <1>n, <2>1 DEF OpFaithful
<1>16. CASE JoinAttested \/ JoinAdmitted \/ RequestSent
  BY <1>2, <1>15, <1>16, Zenon DEF JoinAttested, JoinAdmitted, RequestSent, Done
<1>17. CASE JoinRedeemed
  <2>1. op.got.t = "redeemed" /\ op.got.epoch \in 1 .. Len(relayLog)
    BY <1>17, Zenon DEF JoinRedeemed, Resumes, RecordInv, Truthful
  <2> DEFINE base == [state |-> "active", epoch |-> op.got.epoch,
                      roster |-> relayLog[op.got.epoch].roster, suspect |-> FALSE]
  <2>2. base \in Records
    <3>1. relayLog[op.got.epoch] \in LogEntries
      BY <1>0, <2>1, ElementIs, Zenon
    <3> QED BY <2>1, <3>1 DEF LogEntries, Records
  <2>3. op' = [op EXCEPT !.pc = "attest", !.asked = TRUE, !.got = NoPacket, !.base = base]
    BY <1>17 DEF JoinRedeemed
  <2> HIDE DEF base
  <2>4. op' \in Operations /\ op'.pc = "attest" /\ op'.got = NoPacket
    BY <1>0, <2>2, <2>3, ZenonT(30) DEF Operations, OpStates
  <2> QED BY <1>n, <2>4, Zenon DEF OpFaithful
<1> QED BY <1>4, <1>5, <1>6, <1>8, <1>9, <1>10, <1>11, <1>12, <1>13, <1>14, <1>16, <1>17, Zenon
        DEF LocalGroupNext

-----------------------------------------------------------------------------
\* The authoritative snapshot of an answer is a faithful record.
LEMMA AdoptedFaithful ==
    ASSUME RecordInv, op.got.t = "attested", NEW base, Adoptable(base, op.got)
    PROVE  Adopted(op.got) \in Records /\ Faithful(Adopted(op.got), relayLog, me)
<1>1. /\ op.got.epoch \in 1 .. Len(relayLog) /\ relayLog \in Seq(LogEntries)
      /\ me \in relayLog[op.got.epoch].roster
  BY DEF RecordInv, RecordTypes, Truthful, Adoptable
<1>2. relayLog[op.got.epoch] \in LogEntries
  BY <1>1, ElementIs, ZenonT(30)
<1>3. relayLog[op.got.epoch].roster \in SUBSET People
  BY <1>2 DEF LogEntries
<1>4. op.got.epoch \in Nat
  BY <1>1
<1> QED BY <1>1, <1>3, <1>4, ActiveRecord, Zenon DEF Adopted

\* Every step leaves the record a state of the group.
LEMMA RecKeeps ==
    ASSUME RecordInv, LocalGroupNext
    PROVE  rec' \in Records /\ Faithful(rec', relayLog', me')
<1>0. /\ op \in Operations /\ me' = me /\ relayLog \in Seq(LogEntries) /\ relayLog' \in Seq(LogEntries)
      /\ Extends(relayLog, relayLog') /\ inbound \in Seq(Packets) /\ rec \in Records
      /\ Len(relayLog) \in Nat
  BY LogStep DEF RecordInv, RecordTypes
<1>s. QuietSteps => relayLog' = relayLog
  BY QuietLog
<1>1. CASE rec' = rec
  BY <1>0, <1>1, StillFaithful, Zenon DEF RecordInv
<1>2. CASE rec' = NoRecord
  BY <1>2, NothingHeld, Zenon
<1>3. CASE MarkDefunct
  <2>1. rec' = [rec EXCEPT !.state = "defunct"] /\ relayLog' = relayLog /\ rec.state = "active"
    BY <1>3 DEF MarkDefunct
  <2> QED BY <1>0, <2>1, DefunctRecord, Zenon DEF RecordInv
<1>4. CASE ReadEvent
  <2>1. relayLog' = relayLog
    BY <1>4, <1>s DEF QuietSteps
  <2>2. inbound # <<>> /\ Head(inbound).t = "event" /\ OnGroupEvent(Head(inbound).epoch)
    BY <1>4 DEF ReadEvent, Arrives
  <2>3. Head(inbound) = inbound[1] /\ 1 \in DOMAIN inbound
    BY <1>0, <2>2, HeadAndTail
  <2>4. Head(inbound).epoch \in 1 .. Len(relayLog)
    <3>1. Truthful(inbound[1], relayLog, me)
      BY <2>3 DEF RecordInv
    <3> QED BY <2>2, <2>3, <3>1 DEF Truthful
  <2>5. rec' = rec \/ (rec.state = "active" /\ rec' = ApplyVerifiedEvent(rec, Head(inbound).epoch))
    BY <2>2 DEF OnGroupEvent
  <2>6. ASSUME rec.state = "active", rec' = ApplyVerifiedEvent(rec, Head(inbound).epoch)
        PROVE  rec' \in Records /\ Faithful(rec', relayLog, me)
    BY <1>0, <2>4, <2>6, AppliedFaithful, Zenon DEF RecordInv
  <2> QED BY <1>0, <1>1, <2>1, <2>5, <2>6
<1>5. CASE CreateGranted
  <2>1. /\ op.got.t = "granted" /\ relayLog' = relayLog
        /\ \/ rec' = [state |-> "active", epoch |-> 1, roster |-> {me}, suspect |-> FALSE]
           \/ rec' = NoRecord
    BY <1>5 DEF CreateGranted, Resumes, Save
  <2>2. me = RecordOwner /\ Len(relayLog) > 0 /\ relayLog[1].roster = {RecordOwner}
    BY <2>1, Zenon DEF RecordInv, Truthful, Chained
  <2>3. ASSUME rec' = [state |-> "active", epoch |-> 1, roster |-> {me}, suspect |-> FALSE]
        PROVE  rec' \in Records /\ Faithful(rec', relayLog', me')
    <3>1. 1 \in Nat /\ 1 \in 1 .. Len(relayLog)
      BY <1>0, <2>2
    <3>2. {me} \in SUBSET People
      BY <2>2, Zenon DEF People
    <3> QED BY <1>0, <2>1, <2>2, <2>3, <3>1, <3>2, ActiveRecord, Zenon
  <2> QED BY <1>2, <2>1, <2>3
<1>6. ASSUME op.got.t = "attested", relayLog' = relayLog, NEW base, Adoptable(base, op.got),
             rec' = Adopted(op.got)
      PROVE  rec' \in Records /\ Faithful(rec', relayLog', me')
  BY <1>0, <1>6, AdoptedFaithful, Zenon
<1>7. CASE JoinAttested \/ JoinReattested
  <2>1. op.got.t = "attested" /\ relayLog' = relayLog
    BY <1>7, <1>s, Zenon DEF JoinAttested, JoinReattested, Resumes
  <2>2. rec' = rec \/ rec' = NoRecord \/ (Adoptable(op.base, op.got) /\ rec' = Adopted(op.got))
    BY <1>7 DEF JoinAttested, JoinReattested, Save
  <2> QED BY <1>1, <1>2, <1>6, <2>1, <2>2, Zenon
<1>8. CASE SyncAttested
  <2>1. op.pc = "sync" /\ op.got.t = "attested" /\ relayLog' = relayLog
    BY <1>8 DEF SyncAttested, Resumes
  <2>2. \/ Adoptable(op.base, op.got) /\ rec' = Adopted(op.got)
        \/ rec' = [op.base EXCEPT !.suspect = TRUE]
    BY <1>8, Zenon DEF SyncAttested
  <2>3. op.base \in Records /\ Faithful(op.base, relayLog, me) /\ op.base.state = "active"
    BY <1>0, <2>1, ZenonT(30) DEF RecordInv, OpFaithful, Operations
  <2>4. ASSUME rec' = [op.base EXCEPT !.suspect = TRUE]
        PROVE  rec' \in Records /\ Faithful(rec', relayLog', me')
    <3>0. PICK base \in Records : base = op.base
      BY <2>3
    <3>1. rec' = [base EXCEPT !.suspect = TRUE] /\ base.state = "active"
      BY <2>3, <2>4, <3>0
    <3>2. base # NoRecord
      BY <3>1 DEF NoRecord
    <3>3. /\ rec' \in Records /\ rec'.state = base.state /\ rec'.epoch = base.epoch
          /\ rec'.roster = base.roster
      BY <3>1, Zenon DEF Records
    <3> QED BY <1>0, <2>1, <2>3, <3>0, <3>2, <3>3, Zenon DEF Faithful
  <2> QED BY <1>6, <2>1, <2>2, <2>4, Zenon
<1>9. CASE SyncUnknown
  <2>1. op.pc = "sync" /\ relayLog' = relayLog
    BY <1>9 DEF SyncUnknown, Resumes
  <2>2. rec' = rec \/ rec' = [op.base EXCEPT !.state = "defunct"]
    BY <1>9, Zenon DEF SyncUnknown
  <2>3. op.base \in Records /\ Faithful(op.base, relayLog, me) /\ op.base.state = "active"
    BY <1>0, <2>1, Zenon DEF RecordInv, OpFaithful, Operations
  <2>4. ASSUME rec' = [op.base EXCEPT !.state = "defunct"]
        PROVE  rec' \in Records /\ Faithful(rec', relayLog', me')
    <3>1. /\ rec' \in Records /\ rec'.state = "defunct" /\ rec'.epoch = op.base.epoch
          /\ rec'.roster = op.base.roster /\ op.base # NoRecord
      BY <2>3, <2>4 DEF Records, NoRecord, TerminalStates
    <3> QED BY <1>0, <2>1, <2>3, <3>1, Zenon DEF Faithful
  <2> QED BY <1>1, <2>2, <2>4
<1>10. CASE Archive
  BY <1>2, <1>10, Zenon DEF Archive
<1>11. CASE \/ CreateLocalGroup \/ JoinGroup \/ SyncGroup \/ LeaveGroup \/ DissolveGroup
            \/ \E m \in Others : RemoveMember(m)
  BY <1>1, <1>11, OpStartsWell
<1>12. CASE \/ RelayAnswersAttest \/ RelayAnswersRedeem \/ RelayAnswersCreate
            \/ \E kind \in EventKinds, m \in {RecordOwner, me} \cup Others :
                  OthersCommit(kind, m) \/ RelayAsksSignature(kind, m)
            \/ RelayCommitsSigned \/ RelayDropsOp \/ RelayRestarts \/ ConnectionLost
  BY <1>1, <1>12, Zenon DEF RelayAnswersAttest, RelayAnswersRedeem, RelayAnswersCreate, OthersCommit,
                     RelayAsksSignature, RelayCommitsSigned, RelayDropsOp, RelayRestarts,
                     ConnectionLost
<1>13. CASE \/ ReadAnswer \/ ReadSignRequest \/ JoinRedeemed \/ JoinAdmitted \/ RequestSent
            \/ AfterCommitted \/ Refused \/ TimedOut
  BY <1>1, <1>13, Zenon DEF ReadAnswer, ReadSignRequest, JoinRedeemed, JoinAdmitted, RequestSent,
                     AfterCommitted, Refused, TimedOut
<1> QED BY <1>3, <1>4, <1>5, <1>7, <1>8, <1>9, <1>10, <1>11, <1>12, <1>13, ZenonT(30) DEF LocalGroupNext

\* The remaining types.
LEMMA FlagsKeep ==
    ASSUME RecordInv, LocalGroupNext
    PROVE  signing' \in {NoSigning} \cup Signings /\ bound' \in BOOLEAN /\ hosted' \in BOOLEAN
<1>0. /\ signing \in {NoSigning} \cup Signings /\ bound \in BOOLEAN /\ hosted \in BOOLEAN
      /\ Len(relayLog) \in Nat /\ me \in People
  BY DEF RecordInv, RecordTypes, People
<1>1. CASE \/ Archive \/ MarkDefunct
           \/ CreateLocalGroup \/ JoinGroup \/ SyncGroup \/ LeaveGroup \/ DissolveGroup
           \/ \E m \in Others : RemoveMember(m)
  BY <1>0, <1>1 DEF Archive, MarkDefunct, CreateLocalGroup, JoinGroup, SyncGroup, LeaveGroup,
                    DissolveGroup, RemoveMember, Starts
<1>2. CASE RelayAnswersAttest \/ RelayAnswersRedeem \/ RelayAnswersCreate
  BY <1>0, <1>2, Zenon DEF RelayAnswersAttest, RelayAnswersRedeem, RelayAnswersCreate
<1>3. CASE \E kind \in EventKinds, m \in {RecordOwner, me} \cup Others : OthersCommit(kind, m)
  BY <1>0, <1>3, Zenon DEF OthersCommit, Commit
<1>4. CASE \E kind \in EventKinds, m \in {RecordOwner, me} \cup Others : RelayAsksSignature(kind, m)
  <2>1. PICK kind \in EventKinds, m \in {RecordOwner, me} \cup Others : RelayAsksSignature(kind, m)
    BY <1>4
  <2>2. /\ signing' = [kind |-> kind, subject |-> m, epoch |-> Epoch + 1, signed |-> FALSE]
        /\ UNCHANGED <<bound, hosted>> /\ m \in People
    BY <1>0, <2>1 DEF RelayAsksSignature, People
  <2> QED BY <1>0, <2>2 DEF Signings, Epoch
<1>5. CASE RelayCommitsSigned \/ RelayDropsOp \/ RelayRestarts \/ ConnectionLost
  <2>1. signing' \in {signing, NoSigning} /\ hosted' \in {hosted, FALSE}
    BY <1>5, Zenon DEF RelayCommitsSigned, RelayDropsOp, RelayRestarts, ConnectionLost
  <2>2. bound' \in BOOLEAN
    BY <1>0, <1>5, Zenon DEF RelayCommitsSigned, Commit, RelayDropsOp, RelayRestarts, ConnectionLost
  <2> QED BY <1>0, <2>1, <2>2, Zenon
<1>6. CASE ReadEvent \/ ReadAnswer
  BY <1>0, <1>6 DEF ReadEvent, ReadAnswer, ReaderUnchanged
<1>7. CASE ReadSignRequest
  <2>1. /\ UNCHANGED <<bound, hosted>>
        /\ signing' = signing \/ (signing # NoSigning /\ signing' = [signing EXCEPT !.signed = TRUE])
    BY <1>7, Zenon DEF ReadSignRequest, ReaderUnchanged
  <2> QED BY <1>0, <2>1, Zenon DEF Signings
<1>8. CASE \/ CreateGranted \/ JoinRedeemed \/ JoinAttested \/ JoinAdmitted \/ JoinReattested
           \/ SyncAttested \/ SyncUnknown \/ RequestSent \/ AfterCommitted \/ Refused \/ TimedOut
  BY <1>0, <1>8, Zenon DEF CreateGranted, JoinRedeemed, JoinAttested, JoinAdmitted, JoinReattested,
                    SyncAttested, SyncUnknown, RequestSent, AfterCommitted, Refused, TimedOut, Resumes
<1> QED BY <1>1, <1>2, <1>3, <1>4, <1>5, <1>6, <1>7, <1>8, Zenon DEF LocalGroupNext

\* A member with no record, or with one of the group as it was created.
LEMMA RecordInvInit == LocalGroupInit => RecordInv
<1> SUFFICES ASSUME LocalGroupInit PROVE RecordInv
  BY Zenon
<1> DEFINE create == [kind |-> "create", subject |-> RecordOwner, roster |-> {RecordOwner}]
           join == [kind |-> "join", subject |-> Self, roster |-> {RecordOwner, Self}]
<1>0. create \in LogEntries /\ join \in LogEntries
  BY Zenon DEF LogEntries, LogKinds, People
<1>1. /\ me \in {RecordOwner, Self} /\ op = Idle /\ inbound = <<>> /\ hosted = TRUE /\ bound = FALSE
      /\ signing = NoSigning
  BY DEF LocalGroupInit
<1>2. \/ relayLog = <<>> /\ rec = NoRecord
      \/ relayLog = <<create>> /\ rec = NoRecord
      \/ /\ relayLog = <<create>> /\ me = RecordOwner
         /\ rec = [state |-> "active", epoch |-> 1, roster |-> {RecordOwner}, suspect |-> FALSE]
      \/ /\ relayLog = <<create, join>> /\ me = Self
         /\ rec = [state |-> "active", epoch |-> 2, roster |-> {RecordOwner, Self}, suspect |-> FALSE]
  <2>1. PICK stored \in BOOLEAN :
          /\ relayLog = (IF me = RecordOwner /\ ~stored THEN <<>> ELSE <<create>>)
                        \o (IF me = Self /\ stored THEN <<join>> ELSE <<>>)
          /\ rec = IF stored THEN [state |-> "active", epoch |-> Len(relayLog),
                                   roster |-> {RecordOwner, me}, suspect |-> FALSE]
                   ELSE NoRecord
    BY Zenon DEF LocalGroupInit
  <2>2. RecordOwner # Self
    BY LocalGroupConstants
  <2> HIDE DEF create, join
  <2>3. <<>> \o <<>> = <<>> /\ <<create>> \o <<>> = <<create>> /\ <<create>> \o <<join>> = <<create, join>>
    <3>1. <<>> \in Seq({create, join}) /\ <<create>> \in Seq({create, join})
      OBVIOUS
    <3>2. <<>> \o <<>> = <<>> /\ <<create>> \o <<>> = <<create>>
      BY <3>1
    <3>3. Append(<<create>>, join) = <<create>> \o <<join>>
      BY <3>1
    <3>4. Append(<<create>>, join) = <<create, join>>
      <4> DEFINE two == Append(<<create>>, join)
                 pair == <<create, join>>
      <4>1. pair \in Seq({create, join}) /\ Len(pair) = 2 /\ pair[1] = create /\ pair[2] = join
        OBVIOUS
      <4>2. two \in Seq({create, join}) /\ Len(two) = 2 /\ two[1] = create /\ two[2] = join
        BY <3>1, AppendedIs
      <4>3. \A i \in 1 .. 2 : i = 1 \/ i = 2
        OBVIOUS
      <4> HIDE DEF two, pair
      <4>4. two = pair
        BY <4>1, <4>2, <4>3, SameSequence, Zenon
      <4> QED BY <4>4 DEF two, pair
    <3> QED BY <3>2, <3>3, <3>4, Zenon
  <2>4. CASE ~stored
    BY <1>1, <2>1, <2>3, <2>4
  <2>5. CASE stored /\ me = RecordOwner
    <3>1. relayLog = <<create>>
      BY <2>1, <2>2, <2>3, <2>5
    <3>2. Len(relayLog) = 1 /\ {RecordOwner, me} = {RecordOwner}
      BY <2>5, <3>1
    <3> QED BY <2>1, <2>5, <3>1, <3>2, ZenonT(30)
  <2>6. CASE stored /\ me = Self
    <3>1. relayLog = <<create, join>>
      BY <2>1, <2>2, <2>3, <2>6, Zenon
    <3>2. Len(relayLog) = 2
      BY <3>1, Zenon
    <3> QED BY <2>1, <2>6, <3>1, <3>2, Zenon
  <2> QED BY <1>1, <2>4, <2>5, <2>6, Zenon
<1>3. /\ create.roster = {RecordOwner} /\ join.kind = "join" /\ join.subject = Self
      /\ join.roster = {RecordOwner, Self} /\ RecordOwner \in People /\ Self \in People
  BY Zenon DEF People
<1> HIDE DEF create, join
<1>4. relayLog \in Seq(LogEntries) /\ Chained(relayLog)
  <2>1. CASE relayLog = <<>>
    BY <2>1 DEF Chained
  <2>2. CASE relayLog = <<create>>
    <3>1. Len(relayLog) = 1 /\ relayLog[1] = create /\ relayLog \in Seq(LogEntries)
      BY <1>0, <2>2
    <3>2. 1 .. Len(relayLog) - 1 = {}
      BY <3>1
    <3> QED BY <1>3, <3>1, <3>2, Zenon DEF Chained
  <2>3. CASE relayLog = <<create, join>>
    <3>1. Len(relayLog) = 2 /\ relayLog[1] = create /\ relayLog[2] = join /\ relayLog \in Seq(LogEntries)
      BY <1>0, <2>3
    <3>2. join.roster = RosterAfter(create.roster, join.kind, join.subject)
      BY <1>3 DEF RosterAfter
    <3>3. \A i \in 1 .. Len(relayLog) - 1 : i = 1
      BY <3>1
    <3>4. join.kind # "create"
      BY <1>3, Zenon
    <3>5. Len(relayLog) > 0 => relayLog[1].roster = {RecordOwner}
      BY <1>3, <3>1, Zenon
    <3>6. relayLog[1 + 1] = join
      BY <3>1
    <3> QED BY <3>1, <3>2, <3>3, <3>4, <3>5, <3>6 DEF Chained
  <2> QED BY <1>2, <2>1, <2>2, <2>3, Zenon
<1>5. rec \in Records /\ Faithful(rec, relayLog, me)
  <2>1. CASE rec = NoRecord
    BY <2>1, NothingHeld, Zenon
  <2>2. CASE /\ relayLog = <<create>> /\ me = RecordOwner
             /\ rec = [state |-> "active", epoch |-> 1, roster |-> {RecordOwner}, suspect |-> FALSE]
    <3>1. Len(relayLog) = 1 /\ relayLog[1] = create
      BY <2>2, Zenon
    <3> QED BY <1>3, <2>2, <3>1 DEF Records, Faithful
  <2>3. CASE /\ relayLog = <<create, join>> /\ me = Self
             /\ rec = [state |-> "active", epoch |-> 2, roster |-> {RecordOwner, Self}, suspect |-> FALSE]
    <3>1. Len(relayLog) = 2 /\ relayLog[2] = join
      BY <2>3, Zenon
    <3> QED BY <1>3, <2>3, <3>1 DEF Records, Faithful
  <2> QED BY <1>2, <2>1, <2>2, <2>3, Zenon
<1>6. Truthful(op.got, relayLog, me) /\ OpFaithful
  BY <1>1, NothingHeld, Zenon DEF OpFaithful
<1>7. RecordTypes
  <2>1. inbound \in Seq(Packets) /\ op \in Operations
    BY <1>1, NothingHeld
  <2>2. hosted \in BOOLEAN /\ bound \in BOOLEAN
    BY <1>1, Zenon
  <2> QED BY <1>1, <1>4, <1>5, <2>1, <2>2, Zenon DEF RecordTypes
<1> QED BY <1>1, <1>4, <1>5, <1>6, <1>7 DEF RecordInv

\* Every step keeps the invariant.
LEMMA RecordInvStep == RecordInv /\ [LocalGroupNext]_lgvars => RecordInv'
<1>1. ASSUME RecordInv, LocalGroupNext PROVE RecordInv'
  <2>1. RecordTypes'
    BY <1>1, LogStep, InboundKeeps, OpKeeps, RecKeeps, FlagsKeep, Zenon DEF RecordInv, RecordTypes
  <2> QED BY <1>1, <2>1, LogStep, InboundKeeps, OpKeeps, RecKeeps, Zenon DEF RecordInv
<1>2. ASSUME RecordInv, UNCHANGED lgvars PROVE RecordInv'
  BY <1>2, ZenonT(30) DEF lgvars, RecordInv, RecordTypes, OpFaithful
<1> QED BY <1>1, <1>2, Zenon

\* The stored record of a group is always a state the group really went
\* through, however events, answers, restarts and operations interleave
\* (lifecycle.py), for any members and any number of epochs.
THEOREM RecordStaysFaithful == LocalGroupSpec => []RecordFaithful
<1>1. RecordInv => RecordFaithful
  BY Zenon DEF RecordInv, Faithful, RecordFaithful, Epoch
<1>2. LocalGroupSpec => []RecordInv
  BY RecordInvInit, RecordInvStep, PTL DEF LocalGroupSpec
<1> QED BY <1>1, <1>2, PTL

-----------------------------------------------------------------------------
(***************************************************************************)
(* "Exactly one in-flight resync per group", for any number of groups and  *)
(* frames, as long as the service is attached once.  attach() discards the *)
(* leases of resyncs that are still running, so that the assumption cannot *)
(* be dropped: a second attachment gives TLC a counterexample.             *)
(*                                                                         *)
(* The invariant ties the two sides of a lease together: a running resync  *)
(* holds the lease of its group, and a lease is held by one that runs.     *)
(***************************************************************************)

Tasks == [group : ResyncGroups, at : {"scheduled", "running"}, id : Nat]

LeaseInv ==
    /\ attaches \in Nat /\ attaches <= MaxAttaches /\ frames \in Nat
    /\ resyncs \subseteq Tasks /\ inFlight \subseteq ResyncGroups
    /\ attaches = 0 => resyncs = {} /\ inFlight = {}
    /\ \A t \in resyncs : t.at = "running" => t.group \in inFlight
    /\ \A g \in inFlight : \E t \in resyncs : t.at = "running" /\ t.group = g
    /\ \A t, u \in resyncs :
          t.at = "running" /\ u.at = "running" /\ t.group = u.group => t = u

\* The start of a resync keeps the lease with one task (begin, _resync).
LEMMA StartsKeeps ==
    ASSUME LeaseInv, NEW task \in resyncs, ResyncStarts(task)
    PROVE  LeaseInv'
<1>0. /\ task \in Tasks /\ task.at = "scheduled" /\ task.group \in ResyncGroups
      /\ attaches' = attaches /\ frames' = frames /\ attaches # 0
  BY DEF ResyncStarts, LeaseInv, Tasks
<1>1. CASE resyncs' = resyncs \ {task} /\ inFlight' = inFlight
  BY <1>0, <1>1 DEF LeaseInv
<1>2. CASE /\ task.group \notin inFlight /\ inFlight' = inFlight \cup {task.group}
           /\ resyncs' = (resyncs \ {task}) \cup {[task EXCEPT !.at = "running"]}
  <2> DEFINE new == [task EXCEPT !.at = "running"]
  <2>1. new \in Tasks /\ new.at = "running" /\ new.group = task.group
    BY <1>0 DEF Tasks
  <2>2. \A t \in resyncs : t.at = "running" => t.group # task.group
    BY <1>2 DEF LeaseInv
  <2>3. resyncs' = (resyncs \ {task}) \cup {new}
    BY <1>2
  <2> HIDE DEF new
  <2> QED BY <1>0, <1>2, <2>1, <2>2, <2>3 DEF LeaseInv
<1> QED BY <1>1, <1>2 DEF ResyncStarts, Finished

\* The end of a resync releases the lease it held (release).
LEMMA EndsKeeps ==
    ASSUME LeaseInv, NEW task \in resyncs, ResyncEnds(task)
    PROVE  LeaseInv'
<1>1. /\ task.at = "running" /\ resyncs' = resyncs \ {task}
      /\ inFlight' = inFlight \ {task.group} /\ attaches' = attaches /\ frames' = frames
  BY DEF ResyncEnds, Finished
<1>2. \A t \in resyncs' : t.at = "running" => t.group # task.group
  BY <1>1 DEF LeaseInv
<1> QED BY <1>1, <1>2 DEF LeaseInv

\* A frame of a newer epoch schedules a task at most (_trigger_resync).
LEMMA FrameKeeps ==
    ASSUME LeaseInv, NEW g \in ResyncGroups, NewerEpochFrame(g)
    PROVE  LeaseInv'
<1>1. /\ attaches > 0 /\ frames' = frames + 1 /\ inFlight' = inFlight /\ attaches' = attaches
      /\ resyncs' = resyncs \/ resyncs' = resyncs \cup {NewTask(g)}
  BY DEF NewerEpochFrame, TriggerResync
<1>2. NewTask(g) \in Tasks /\ NewTask(g).at = "scheduled" /\ frames + 1 \in Nat
  BY DEF NewTask, Tasks, LeaseInv
<1>3. attaches # 0
  BY <1>1 DEF LeaseInv
<1> QED BY <1>1, <1>2, <1>3 DEF LeaseInv

\* The inductive step; attach() is the only step that needs the assumption.
LEMMA LeaseInvStep ==
    ASSUME MaxAttaches <= 1, LeaseInv, [ResyncNext]_rsvars
    PROVE  LeaseInv'
<1>1. CASE AttachService
  <2>1. /\ attaches = 0 /\ attaches' = attaches + 1 /\ attaches' <= MaxAttaches
        /\ inFlight' = {} /\ resyncs' = resyncs /\ frames' = frames
    BY <1>1, ResyncConstants DEF AttachService, LeaseInv
  <2>2. resyncs = {}
    BY <2>1 DEF LeaseInv
  <2> QED BY <2>1, <2>2 DEF LeaseInv
<1>2. CASE CloseService
  BY <1>2 DEF CloseService, LeaseInv
<1>3. ASSUME NEW g \in ResyncGroups, IntervalPasses(g) PROVE LeaseInv'
  BY <1>3 DEF IntervalPasses, LeaseInv
<1>4. CASE UNCHANGED rsvars
  BY <1>4 DEF rsvars, LeaseInv
<1> QED BY <1>1, <1>2, <1>3, <1>4, FrameKeeps, StartsKeeps, EndsKeeps DEF ResyncNext

\* Before the first attach nothing runs and nothing is leased.
LEMMA LeaseInvInit == ResyncInit => LeaseInv
BY ResyncConstants DEF ResyncInit, LeaseInv

\* The invariant is what OneResync says.
LEMMA LeasesAreSingle ==
    ASSUME LeaseInv
    PROVE  OneResync
BY DEF LeaseInv, Running, OneResync

\* While the service stays attached to one session, a group has at most one
\* resync in flight and a lease is held exactly while one runs, so that no
\* group is locked out of recovery (_trigger_resync, begin, release).
THEOREM OneResyncPerAttach ==
    ASSUME MaxAttaches <= 1
    PROVE  ResyncSpec => []OneResync
<1>1. LeaseInv /\ [ResyncNext]_rsvars => LeaseInv'
  BY LeaseInvStep
<1>2. LeaseInv => OneResync
  BY LeasesAreSingle
<1> QED BY <1>1, <1>2, LeaseInvInit, PTL DEF ResyncSpec

-----------------------------------------------------------------------------
(* What a member knows of a group. *)

\* The stored record is one the relay issued (group_store.py), and one
\* refresh of a group runs at a time (GroupResync); the two interfere in
\* nothing.
THEOREM MemberStaysSafe ==
    ASSUME MaxAttaches <= 1
    PROVE  LocalGroupSpec /\ ResyncSpec => []MemberSafe
<1>1. ResyncSpec => []OneResync
  BY OneResyncPerAttach
<1>2. RecordFaithful /\ OneResync => MemberSafe
  BY DEF MemberSafe
<1> QED BY <1>1, <1>2, RecordStaysFaithful, PTL
=============================================================================
