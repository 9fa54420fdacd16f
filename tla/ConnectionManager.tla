------------------------- MODULE ConnectionManager -------------------------
(***************************************************************************)
(* One logical connection over successive transports                       *)
(* (ghostlink/transport/connection.py, with the transport states of        *)
(* ghostlink/transport/websocket/transport.py).                            *)
(*                                                                         *)
(* Four kinds of tasks share the manager: its caller, which runs open,     *)
(* reconnect and close one after the other; the reader of each transport;  *)
(* the recovery loop a reader starts; and the heartbeat, which closes the  *)
(* transport.  Each action is one stretch of a task between two awaits.    *)
(* task.cancel() is final for the task: the next thing it does is raise.   *)
(* What the two sides agree on over the connection is KeyExchange's.       *)
(***************************************************************************)
EXTENDS Naturals, FiniteSets

CONSTANTS
    Attempts,      \* ReconnectPolicy.attempts
    MaxTransports  \* bound on the transports that are dialled

ASSUME ManagerConstants == Attempts \in Nat /\ MaxTransports \in Nat

Transports == 1..MaxTransports
NoTransport == 0
States == {"connecting", "connected", "reconnecting", "disconnected", "closed"}

VARIABLES
    state,     \* _state
    current,   \* _transport
    wire,      \* each transport: see Wires
    reader,    \* the reader task of each transport
    loop,      \* the recovery loops: the supervised one and reconnect()'s own
    caller,    \* where the caller is
    dialling,  \* the transport of the caller's open
    closeRequested,
    closedEvent

connVars == <<state, current, wire, reader, loop, caller, dialling,
          closeRequested, closedEvent>>

\* "lost": the peer is gone, and the transport's state is still OPEN.
Wires == {"none", "open", "lost", "closed"}
ReaderPcs == {"none", "reading", "closing", "done"}
LoopPcs == {"none", "start", "sleep", "handshake", "callback"}
CallerPcs == {"idle", "dial", "handshake", "callback", "failing", "cancelled",
              "reconnect", "detach", "closing", "done"}

ConnectionTypeOK ==
    /\ state \in States
    /\ current \in Transports \cup {NoTransport}
    /\ wire \in [Transports -> Wires]
    /\ reader \in [Transports -> ReaderPcs]
    /\ loop \in [{"auto", "manual"} -> [pc : LoopPcs, attempt : 0..Attempts,
                                        transport : 0..MaxTransports]]
    /\ caller \in CallerPcs
    /\ dialling \in Transports \cup {NoTransport}
    /\ closeRequested \in BOOLEAN /\ closedEvent \in BOOLEAN

NoLoop == [pc |-> "none", attempt |-> 0, transport |-> NoTransport]

ConnectionInit ==
    /\ state = "disconnected"
    /\ current = NoTransport
    /\ wire = [t \in Transports |-> "none"]
    /\ reader = [t \in Transports |-> "none"]
    /\ loop = [k \in {"auto", "manual"} |-> NoLoop]
    /\ caller = "idle"
    /\ dialling = NoTransport
    /\ closeRequested = FALSE
    /\ closedEvent = FALSE

\* _ALLOWED_TRANSITIONS.  TIMED_OUT is left at once and is not a state here.
Allowed ==
    [connecting   |-> {"connected", "disconnected", "closed"},
     connected    |-> {"reconnecting", "disconnected", "closed"},
     reconnecting |-> {"connected", "disconnected", "closed"},
     disconnected |-> {"connecting", "reconnecting", "closed"},
     closed       |-> {}]

\* _transition; where it would raise, LegalMoves is violated.
Transition(s) ==
    /\ s \in Allowed[state]
    /\ state' = s

\* A transport that _transport_factory has not made yet.
Fresh(t) == wire[t] = "none" /\ \A u \in Transports : u < t => wire[u] # "none"

\* wire after transport.close() on t, if its state is OPEN.
Shut(t) ==
    [u \in Transports |->
        IF u = t /\ wire[u] \in {"open", "lost"} THEN "closed" ELSE wire[u]]

Reading == {t \in Transports : reader[t] \in {"reading", "closing"}}
Cancelled(S) == [t \in Transports |-> IF t \in S THEN "done" ELSE reader[t]]
Live(k) == loop[k].pc # "none"

-----------------------------------------------------------------------------
(* open *)

\* The relay client calls connect until it succeeds, and never again.
Open ==
    /\ caller = "idle" /\ state = "disconnected"
    /\ \A t \in Transports : reader[t] = "none"
    /\ Transition("connecting")
    /\ caller' = "dial"
    /\ closeRequested' = FALSE /\ closedEvent' = FALSE
    /\ UNCHANGED <<current, wire, reader, loop, dialling>>

OpenDialled ==
    /\ caller = "dial"
    /\ \E t \in Transports :
          /\ Fresh(t)
          /\ wire' = [wire EXCEPT ![t] = "open"]
          /\ dialling' = t
    /\ caller' = "handshake"
    /\ UNCHANGED <<state, current, reader, loop, closeRequested, closedEvent>>

\* transport.open() fails or times out; there is nothing to close.
OpenDialFails ==
    /\ caller = "dial"
    /\ caller' = "failing"
    /\ UNCHANGED <<state, current, wire, reader, loop, dialling, closeRequested,
                   closedEvent>>

OpenHandshakeFails ==
    /\ caller = "handshake"
    /\ wire' = Shut(dialling)
    /\ caller' = "failing"
    /\ UNCHANGED <<state, current, reader, loop, dialling, closeRequested,
                   closedEvent>>

OpenFails ==
    /\ caller = "failing"
    /\ Transition("disconnected")
    /\ closedEvent' = TRUE
    /\ caller' = "idle"
    /\ UNCHANGED <<current, wire, reader, loop, dialling, closeRequested>>

OpenHandshakeDone ==
    /\ caller = "handshake"
    /\ wire[dialling] # "closed"
    /\ current' = dialling
    /\ Transition("connected")
    /\ caller' = "callback"
    /\ UNCHANGED <<wire, reader, loop, dialling, closeRequested, closedEvent>>

\* on_connected has returned: the reader is started.
OpenReturns ==
    /\ caller = "callback"
    /\ reader' = [reader EXCEPT ![current] = "reading"]
    /\ caller' = "idle"
    /\ UNCHANGED <<state, current, wire, loop, dialling, closeRequested,
                   closedEvent>>

\* on_connected could not write to the transport; its exception leaves open.
OpenCallbackFails ==
    /\ caller = "callback"
    /\ wire[current] # "open"
    /\ caller' = "idle"
    /\ UNCHANGED <<state, current, wire, reader, loop, dialling, closeRequested,
                   closedEvent>>

\* The caller is cancelled; CancelledError passes open's handlers by.
OpenCancelled ==
    /\ caller \in {"dial", "handshake", "callback", "failing"}
    /\ caller' = "cancelled"
    /\ UNCHANGED <<state, current, wire, reader, loop, dialling, closeRequested,
                   closedEvent>>

-----------------------------------------------------------------------------
(* The reader, and what it does when the transport fails. *)

\* _handle_unexpected_close after its await.
Unexpected ==
    IF Attempts > 0 /\ ~closeRequested
    THEN /\ state' = IF state = "connected" THEN "disconnected" ELSE state
         /\ loop' = [loop EXCEPT !["auto"] = [NoLoop EXCEPT !.pc = "start"]]
         /\ UNCHANGED closedEvent
    ELSE /\ state' = IF state \in {"connected", "disconnected"} THEN "closed" ELSE state
         /\ closedEvent' = TRUE
         /\ UNCHANGED loop

\* receive finds the end of the stream; the transport is CLOSED by then.
ReadEnd(t) ==
    /\ reader[t] = "reading"
    /\ wire[t] \in {"lost", "closed"}
    /\ wire' = [wire EXCEPT ![t] = "closed"]
    /\ reader' = [reader EXCEPT ![t] = "done"]
    /\ IF closeRequested THEN UNCHANGED <<state, loop, closedEvent>> ELSE Unexpected
    /\ UNCHANGED <<current, caller, dialling, closeRequested>>

\* receive or on_bytes raises while the transport is OPEN: close is awaited.
ReadError(t) ==
    /\ reader[t] = "reading"
    /\ wire[t] \in {"open", "lost"}
    /\ IF closeRequested
       THEN reader' = [reader EXCEPT ![t] = "done"] /\ UNCHANGED wire
       ELSE reader' = [reader EXCEPT ![t] = "closing"] /\ wire' = Shut(current)
    /\ UNCHANGED <<state, current, loop, caller, dialling, closeRequested,
                   closedEvent>>

ReadErrorClosed(t) ==
    /\ reader[t] = "closing"
    /\ reader' = [reader EXCEPT ![t] = "done"]
    /\ Unexpected
    /\ UNCHANGED <<current, wire, caller, dialling, closeRequested>>

\* The heartbeat gives up on the transport (_close_transport_for_recovery), or
\* the peer is gone.
HeartbeatCloses ==
    /\ current # NoTransport
    /\ wire[current] \in {"open", "lost"}
    /\ wire' = Shut(current)
    /\ UNCHANGED <<state, current, reader, loop, caller, dialling,
                   closeRequested, closedEvent>>

PeerGone(t) ==
    /\ wire[t] = "open"
    /\ wire' = [wire EXCEPT ![t] = "lost"]
    /\ UNCHANGED <<state, current, reader, loop, caller, dialling,
                   closeRequested, closedEvent>>

-----------------------------------------------------------------------------
(* _reconnect_loop, as the supervised task and inside reconnect(). *)

\* The next attempt, or none when close was requested or all are used up.
NextAttempt(k) ==
    LET n == loop[k].attempt + 1
    IN  IF closeRequested \/ n > Attempts THEN NoLoop
        ELSE [pc |-> "sleep", attempt |-> n, transport |-> NoTransport]

\* MUTANT: the waiters are woken, but the state is not left.
GiveUpQuietly(k) ==
    /\ closedEvent' = (closedEvent \/ loop[k].attempt = Attempts)
    /\ UNCHANGED state

\* After the last attempt the connection is given up.
GiveUp(k) ==
    IF loop[k].attempt = Attempts
    THEN /\ state' = IF state = "reconnecting" THEN "closed" ELSE state
         /\ closedEvent' = TRUE
    ELSE UNCHANGED <<state, closedEvent>>

\* The caller of reconnect waits for its own loop.
Resume(k, ended) == caller' = IF k = "manual" /\ ended THEN "idle" ELSE caller

LoopStart(k) ==
    /\ loop[k].pc = "start"
    /\ Transition("reconnecting")
    /\ loop' = [loop EXCEPT ![k] = NextAttempt(k)]
    /\ Resume(k, closeRequested)
    /\ UNCHANGED <<current, wire, reader, dialling, closeRequested, closedEvent>>

LoopDialled(k) ==
    /\ loop[k].pc = "sleep"
    /\ \E t \in Transports :
          /\ Fresh(t)
          /\ wire' = [wire EXCEPT ![t] = "open"]
          /\ loop' = [loop EXCEPT ![k] = [pc |-> "handshake", attempt |-> @.attempt, transport |-> t]]
    /\ UNCHANGED <<state, current, reader, caller, dialling, closeRequested,
                   closedEvent>>

\* The dial or the handshake fails.  The transport is not closed; it is CLOSED
\* only if receive has met the end of its stream.
LoopAttemptFails(k) ==
    /\ loop[k].pc \in {"sleep", "handshake"}
    /\ wire' = [t \in Transports |->
                  IF t = loop[k].transport /\ wire[t] = "lost" THEN "closed"
                  ELSE wire[t]]
    /\ loop' = [loop EXCEPT ![k] = NextAttempt(k)]
    /\ GiveUp(k)
    /\ Resume(k, NextAttempt(k) = NoLoop)
    /\ UNCHANGED <<current, reader, dialling, closeRequested>>

LoopConnected(k) ==
    /\ loop[k].pc = "handshake"
    /\ current' = loop[k].transport
    /\ Transition("connected")
    /\ loop' = [loop EXCEPT ![k].pc = "callback"]
    /\ UNCHANGED <<wire, reader, caller, dialling, closeRequested, closedEvent>>

\* MUTANT: no reader for the recovered connection.
LoopReturnsNoReader(k) ==
    /\ loop[k].pc = "callback"
    /\ loop' = [loop EXCEPT ![k] = NoLoop]
    /\ Resume(k, TRUE)
    /\ UNCHANGED <<state, current, wire, reader, dialling, closeRequested,
                   closedEvent>>

LoopReturns(k) ==
    /\ loop[k].pc = "callback"
    /\ reader' = [reader EXCEPT ![current] = "reading"]
    /\ loop' = [loop EXCEPT ![k] = NoLoop]
    /\ Resume(k, TRUE)
    /\ UNCHANGED <<state, current, wire, dialling, closeRequested, closedEvent>>

\* on_connected could not write: the loop ends with its exception.
LoopCallbackFails(k) ==
    /\ loop[k].pc = "callback"
    /\ wire[current] # "open"
    /\ loop' = [loop EXCEPT ![k] = NoLoop]
    /\ Resume(k, TRUE)
    /\ UNCHANGED <<state, current, wire, reader, dialling, closeRequested,
                   closedEvent>>

-----------------------------------------------------------------------------
(* reconnect and close *)

\* MUTANT: the reader is not cancelled.
ReconnectKeepReader ==
    /\ caller = "idle"
    /\ state = "connected" \/ (state = "disconnected" /\ closedEvent)
    /\ Attempts > 0 /\ ~Live("auto")
    /\ current' = NoTransport
    /\ wire' = Shut(current)
    /\ caller' = "reconnect"
    /\ UNCHANGED <<state, reader, loop, dialling, closeRequested, closedEvent>>

\* reconnect detaches the transport and its reader, and waits for both.  It is
\* not called before the first open, which alone sets handshake and callback.
Reconnect ==
    /\ caller = "idle"
    /\ state = "connected" \/ (state = "disconnected" /\ closedEvent)
    /\ Attempts > 0 /\ ~Live("auto")
    /\ reader' = Cancelled(Reading)
    /\ current' = NoTransport
    /\ wire' = Shut(current)
    /\ caller' = "reconnect"
    /\ UNCHANGED <<state, loop, dialling, closeRequested, closedEvent>>

\* It goes on into the loop, in the same task and without another await.
ReconnectGoesOn ==
    /\ caller = "reconnect" /\ ~Live("manual")
    /\ state \in {"connected", "disconnected"}
    /\ state' = "reconnecting"
    /\ loop' = [loop EXCEPT !["manual"] = NextAttempt("manual")]
    /\ Resume("manual", closeRequested)
    /\ UNCHANGED <<current, wire, reader, dialling, closeRequested, closedEvent>>

ReconnectCancelled ==
    /\ caller = "reconnect"
    /\ loop' = [loop EXCEPT !["manual"] = NoLoop]
    /\ caller' = "cancelled"
    /\ UNCHANGED <<state, current, wire, reader, dialling, closeRequested,
                   closedEvent>>

\* MUTANT: the recovery loop is not cancelled.
CloseKeepLoop ==
    /\ caller \in {"idle", "cancelled"} /\ state # "closed"
    /\ Live("auto")
    /\ closeRequested' = TRUE
    /\ caller' = "detach"
    /\ UNCHANGED <<state, current, wire, reader, loop, dialling, closedEvent>>

\* close cancels the supervised loop and waits for it,
CloseCancelsLoop ==
    /\ caller \in {"idle", "cancelled"} /\ state # "closed"
    /\ Live("auto")
    /\ closeRequested' = TRUE
    /\ loop' = [loop EXCEPT !["auto"] = NoLoop]
    /\ caller' = "detach"
    /\ UNCHANGED <<state, current, wire, reader, dialling, closedEvent>>

\* MUTANT: the reader is left running.
CloseDetachesKeepReader ==
    /\ \/ caller = "detach"
       \/ caller \in {"idle", "cancelled"} /\ state # "closed" /\ ~Live("auto")
    /\ closeRequested' = TRUE
    /\ current' = NoTransport
    /\ wire' = Shut(current)
    /\ caller' = "closing"
    /\ UNCHANGED <<state, reader, loop, dialling, closedEvent>>

\* then cancels the reader and closes the transport,
CloseDetaches ==
    /\ \/ caller = "detach"
       \/ caller \in {"idle", "cancelled"} /\ state # "closed" /\ ~Live("auto")
    /\ closeRequested' = TRUE
    /\ reader' = Cancelled(Reading)
    /\ current' = NoTransport
    /\ wire' = Shut(current)
    /\ caller' = "closing"
    /\ UNCHANGED <<state, loop, dialling, closedEvent>>

\* MUTANT: an unfinished recovery is not left.
CloseFinishesSettled ==
    /\ caller = "closing"
    /\ state \notin {"closed", "reconnecting"}
    /\ state' = "closed"
    /\ closedEvent' = TRUE
    /\ caller' = "done"
    /\ UNCHANGED <<current, wire, reader, loop, dialling, closeRequested>>

\* and travels through DISCONNECTED into CLOSED.
CloseFinishes ==
    /\ caller = "closing"
    /\ state # "closed"
    /\ state' = "closed"
    /\ closedEvent' = TRUE
    /\ caller' = "done"
    /\ UNCHANGED <<current, wire, reader, loop, dialling, closeRequested>>

ConnectionNext ==
    \/ Open \/ OpenDialled \/ OpenDialFails \/ OpenHandshakeFails \/ OpenFails
    \/ OpenHandshakeDone \/ OpenReturns \/ OpenCallbackFails \/ OpenCancelled
    \/ Reconnect \/ ReconnectGoesOn \/ ReconnectCancelled
    \/ CloseCancelsLoop \/ CloseDetaches \/ CloseFinishes
    \/ HeartbeatCloses
    \/ \E t \in Transports :
          PeerGone(t) \/ ReadEnd(t) \/ ReadError(t) \/ ReadErrorClosed(t)
    \/ \E k \in {"auto", "manual"} :
          \/ LoopStart(k) \/ LoopDialled(k) \/ LoopAttemptFails(k)
          \/ LoopConnected(k) \/ LoopReturns(k) \/ LoopCallbackFails(k)

ConnectionSpec == ConnectionInit /\ [][ConnectionNext]_connVars

\* The event loop resumes some task whose await is over, every dial and
\* handshake has a deadline, and whoever cancels an open or a reconnect closes
\* the connection.  The choice between success and failure is the network's.
ConnectionSystem ==
    \/ OpenDialled \/ OpenDialFails \/ OpenHandshakeDone \/ OpenHandshakeFails
    \/ OpenFails \/ OpenReturns \/ OpenCallbackFails \/ ReconnectGoesOn
    \/ caller \in {"cancelled", "detach"} /\ (CloseCancelsLoop \/ CloseDetaches)
    \/ CloseFinishes
    \/ \E t \in Transports : ReadEnd(t) \/ ReadErrorClosed(t)
    \/ \E k \in {"auto", "manual"} :
          \/ LoopStart(k) \/ LoopDialled(k) \/ LoopAttemptFails(k)
          \/ LoopConnected(k) \/ LoopReturns(k) \/ LoopCallbackFails(k)

ConnectionFairSpec == ConnectionSpec /\ WF_connVars(ConnectionSystem)

-----------------------------------------------------------------------------
(* Properties. *)

\* No task ever attempts a transition that _transition refuses: whatever the
\* others did during its awaits, the state is the one its next move needs
\* ("This is a defect in the connection manager").
LegalMoves ==
    /\ caller \in {"dial", "handshake", "failing"} => state = "connecting"
    /\ caller = "reconnect" /\ ~Live("manual") => state \in {"connected", "disconnected"}
    /\ caller = "closing" => state # "closed"
    /\ \A k \in {"auto", "manual"} :
          /\ loop[k].pc = "start" => state = "disconnected"
          /\ loop[k].pc \in {"sleep", "handshake"} => state = "reconnecting"

\* The tasks that drive the connection: the caller's open, the readers and the
\* recovery loops.
Drivers ==
    {<<"reader", t>> : t \in Reading}
      \cup {<<"loop", k>> : k \in {k \in {"auto", "manual"} : Live(k)}}
      \cup {<<"caller", c>> : c \in {caller} \cap {"dial", "handshake", "callback", "failing"}}

\* One task at a time drives the connection.  A reader that starts a recovery
\* during a manual reconnect, or two readers after one, would be two drivers.
OneDriver == \A d, e \in Drivers : d = e

\* A connection that reports CONNECTED over an open transport has a reader of
\* that very transport, or is about to get one, or is being closed.
Attended ==
    state = "connected" /\ current # NoTransport /\ wire[current] = "open" =>
        \/ reader[current] = "reading"
        \/ caller \in {"callback", "cancelled", "detach"}
        \/ \E k \in {"auto", "manual"} : loop[k].pc = "callback"

\* CLOSED means stopped: no reader and no recovery loop is left that could
\* still deliver bytes or bring the connection back, and the transport is shut.
ClosedIsQuiet ==
    state = "closed" =>
        /\ Reading = {}
        /\ ~Live("auto") /\ ~Live("manual")
        /\ current = NoTransport \/ wire[current] = "closed"

\* One task drives the connection at a time, along the moves the state machine
\* allows; CONNECTED is attended and CLOSED is quiet (connection.py).
ConnectionSafe == LegalMoves /\ OneDriver /\ Attended /\ ClosedIsQuiet

\* close ends in CLOSED, whatever it interrupts.
CloseCompletes == caller \in {"detach", "closing"} ~> state = "closed"

\* A recovery ends: the connection is back or given up.
RecoveryEnds ==
    (state = "reconnecting" \/ Live("auto")) ~> state \in {"connected", "closed"}

\* Nothing hangs: every close and every recovery comes to its end (close,
\* _reconnect_loop).
ConnectionLive == CloseCompletes /\ RecoveryEnds

\* The transports of one connection follow one another ("owns one *logical*
\* connection across successive physical transports", docs/ARCHITECTURE.md):
\* at most one is open.
OneTransport == Cardinality({t \in Transports : wire[t] \in {"open", "lost"}}) <= 1

\* A dropped connection is restarted or given up ("restarts dropped connections
\* with exponential backoff", the module's docstring): it does not stay
\* CONNECTED over a dead transport.
LossNoticed ==
    \A t \in Transports :
        (state = "connected" /\ current = t /\ wire[t] # "open") ~>
            ~(state = "connected" /\ current = t)

\* wait_closed returns only when the connection is CLOSED ("Wait until the
\* connection reaches CLOSED").
WaitClosedMeansClosed == closedEvent => state = "closed"

=============================================================================
