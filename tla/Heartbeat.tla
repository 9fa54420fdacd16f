------------------------------ MODULE Heartbeat ------------------------------
(* HeartbeatMonitor (transport/heartbeat.py) and the glue that RelayClient    *)
(* puts around it: one monitor for the life of the client, started by every   *)
(* (re)connection, whose alarm closes the current transport.  Time is         *)
(* relative: every pending ping carries its age, so that the model has no     *)
(* last moment.  The event loop runs a tick when it is due; a pong may take   *)
(* any time, and the peer may fall silent without the connection failing.     *)
EXTENDS Naturals, FiniteSets

CONSTANTS Interval,      \* heartbeat_interval_seconds, in units of time
          Timeout,       \* heartbeat_timeout_seconds
          MissedLimit,   \* MISSED_PING_LIMIT
          MaxLinks       \* bound: connections dialled

ASSUME HeartbeatConstants ==
    /\ {Interval, MissedLimit, MaxLinks} \subseteq Nat \ {0}
    /\ Timeout \in Nat

VARIABLES
    hbRunning,   \* the loop task exists
    hbTick,      \* "wait", or "ping" between the two halves of a tick
    hbSince,     \* time since the last tick
    hbPending,   \* _pending_pings: the nonces awaited, with age and connection
    hbStreak,    \* stats.missed_streak
    hbAlarm,     \* on_missed was called, _close_transport_for_recovery not run
    hbLink,      \* the number of the connection in use, 0 for none
    hbDialled,   \* connections made so far
    hbSilent,    \* how long the peer has not answered, 0 while it answers
    hbPings,     \* pings on their way, as <<nonce, connection>>
    hbPongs,     \* pongs on their way
    hbMissed,    \* reaps that found an expired ping since the last pong
    hbGuilty     \* the connection in use has itself missed a ping

hbvars == <<hbRunning, hbTick, hbSince, hbPending, hbStreak, hbAlarm, hbLink,
            hbDialled, hbSilent, hbPings, hbPongs, hbMissed, hbGuilty>>

wirevars == <<hbLink, hbDialled, hbSilent, hbPings, hbPongs>>

HeartbeatInit ==
    /\ hbRunning = FALSE /\ hbTick = "wait" /\ hbSince = Interval
    /\ hbPending = {} /\ hbStreak = 0 /\ hbAlarm = FALSE
    /\ hbLink = 0 /\ hbDialled = 0 /\ hbSilent = 0
    /\ hbPings = {} /\ hbPongs = {} /\ hbMissed = 0 /\ hbGuilty = FALSE

(* The longest a silent peer can go unnoticed: the next ping, the ticks until *)
(* it counts as expired, and a tick for each further miss.  It caps the clock *)
(* of the silence just beyond, so a longer one is still seen.                 *)
NoticeBound == 1 + Interval * (MissedLimit + Timeout \div Interval + 1)

(* A connection is made: start() is idempotent and runs the first tick at     *)
(* once; it clears neither the pending pings nor the streak of the connection *)
(* before (connect, _post_connected).                                         *)
Connect ==
    /\ hbLink = 0 /\ hbDialled < MaxLinks /\ ~hbAlarm
    /\ hbGuilty' = FALSE
    /\ hbDialled' = hbDialled + 1 /\ hbLink' = hbDialled + 1
    /\ hbSilent' = 0
    /\ hbRunning' = TRUE
    /\ hbSince' = IF hbRunning THEN hbSince ELSE Interval
    /\ UNCHANGED <<hbTick, hbPending, hbStreak, hbAlarm, hbPings, hbPongs, hbMissed>>

(* The connection fails under the client; what was on its way is lost.        *)
Drops ==
    /\ hbLink' = 0 /\ hbSilent' = 0 /\ hbPings' = {} /\ hbPongs' = {}
    /\ UNCHANGED hbDialled

ConnectionFails ==
    /\ hbLink # 0
    /\ Drops
    /\ UNCHANGED <<hbRunning, hbTick, hbSince, hbPending, hbStreak, hbAlarm, hbMissed, hbGuilty>>

(* The peer stops answering while the connection looks alive.                 *)
PeerFallsSilent ==
    /\ hbLink # 0 /\ hbSilent = 0
    /\ hbSilent' = 1
    /\ UNCHANGED <<hbRunning, hbTick, hbSince, hbPending, hbStreak, hbAlarm, hbLink,
                   hbDialled, hbPings, hbPongs, hbMissed, hbGuilty>>

TimePasses ==
    /\ hbRunning => hbTick = "wait" /\ hbSince < Interval
    /\ ~hbAlarm
    /\ hbRunning \/ hbPending # {}
    /\ hbSince' = IF hbSince < Interval THEN hbSince + 1 ELSE hbSince
    /\ hbPending' = {[p EXCEPT !.age = IF @ > Timeout THEN @ ELSE @ + 1] : p \in hbPending}
    /\ hbSilent' = IF hbSilent \in 1 .. NoticeBound THEN hbSilent + 1 ELSE hbSilent
    /\ UNCHANGED <<hbRunning, hbTick, hbStreak, hbAlarm, hbLink, hbDialled, hbPings,
                   hbPongs, hbMissed, hbGuilty>>

ExpiredPings == {p \in hbPending : p.age > Timeout}

ReapExpiredPingsLate ==
    LET streak == IF ExpiredPings = {} THEN hbStreak ELSE hbStreak + 1
        fires == ExpiredPings # {} /\ streak > MissedLimit
    IN /\ hbPending' = hbPending \ ExpiredPings
       /\ hbMissed' = IF ExpiredPings = {} THEN hbMissed
                      ELSE IF hbMissed < MissedLimit THEN hbMissed + 1 ELSE hbMissed
       /\ hbStreak' = IF fires THEN 0 ELSE streak
       /\ hbAlarm' = (hbAlarm \/ fires)
       /\ hbGuilty' = (hbGuilty \/ \E p \in ExpiredPings : p.link = hbLink)

(* _reap_expired_pings: expired pings are forgotten, one or more of them      *)
(* lengthen the streak by one, and the limit resets it and raises the alarm.  *)
ReapExpiredPings ==
    LET streak == IF ExpiredPings = {} THEN hbStreak ELSE hbStreak + 1
        fires == ExpiredPings # {} /\ streak >= MissedLimit
    IN /\ hbPending' = hbPending \ ExpiredPings
       /\ hbMissed' = IF ExpiredPings = {} THEN hbMissed
                      ELSE IF hbMissed < MissedLimit THEN hbMissed + 1 ELSE hbMissed
       /\ hbStreak' = IF fires THEN 0 ELSE streak
       /\ hbAlarm' = (hbAlarm \/ fires)
       /\ hbGuilty' = (hbGuilty \/ \E p \in ExpiredPings : p.link = hbLink)

(* The first half of _tick, up to the await of the heartbeat send.  What is   *)
(* still on its way for a reaped nonce is dropped here: ack_pong would ignore *)
(* it.                                                                        *)
TickReaps ==
    /\ hbRunning /\ hbTick = "wait" /\ hbSince = Interval
    /\ ReapExpiredPings
    /\ hbTick' = "ping" /\ hbSince' = 0
    /\ LET live(ms) == {m \in ms : \E p \in hbPending' : p.nonce = m[1]}
       IN hbPings' = live(hbPings) /\ hbPongs' = live(hbPongs)
    /\ UNCHANGED <<hbRunning, hbLink, hbDialled, hbSilent>>

FreeNonce ==
    CHOOSE n \in 1 .. 2 + Cardinality(hbPending) + Cardinality(hbPings) + Cardinality(hbPongs) :
        /\ \A p \in hbPending : p.nonce # n
        /\ \A m \in hbPings \cup hbPongs : m[1] # n

(* The second half: a ping is pending before it is sent, and no longer when   *)
(* the send raises because no connection is usable.                           *)
TickPings ==
    /\ hbTick = "ping"
    /\ hbTick' = "wait"
    /\ IF hbLink # 0
       THEN /\ hbPending' = hbPending \cup {[nonce |-> FreeNonce, age |-> 0, link |-> hbLink]}
            /\ hbPings' = hbPings \cup {<<FreeNonce, hbLink>>}
       ELSE UNCHANGED <<hbPending, hbPings>>
    /\ UNCHANGED <<hbRunning, hbSince, hbStreak, hbAlarm, hbLink, hbDialled, hbSilent,
                   hbPongs, hbMissed, hbGuilty>>

(* The relay answers a ping, or has fallen silent and does not.               *)
PeerReceives ==
    /\ \E m \in hbPings :
        /\ hbPings' = hbPings \ {m}
        /\ hbPongs' = IF hbSilent = 0 THEN hbPongs \cup {m} ELSE hbPongs
    /\ UNCHANGED <<hbRunning, hbTick, hbSince, hbPending, hbStreak, hbAlarm, hbLink,
                   hbDialled, hbSilent, hbMissed, hbGuilty>>

AckPongKeepsStreak(m) ==
    /\ hbPending' = {p \in hbPending : p.nonce # m[1]}
    /\ IF \E p \in hbPending : p.nonce = m[1] THEN hbMissed' = 0 ELSE UNCHANGED hbMissed
    /\ UNCHANGED hbStreak

(* ack_pong: an awaited nonce clears the streak, any other is ignored.        *)
AckPong(m) ==
    /\ hbPending' = {p \in hbPending : p.nonce # m[1]}
    /\ IF \E p \in hbPending : p.nonce = m[1]
       THEN hbStreak' = 0 /\ hbMissed' = 0
       ELSE UNCHANGED <<hbStreak, hbMissed>>

HandlePong ==
    /\ \E m \in hbPongs : hbPongs' = hbPongs \ {m} /\ AckPong(m)
    /\ UNCHANGED <<hbRunning, hbTick, hbSince, hbAlarm, hbLink, hbDialled, hbSilent,
                   hbPings, hbGuilty>>

(* _close_transport_for_recovery, the task on_missed scheduled: whatever      *)
(* transport is current now is closed.                                        *)
CloseTransportForRecovery ==
    /\ hbAlarm
    /\ hbAlarm' = FALSE
    /\ IF hbLink # 0 THEN Drops ELSE UNCHANGED wirevars
    /\ UNCHANGED <<hbRunning, hbTick, hbSince, hbPending, hbStreak, hbMissed, hbGuilty>>

(* disconnect: the loop is cancelled, then the transport closed.              *)
StopMonitor ==
    /\ hbRunning /\ hbDialled = MaxLinks
    /\ hbRunning' = FALSE /\ hbTick' = "wait" /\ hbSince' = Interval
    /\ Drops
    /\ UNCHANGED <<hbPending, hbStreak, hbAlarm, hbMissed, hbGuilty>>

HeartbeatNext ==
    \/ Connect \/ ConnectionFails \/ PeerFallsSilent \/ TimePasses
    \/ TickReaps \/ TickPings \/ PeerReceives \/ HandlePong
    \/ CloseTransportForRecovery \/ StopMonitor

HeartbeatSpec == HeartbeatInit /\ [][HeartbeatNext]_hbvars

(* The monitor of heartbeat.py: a peer that falls silent on a live connection *)
(* is noticed within NoticeBound, over any number of reconnections; the       *)
(* streak never counts a miss from before the last answered ping (ack_pong);  *)
(* and the pings awaited stay few (_reap_expired_pings).                      *)
HeartbeatSafe ==
    /\ hbRunning /\ hbLink # 0 => hbSilent <= NoticeBound
    /\ hbStreak <= hbMissed
    /\ Cardinality(hbPending) * Interval <= Timeout + 2 * Interval

(* "Drives periodic keepalive traffic for one connection" (HeartbeatMonitor): *)
(* the alarm only ever closes a connection that has missed a ping itself.     *)
FreshIsSpared ==
    hbAlarm /\ hbLink # 0 => hbGuilty

=============================================================================
