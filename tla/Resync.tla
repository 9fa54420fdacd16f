-------------------------------- MODULE Resync --------------------------------
(* How a group member's service re-synchronises a stale roster: frames of a   *)
(* newer epoch call _trigger_resync (groups/service.py), which schedules      *)
(* _resync under the RecoveryCoordinator (core/recovery.py): one state with a *)
(* closed transition table, and one lease per operation key.  The service has *)
(* one coordinator for all of its groups; attach() resets it and close()      *)
(* closes it.  The record it refreshes is LocalGroup's.                       *)
EXTENDS LocalGroup

CONSTANTS ResyncGroups,   \* the groups this member belongs to
          MaxFrames,      \* bound: frames of a newer epoch
          MaxAttaches     \* bound: sessions the service is attached to

ASSUME ResyncConstants == {MaxFrames, MaxAttaches} \subseteq Nat

VARIABLES
    phase,      \* RecoveryCoordinator._state
    inFlight,   \* RecoveryCoordinator._in_flight, the groups with a lease
    recent,     \* groups resynchronised less than the minimum interval ago
    resyncs,    \* the _resync tasks, with the lease they hold
    frames,     \* frames of a newer epoch so far
    attaches,   \* attach() calls so far
    refused     \* groups whose trigger raised instead of starting a task

rsvars == <<phase, inFlight, recent, resyncs, frames, attaches, refused>>

(* _ALLOWED_TRANSITIONS.                                                      *)
ALLOWED_TRANSITIONS ==
    [ready           |-> {"connected", "degraded", "resync_required", "closed"},
     connected       |-> {"degraded", "reconnecting", "resync_required", "ready", "closed"},
     degraded        |-> {"connected", "reconnecting", "resync_required", "recovering",
                          "ready", "failed", "closed"},
     reconnecting    |-> {"connected", "degraded", "failed", "closed"},
     resync_required |-> {"recovering", "ready", "failed", "closed"},
     recovering      |-> {"ready", "degraded", "failed", "closed"},
     failed          |-> {"reconnecting", "resync_required", "ready", "closed"},
     closed          |-> {}]

(* can_transition and transition: to the same state always, otherwise along   *)
(* the table; anything else raises IllegalRecoveryTransition.                 *)
Legal(new) == new = phase \/ new \in ALLOWED_TRANSITIONS[phase]

ResyncInit ==
    /\ phase = "ready" /\ inFlight = {} /\ recent = {} /\ resyncs = {}
    /\ frames = 0 /\ attaches = 0 /\ refused = {}

(* attach(): the coordinator is reset, leases included, and goes to           *)
(* CONNECTED.  Resyncs that are running are not cancelled.                    *)
AttachService ==
    /\ attaches < MaxAttaches
    /\ attaches' = attaches + 1
    /\ inFlight' = {} /\ phase' = "connected"
    /\ UNCHANGED <<recent, resyncs, frames, refused>>

NewTask(g) ==
    [group |-> g, at |-> "scheduled", id |-> frames + 1]

(* _trigger_resync: not again within the minimum interval, not while this     *)
(* group's resync holds its lease; then the throttle is set, the coordinator  *)
(* moves (or raises, and the frame handler ends there), and the task is       *)
(* scheduled.                                                                 *)
TriggerResync(g) ==
    /\ g \notin recent /\ g \notin inFlight
    /\ recent' = recent \cup {g}
    /\ IF Legal("resync_required")
       THEN /\ phase' = "resync_required"
            /\ resyncs' = resyncs \cup {NewTask(g)}
            /\ UNCHANGED refused
       ELSE /\ refused' = refused \cup {g}
            /\ UNCHANGED <<phase, resyncs>>

(* A kex, key or message frame of a newer epoch arrives while attached.       *)
NewerEpochFrame(g) ==
    /\ attaches > 0 /\ phase # "closed" /\ frames < MaxFrames
    /\ frames' = frames + 1
    /\ TriggerResync(g)
    /\ UNCHANGED <<inFlight, attaches>>

(* The minimum interval between two resyncs of a group passes.                *)
IntervalPasses(g) ==
    /\ g \in recent
    /\ recent' = recent \ {g}
    /\ UNCHANGED <<phase, inFlight, resyncs, frames, attaches, refused>>

Finished(task) == resyncs' = resyncs \ {task}

(* _resync up to the await of sync(): begin() refuses when the lease is held, *)
(* and the task ends; a move to RECOVERING the table forbids raises, and the  *)
(* finally block releases the lease and moves to READY or raises again.       *)
ResyncStarts(task) ==
    /\ task.at = "scheduled"
    /\ IF task.group \in inFlight
       THEN Finished(task) /\ UNCHANGED <<phase, inFlight>>
       ELSE IF Legal("recovering")
            THEN /\ inFlight' = inFlight \cup {task.group}
                 /\ phase' = "recovering"
                 /\ resyncs' = (resyncs \ {task}) \cup {[task EXCEPT !.at = "running"]}
            ELSE /\ Finished(task)
                 /\ phase' = IF Legal("ready") THEN "ready" ELSE phase
                 /\ UNCHANGED inFlight
    /\ UNCHANGED <<recent, frames, attaches, refused>>

ResyncEndsKeeping(task) ==
    /\ task.at = "running"
    /\ Finished(task)
    /\ phase' = IF Legal("ready") THEN "ready" ELSE phase
    /\ UNCHANGED <<inFlight, recent, frames, attaches, refused>>

(* sync() returned, or failed with a notice: the lease is released, by key,   *)
(* and the coordinator moves to READY unless it was closed meanwhile.         *)
ResyncEnds(task) ==
    /\ task.at = "running"
    /\ Finished(task)
    /\ inFlight' = inFlight \ {task.group}
    /\ phase' = IF Legal("ready") THEN "ready" ELSE phase
    /\ UNCHANGED <<recent, frames, attaches, refused>>

(* close(): listeners go, the coordinator is closed; tasks are left to end.   *)
CloseService ==
    /\ phase # "closed" /\ attaches > 0
    /\ phase' = "closed"
    /\ UNCHANGED <<inFlight, recent, resyncs, frames, attaches, refused>>

ResyncNext ==
    \/ AttachService \/ CloseService
    \/ \E g \in ResyncGroups : NewerEpochFrame(g) \/ IntervalPasses(g)
    \/ \E task \in resyncs : ResyncStarts(task) \/ ResyncEnds(task)

ResyncSpec == ResyncInit /\ [][ResyncNext]_rsvars

Running(g) == {task \in resyncs : task.group = g /\ task.at = "running"}

(* "exactly one in-flight resync per group (no competing loops)"              *)
(* (groups/service.py): at most one resync of a group is between its begin    *)
(* and its release, and a lease is held exactly while one is, so that a group *)
(* is never locked out of recovery by a lease nobody holds.                   *)
OneResync ==
    \A g \in ResyncGroups :
        /\ \A s, t \in Running(g) : s = t
        /\ g \in inFlight <=> Running(g) # {}

(* "if a resync for this group is already in flight, do not schedule a        *)
(* competing loop" (_trigger_resync): the resync of another group never       *)
(* prevents this one's.                                                       *)
OnlyOwnResyncRefuses == refused = {}

\* What a member knows of its groups: the stored record is a state the group
\* really went through (lifecycle.py), and its refresh is one resync at a time,
\* never locked out by a lease nobody holds (service.py, recovery.py).
MemberSafe == RecordFaithful /\ OneResync

=============================================================================
