------------------------------ MODULE Transfer ------------------------------
(***************************************************************************)
(* File transfer over a live session (ghostlink/transfer/manager.py): the  *)
(* managers of a sender "s" and a receiver "r", the frames between them,   *)
(* the .part file, losses of the link and the re-keying that follows.      *)
(*                                                                         *)
(* Every FILE_* frame is handled by a task of its own (_on_forward spawns  *)
(* _dispatch), so handlers are atomic only up to their first await.  The   *)
(* handlers of chunks (jobs), accept, the send pump and spawned offers     *)
(* have their awaits here; a handler that only sends a frame as its last   *)
(* act is one step.  A frame for an end that is away is lost               *)
(* (_send_quiet).  A key is the generation of the session key it is        *)
(* derived from; 0 is a key that was zeroed in place.  The peer runs the   *)
(* same code, so malformed frames and manifests do not occur.              *)
(***************************************************************************)
EXTENDS Naturals, Sequences, FiniteSets, SequencesExt

CONSTANTS
    Transfers,      \* transfer ids
    MaxConcurrent,  \* transfer.max_concurrent_transfers
    Scenarios       \* what may happen, one of these: the chunks of every file
                    \* (0: it is not sent), transfer.retry_limit, and bounds on
                    \* the users' commands and on losses of the connection

ASSUME TransferConstants ==
    /\ MaxConcurrent \in Nat \ {0}
    /\ Scenarios \subseteq [size : [Transfers -> Nat], retryLimit : Nat \ {0},
                             commands : Nat, losses : Nat]

Sides == {"s", "r"}
Peer(side) == CHOOSE other \in Sides : other # side

\* "ended" stands for REJECTED, CANCELLED, FAILED and EXPIRED, which every
\* handler treats alike.
Terminal == {"completed", "ended"}
Active == {"offered", "accepted", "transferring", "paused"}

\* _SENDER_TRANSITIONS and _RECEIVER_TRANSITIONS: only a running transfer
\* completes, any other end is open to every transfer that has not ended.
MayEnd(state, end) ==
    IF end = "completed" THEN state = "transferring" ELSE state \in Active \cup {"queued"}

VARIABLES
    sc,         \* the scenario, with the commands and losses that are left
    xf,         \* [side -> [transfer -> [state, bits, notified]]]
    pump,       \* sender: [transfer -> [todo, key, attempts, probes]]
    offering,   \* sender: transfers with a spawned _offer
    offers,     \* sender: _offer_attempts
    resuming,   \* sender: transfers _recover_transfers has still to look at
    accepting,  \* receiver: where a call of accept is: "no", "dest", "open"
    jobs,       \* receiver: handlers of chunks that wait: set of [t, n, pc]
    temp,       \* receiver: chunks in the .part file, NoTemp if there is none
    saved,      \* receiver: what finalize published, per transfer
    wire,       \* [side -> frames on their way to that side]
    up,         \* both ends are attached to the channel
    sReady,     \* sender's _link_ready()
    key,        \* [side -> generation of the session key]
    closing     \* sides that have closed their manager

senderVars == <<pump, offering, offers, resuming>>
diskVars == <<accepting, jobs, temp, saved>>
linkVars == <<up, sReady, key>>
tvars == <<sc, xf, senderVars, diskVars, wire, linkVars, closing>>

NoTemp == {0}
All(t) == 1..sc.size[t]
RetryLimit == sc.retryLimit
State(side, t) == xf[side][t].state
ActiveCount(side) == Cardinality({t \in Transfers : State(side, t) \in Active})
IdlePump == [todo |-> {}, key |-> 0, attempts |-> [n \in 1..2 |-> 0], probes |-> 0]
Fresh(state) == [state |-> state, bits |-> {}, notified |-> FALSE]

TransferTypeOK ==
    /\ \A side \in Sides, t \in Transfers :
          /\ State(side, t) \in Terminal \cup Active \cup {"none", "queued", "gone"}
          /\ xf[side][t].bits \subseteq All(t)
    /\ \A t \in Transfers :
          /\ \A n \in All(t) : pump[t].attempts[n] <= RetryLimit
          /\ pump[t].probes <= RetryLimit
          /\ temp[t] = NoTemp \/ temp[t] \subseteq All(t)
    /\ \A j \in jobs : j.n \in All(j.t) /\ j.pc \in {"write", "check", "hash", "final", "settle"}
    /\ offering \cup resuming \subseteq Transfers

TransferInit ==
    /\ sc \in Scenarios
    /\ xf = [side \in Sides |-> [t \in Transfers |-> Fresh("none")]]
    /\ pump = [t \in Transfers |-> IdlePump]
    /\ offering = {} /\ resuming = {} /\ jobs = {} /\ closing = {}
    /\ offers = [t \in Transfers |-> 1]
    /\ accepting = [t \in Transfers |-> "no"]
    /\ temp = [t \in Transfers |-> NoTemp]
    /\ saved = [t \in Transfers |-> <<>>]
    /\ wire = [side \in Sides |-> <<>>]
    /\ up = TRUE /\ sReady = TRUE
    /\ key = [side \in Sides |-> 1]

-----------------------------------------------------------------------------
(* Frames and the transfer record. *)

Frame(type, t) == [type |-> type, t |-> t]
Keyed(type, t, n, k) == [type |-> type, t |-> t, n |-> n, key |-> k]

\* _send_quiet: a frame for an end that is away is lost.
Sent(w, to, frames) == IF up THEN [w EXCEPT ![to] = @ \o frames] ELSE w

\* FILE_ACCEPT with the receiver's bitmap (_share_bitmap).
AcceptFrame(t) == [type |-> "accept", t |-> t, bits |-> xf["r"][t].bits]

\* The frame at the head of a side's wire, handled by a live manager.
Receives(side, type) ==
    /\ side \notin closing
    /\ wire[side] # <<>> /\ Head(wire[side]).type = type
Consumed(side) == [wire EXCEPT ![side] = Tail(@)]

\* A transition without the bookkeeping of a terminal one.
Move(side, t, state, notified) ==
    xf' = [xf EXCEPT ![side][t].state = state, ![side][t].notified = notified]

Cleared(p) == [p EXCEPT !.key = 0]

\* Mutant: a settled transfer promotes nobody.
PromoteQueuedNobody(t) == {}

\* _promote_queued: the count is not changed by the offers it spawns, so every
\* queued transfer is started once one slot is free.
PromoteQueued(t) ==
    IF ActiveCount("s") - (IF State("s", t) \in Active THEN 1 ELSE 0) < MaxConcurrent
      THEN {q \in Transfers \ {t} : State("s", q) = "queued"}
      ELSE {}

\* _settle_terminal: the transition, the key zeroed, the .part file deleted
\* unless the file was completed, queued transfers promoted.  An illegal
\* transition raises and changes nothing (the same state again is harmless).
SettleTerminal(side, t, state) ==
    IF MayEnd(State(side, t), state)
      THEN /\ xf' = [xf EXCEPT ![side][t] =
                       [Fresh(state) EXCEPT !.bits = IF side = "r" THEN xf[side][t].bits ELSE {}]]
           /\ temp' = IF side = "r" /\ state # "completed"
                        THEN [temp EXCEPT ![t] = NoTemp] ELSE temp
           /\ IF side = "s"
                THEN /\ pump' = [pump EXCEPT ![t] = Cleared(@)]
                     /\ offering' = offering \cup PromoteQueued(t)
                ELSE UNCHANGED <<pump, offering>>
      ELSE UNCHANGED <<xf, temp, pump, offering>>

-----------------------------------------------------------------------------
(* The sender: offers. *)

\* send_file: queued behind the airtime cap, or offered at once.
SendFile(t) ==
    /\ "s" \notin closing /\ sc.size[t] > 0 /\ State("s", t) = "none"
    /\ IF ActiveCount("s") < MaxConcurrent
         THEN /\ xf' = [xf EXCEPT !["s"][t] = Fresh("offered")]
              /\ wire' = Sent(wire, "r", <<Keyed("offer", t, 0, key["s"])>>)
         ELSE /\ xf' = [xf EXCEPT !["s"][t] = Fresh("queued")]
              /\ UNCHANGED wire
    /\ UNCHANGED <<sc, senderVars, diskVars, linkVars, closing>>

\* _offer as a spawned task (promotion, retry): it sends whatever the transfer
\* has become in the meantime.
Offer(t) ==
    /\ t \in offering /\ "s" \notin closing
    /\ offering' = offering \ {t}
    /\ xf' = IF State("s", t) = "queued" THEN [xf EXCEPT !["s"][t].state = "offered"] ELSE xf
    /\ wire' = Sent(wire, "r", <<Keyed("offer", t, 0, key["s"])>>)
    /\ UNCHANGED <<sc, pump, offers, resuming, diskVars, linkVars, closing>>

\* _sweep: an unanswered offer is sent again, retry_limit times in all.
RetryOffer(t) ==
    /\ "s" \notin closing /\ State("s", t) = "offered" /\ sReady
    /\ offers[t] < RetryLimit
    /\ offers' = [offers EXCEPT ![t] = @ + 1]
    /\ offering' = offering \cup {t}
    /\ UNCHANGED <<sc, xf, pump, resuming, diskVars, wire, linkVars, closing>>

-----------------------------------------------------------------------------
(* The sender: the pump. *)

Missing(t) == All(t) \ xf["s"][t].bits
InFlight(t) == {n \in Missing(t) : pump[t].attempts[n] > 0}
Pumping(t) == "s" \notin closing /\ State("s", t) = "transferring" /\ sReady

\* The pump fails its transfer and tells the peer.
PumpFails(t) ==
    /\ SettleTerminal("s", t, "ended")
    /\ wire' = Sent(wire, "r", <<Frame("error", t)>>)
    /\ UNCHANGED <<offers, resuming>>

\* Top of the loop in _send_pump: the key is read once for all the chunks this
\* round sends.  (The window is wider than the files of an instance.)
PumpRound(t) ==
    /\ Pumping(t) /\ pump[t].todo = {}
    /\ Missing(t) \ InFlight(t) # {}
    /\ pump' = [pump EXCEPT ![t].todo = Missing(t) \ InFlight(t), ![t].key = key["s"]]
    /\ UNCHANGED <<sc, xf, offering, offers, resuming, diskVars, wire, linkVars,
                   closing>>

\* One chunk of the round: the state is not looked at again between two sends.
PumpSend(t) ==
    /\ "s" \notin closing /\ pump[t].todo # {}
    /\ LET n == CHOOSE i \in pump[t].todo : \A j \in pump[t].todo : i <= j IN
         /\ wire' = Sent(wire, "r", <<Keyed("chunk", t, n, pump[t].key)>>)
         /\ pump' = [pump EXCEPT ![t].todo = @ \ {n}, ![t].attempts[n] = @ + 1]
    /\ UNCHANGED <<sc, xf, offering, offers, resuming, diskVars, linkVars, closing>>

\* The source file cannot be read.
PumpSourceError(t) ==
    /\ Pumping(t) /\ pump[t].todo # {}
    /\ PumpFails(t)
    /\ UNCHANGED <<sc, accepting, jobs, saved, linkVars, closing>>

\* Mutant: the limit is compared after the chunk is sent once more.
PumpTimeoutLate(t) ==
    /\ Pumping(t) /\ pump[t].todo = {}
    /\ \E n \in InFlight(t) :
         IF pump[t].attempts[n] > RetryLimit
           THEN PumpFails(t)
           ELSE /\ wire' = Sent(wire, "r", <<Keyed("chunk", t, n, key["s"])>>)
                /\ pump' = [pump EXCEPT ![t].attempts[n] = @ + 1]
                /\ UNCHANGED <<xf, offering, offers, resuming, temp>>
    /\ UNCHANGED <<sc, accepting, jobs, saved, linkVars, closing>>

\* No acknowledgement in time: the chunk is sent again, or the transfer fails.
PumpTimeout(t) ==
    /\ Pumping(t) /\ pump[t].todo = {}
    /\ \E n \in InFlight(t) :
         IF pump[t].attempts[n] >= RetryLimit
           THEN PumpFails(t)
           ELSE /\ wire' = Sent(wire, "r", <<Keyed("chunk", t, n, key["s"])>>)
                /\ pump' = [pump EXCEPT ![t].attempts[n] = @ + 1]
                /\ UNCHANGED <<xf, offering, offers, resuming, temp>>
    /\ UNCHANGED <<sc, accepting, jobs, saved, linkVars, closing>>

\* Everything is acknowledged but FILE_COMPLETE does not come: ask again with
\* FILE_RESUME, or give up (without a frame).
PumpProbe(t) ==
    /\ Pumping(t) /\ pump[t].todo = {} /\ Missing(t) = {}
    /\ IF pump[t].probes >= RetryLimit
         THEN SettleTerminal("s", t, "ended") /\ UNCHANGED wire
         ELSE /\ pump' = [pump EXCEPT ![t].probes = @ + 1]
              /\ wire' = Sent(wire, "r", <<Frame("resume", t)>>)
              /\ UNCHANGED <<xf, offering, temp>>
    /\ UNCHANGED <<sc, offers, resuming, accepting, jobs, saved, linkVars, closing>>

-----------------------------------------------------------------------------
(* The sender: frames. *)

\* _on_accept: adopt the receiver's bitmap, start or resume the pump.
OnAccept ==
    /\ Receives("s", "accept")
    /\ LET f == Head(wire["s"])
           old == xf["s"][f.t]
           starts == \/ old.state = "offered"
                     \/ old.state = "paused" /\ ~ old.notified
       IN xf' = IF old.state \notin Active THEN xf
                ELSE [xf EXCEPT !["s"][f.t] =
                        [state |-> IF starts THEN "transferring" ELSE old.state,
                         bits |-> old.bits \cup f.bits,
                         notified |-> old.notified \/ old.state = "paused"]]
    /\ wire' = Consumed("s")
    /\ UNCHANGED <<sc, senderVars, diskVars, linkVars, closing>>

\* _on_reject_frame
OnReject ==
    /\ Receives("s", "reject")
    /\ LET t == Head(wire["s"]).t IN
         IF State("s", t) = "offered" THEN SettleTerminal("s", t, "ended")
                                      ELSE UNCHANGED <<xf, temp, pump, offering>>
    /\ wire' = Consumed("s")
    /\ UNCHANGED <<sc, offers, resuming, accepting, jobs, saved, linkVars, closing>>

\* Mutant: the sender calls a file complete once the last chunk is acknowledged.
OnAckCompletes ==
    /\ Receives("s", "ack")
    /\ LET f == Head(wire["s"])
           bits == xf["s"][f.t].bits \cup {f.n}
       IN xf' = [xf EXCEPT !["s"][f.t].bits = bits,
                           !["s"][f.t].state = IF bits = All(f.t) THEN "completed" ELSE @]
    /\ wire' = Consumed("s")
    /\ UNCHANGED <<sc, senderVars, diskVars, linkVars, closing>>

\* _on_ack
OnAck ==
    /\ Receives("s", "ack")
    /\ LET f == Head(wire["s"]) IN
         xf' = IF State("s", f.t) \notin Active THEN xf
               ELSE [xf EXCEPT !["s"][f.t].bits = @ \cup {f.n}]
    /\ wire' = Consumed("s")
    /\ UNCHANGED <<sc, senderVars, diskVars, linkVars, closing>>

\* _on_complete: only a transfer that runs takes it; a paused one asks again
\* after it has resumed (PumpProbe).
OnComplete ==
    /\ Receives("s", "complete")
    /\ LET t == Head(wire["s"]).t IN
         IF State("s", t) \in {"accepted", "transferring"}
           THEN SettleTerminal("s", t, "completed")
           ELSE UNCHANGED <<xf, temp, pump, offering>>
    /\ wire' = Consumed("s")
    /\ UNCHANGED <<sc, offers, resuming, accepting, jobs, saved, linkVars, closing>>

-----------------------------------------------------------------------------
(* The receiver: offers. *)

\* Mutant: the receiver has no limit of its own.
OnOfferUncapped ==
    /\ Receives("r", "offer")
    /\ xf' = IF State("r", Head(wire["r"]).t) = "none"
               THEN [xf EXCEPT !["r"][Head(wire["r"]).t] = Fresh("offered")] ELSE xf
    /\ wire' = Consumed("r")
    /\ UNCHANGED <<sc, senderVars, diskVars, linkVars, closing>>

\* _on_offer and _on_reoffer.  The temp quota may refuse an offer.
OnOffer ==
    /\ Receives("r", "offer")
    /\ LET t == Head(wire["r"]).t
           state == State("r", t)
           Answer(frame) == wire' = Sent(Consumed("r"), "s", <<frame>>) /\ UNCHANGED xf
       IN CASE state = "none" /\ Head(wire["r"]).key # key["r"] -> Answer(Frame("error", t))
            [] state = "none" /\ ActiveCount("r") >= MaxConcurrent -> Answer(Frame("reject", t))
            [] state = "none" ->
                 \/ Answer(Frame("reject", t))
                 \/ /\ xf' = [xf EXCEPT !["r"][t] = Fresh("offered")]
                    /\ wire' = Consumed("r")
            [] state = "offered" -> wire' = Consumed("r") /\ UNCHANGED xf
            [] state = "completed" -> Answer(Frame("complete", t))
            [] state \in Active -> Answer(AcceptFrame(t))
            [] OTHER -> Answer(Frame("error", t))
    /\ UNCHANGED <<sc, senderVars, diskVars, linkVars, closing>>

\* accept: checks, then awaits destination_for and open_temp ...
AcceptStarts(t) ==
    /\ "r" \notin closing /\ State("r", t) = "offered" /\ accepting[t] = "no"
    /\ accepting' = [accepting EXCEPT ![t] = "open"]
    /\ UNCHANGED <<sc, xf, senderVars, jobs, temp, saved, wire, linkVars, closing>>

\* ... creates the .part file and goes on if the offer still stands; the file
\* of one that is gone stays behind (transition_to raises).
AcceptFinishes(t) ==
    /\ accepting[t] = "open"
    /\ accepting' = [accepting EXCEPT ![t] = "no"]
    /\ temp' = [temp EXCEPT ![t] = IF @ = NoTemp THEN {} ELSE @]
    /\ IF State("r", t) = "offered"
         THEN /\ Move("r", t, "accepted", FALSE)
              /\ wire' = Sent(wire, "s", <<AcceptFrame(t)>>)
         ELSE UNCHANGED <<xf, wire>>
    /\ UNCHANGED <<sc, senderVars, jobs, saved, linkVars, closing>>

\* reject
Reject(t) ==
    /\ "r" \notin closing /\ State("r", t) = "offered"
    /\ SettleTerminal("r", t, "ended")
    /\ wire' = Sent(wire, "s", <<Frame("reject", t)>>)
    /\ UNCHANGED <<sc, offers, resuming, accepting, jobs, saved, linkVars, closing>>

-----------------------------------------------------------------------------
(* The receiver: chunks. *)

\* _integrity_failure, and _fail_transfer with an error frame: a transfer that
\* has ended keeps its state, the peer is told all the same.
Fails(t, w) ==
    /\ SettleTerminal("r", t, "ended")
    /\ wire' = Sent(w, "s", <<Frame("error", t)>>)

\* _on_chunk up to the write: refused, dropped, acknowledged again, or opened.
OnChunk ==
    /\ Receives("r", "chunk")
    /\ LET f == Head(wire["r"])
           state == State("r", f.t)
           Quiet == UNCHANGED <<xf, temp, pump, offering>>
       IN CASE state \in {"none", "gone"} ->
                 /\ wire' = Sent(Consumed("r"), "s", <<Frame("error", f.t)>>)
                 /\ Quiet /\ UNCHANGED jobs
            [] state \in Terminal \cup {"offered", "paused"} ->
                 wire' = Consumed("r") /\ Quiet /\ UNCHANGED jobs
            [] f.n \in xf["r"][f.t].bits ->
                 /\ wire' = Sent(Consumed("r"), "s", <<Keyed("ack", f.t, f.n, 0)>>)
                 /\ Quiet /\ UNCHANGED jobs
            [] f.key # key["r"] -> Fails(f.t, Consumed("r")) /\ UNCHANGED jobs
            [] OTHER -> /\ jobs' = jobs \cup {[t |-> f.t, n |-> f.n, pc |-> "write"]}
                        /\ wire' = Consumed("r") /\ Quiet
    /\ UNCHANGED <<sc, offers, resuming, accepting, saved, linkVars, closing>>

Goto(j, pc) == jobs' = (jobs \ {j}) \cup {[j EXCEPT !.pc = pc]}
Ends(j) == jobs' = jobs \ {j}

\* The chunk is on disk: mark it, acknowledge it.  Without a .part file the
\* write fails.
ChunkWritten(j) ==
    /\ j.pc = "write"
    /\ IF temp[j.t] = NoTemp
         THEN Fails(j.t, wire) /\ Ends(j)
         ELSE /\ temp' = [temp EXCEPT ![j.t] = @ \cup {j.n}]
              /\ xf' = [xf EXCEPT !["r"][j.t].bits = @ \cup {j.n},
                                  !["r"][j.t].state = IF @ = "accepted" THEN "transferring" ELSE @]
              /\ wire' = Sent(wire, "s", <<Keyed("ack", j.t, j.n, 0)>>)
              /\ Goto(j, "check") /\ UNCHANGED <<pump, offering>>
    /\ UNCHANGED <<sc, offers, resuming, accepting, saved, linkVars, closing>>

\* After the acknowledgement: is_complete is asked by every handler that gets
\* here, also by two of them.
ChunkAcked(j) ==
    /\ j.pc = "check"
    /\ IF xf["r"][j.t].bits = All(j.t) THEN Goto(j, "hash") ELSE Ends(j)
    /\ UNCHANGED <<sc, xf, senderVars, accepting, temp, saved, wire, linkVars, closing>>

\* _finish_receiving: hash the .part file ...
HashChecked(j) ==
    /\ j.pc = "hash"
    /\ IF temp[j.t] = All(j.t)
         THEN Goto(j, "final") /\ UNCHANGED <<xf, temp, pump, offering, wire>>
         ELSE Fails(j.t, wire) /\ Ends(j)
    /\ UNCHANGED <<sc, offers, resuming, accepting, saved, linkVars, closing>>

\* Mutant: the .part file is copied and stays.
FinalizedCopies(j) ==
    /\ j.pc = "final"
    /\ saved' = [saved EXCEPT ![j.t] = Append(@, temp[j.t])]
    /\ Goto(j, "settle")
    /\ UNCHANGED <<sc, xf, senderVars, accepting, temp, wire, linkVars, closing>>

\* ... move it to its destination ...
Finalized(j) ==
    /\ j.pc = "final"
    /\ IF temp[j.t] # NoTemp
         THEN /\ saved' = [saved EXCEPT ![j.t] = Append(@, temp[j.t])]
              /\ temp' = [temp EXCEPT ![j.t] = NoTemp]
              /\ Goto(j, "settle") /\ UNCHANGED <<xf, pump, offering, wire>>
         ELSE Fails(j.t, wire) /\ Ends(j) /\ UNCHANGED saved
    /\ UNCHANGED <<sc, offers, resuming, accepting, linkVars, closing>>

\* ... and settle.  A transfer that was paused, or failed by another handler,
\* in the meantime cannot move to COMPLETED: the task ends with an error.
Completed(j) ==
    /\ j.pc = "settle" /\ Ends(j)
    /\ SettleTerminal("r", j.t, "completed")
    /\ wire' = IF State("r", j.t) \in {"transferring", "completed"}
                 THEN Sent(wire, "s", <<Frame("complete", j.t)>>) ELSE wire
    /\ UNCHANGED <<sc, offers, resuming, accepting, saved, linkVars, closing>>

-----------------------------------------------------------------------------
(* Either side: commands, their frames, expiry, closing. *)

Spend == /\ sc.commands > 0
         /\ sc' = [sc EXCEPT !.commands = @ - 1]

\* pause
Pause(side, t) ==
    /\ side \notin closing /\ Spend /\ State(side, t) = "transferring"
    /\ Move(side, t, "paused", TRUE)
    /\ wire' = Sent(wire, Peer(side), <<Frame("pause", t)>>)
    /\ UNCHANGED <<senderVars, diskVars, linkVars, closing>>

\* resume; the receiver adds its bitmap.
Resume(side, t) ==
    /\ side \notin closing /\ State(side, t) = "paused"
    /\ Move(side, t, "transferring", TRUE)
    /\ wire' = Sent(wire, Peer(side),
                    <<Frame("resume", t)>> \o (IF side = "r" THEN <<AcceptFrame(t)>> ELSE <<>>))
    /\ UNCHANGED <<sc, senderVars, diskVars, linkVars, closing>>

\* cancel
Cancel(side, t) ==
    /\ side \notin closing /\ Spend
    /\ State(side, t) \in Active \cup {"queued"}
    /\ SettleTerminal(side, t, "ended")
    /\ wire' = Sent(wire, Peer(side), <<Frame("cancel", t)>>)
    /\ UNCHANGED <<offers, resuming, accepting, jobs, saved, linkVars, closing>>

\* _on_pause
OnPause(side) ==
    /\ Receives(side, "pause")
    /\ LET t == Head(wire[side]).t IN
         IF State(side, t) = "transferring" THEN Move(side, t, "paused", TRUE) ELSE UNCHANGED xf
    /\ wire' = Consumed(side)
    /\ UNCHANGED <<sc, senderVars, diskVars, linkVars, closing>>

\* _on_resume: the receiver answers with what it has.
OnResume(side) ==
    /\ Receives(side, "resume")
    /\ LET t == Head(wire[side]).t
           state == State(side, t)
       IN /\ IF state = "paused" THEN Move(side, t, "transferring", TRUE) ELSE UNCHANGED xf
          /\ wire' = CASE side = "r" /\ state = "completed" ->
                            Sent(Consumed(side), "s", <<Frame("complete", t)>>)
                       [] side = "r" /\ state \in {"paused", "accepted", "transferring"} ->
                            Sent(Consumed(side), "s", <<AcceptFrame(t)>>)
                       [] OTHER -> Consumed(side)
    /\ UNCHANGED <<sc, senderVars, diskVars, linkVars, closing>>

\* _on_cancel and _on_error_frame
OnEnd(side) ==
    /\ Receives(side, "cancel") \/ Receives(side, "error")
    /\ SettleTerminal(side, Head(wire[side]).t, "ended")
    /\ wire' = Consumed(side)
    /\ UNCHANGED <<sc, offers, resuming, accepting, jobs, saved, linkVars, closing>>

\* _sweep: an offer or a transfer is too old.
Expire(side, t) ==
    /\ side \notin closing /\ State(side, t) \in Active
    /\ SettleTerminal(side, t, "ended")
    /\ wire' = Sent(wire, Peer(side), <<Frame("cancel", t)>>)
    /\ UNCHANGED <<sc, offers, resuming, accepting, jobs, saved, linkVars, closing>>

\* _sweep, _purge: an ended transfer is forgotten, long after every offer of it
\* has expired (offer_timeout_seconds < terminal_ttl_seconds) and its frames
\* have arrived or were lost.
Purge(side, t) ==
    /\ side \notin closing /\ State(side, t) \in Terminal
    /\ State("s", t) \notin {"queued", "offered"} /\ t \notin offering
    /\ wire = [to \in Sides |-> <<>>] /\ jobs = {}
    /\ xf' = [xf EXCEPT ![side][t] = Fresh("gone")]
    /\ UNCHANGED <<sc, senderVars, diskVars, wire, linkVars, closing>>

\* close: cancel what is active, stop every task, forget everything.
Close(side) ==
    /\ side \notin closing /\ Spend
    /\ closing' = closing \cup {side}
    /\ LET live == {t \in Transfers : State(side, t) \in Active} IN
         /\ wire' = Sent(wire, Peer(side), SetToSeq({Frame("cancel", t) : t \in live}))
         /\ temp' = IF side = "r" THEN [t \in Transfers |-> IF t \in live THEN NoTemp ELSE temp[t]]
                                  ELSE temp
    /\ xf' = [xf EXCEPT ![side] = [t \in Transfers |-> Fresh("gone")]]
    /\ IF side = "s" THEN /\ pump' = [t \in Transfers |-> IdlePump]
                          /\ offering' = {} /\ resuming' = {}
                          /\ UNCHANGED jobs
                     ELSE jobs' = {} /\ UNCHANGED <<pump, offering, resuming>>
    /\ UNCHANGED <<offers, accepting, saved, linkVars>>

\* A frame that reaches a closed manager.
Ignored(side) ==
    /\ side \in closing /\ wire[side] # <<>>
    /\ wire' = Consumed(side)
    /\ UNCHANGED <<sc, xf, senderVars, diskVars, linkVars, closing>>

-----------------------------------------------------------------------------
(* Losses of the link and the re-keying after them (_on_chat_event). *)

\* _auto_pause
AutoPaused(ts) ==
    [t \in Transfers |-> IF ts[t].state = "transferring"
                           THEN [ts[t] EXCEPT !.state = "paused", !.notified = FALSE] ELSE ts[t]]

\* One end loses its connection and pauses at once; the other one learns it
\* from "left", behind the frames that still arrive.
LinkLost(side) ==
    /\ up /\ sc.losses > 0
    /\ sc' = [sc EXCEPT !.losses = @ - 1]
    /\ up' = FALSE
    /\ xf' = [xf EXCEPT ![side] = AutoPaused(@)]
    /\ sReady' = (sReady /\ side # "s")
    /\ \E k \in 0..Len(wire[Peer(side)]) :
         wire' = [wire EXCEPT ![side] = <<>>,
                              ![Peer(side)] = Append(SubSeq(@, 1, k), [type |-> "left"])]
    /\ UNCHANGED <<senderVars, diskVars, key, closing>>

\* The peer event "left".
OnLeft(side) ==
    /\ wire[side] # <<>> /\ Head(wire[side]).type = "left"
    /\ xf' = [xf EXCEPT ![side] = AutoPaused(@)]
    /\ sReady' = (sReady /\ side # "s")
    /\ wire' = Consumed(side)
    /\ UNCHANGED <<sc, senderVars, diskVars, up, key, closing>>

\* The connection is back: the host (the sender) starts a new handshake, which
\* clears its _ready.
LinkRestored ==
    /\ ~ up /\ up' = TRUE
    /\ sReady' = FALSE
    /\ wire' = [wire EXCEPT !["r"] = Append(@, [type |-> "hello"])]
    /\ UNCHANGED <<sc, xf, senderVars, diskVars, key, closing>>

\* The guest installs the next session key and answers.
OnHello ==
    /\ wire["r"] # <<>> /\ Head(wire["r"]).type = "hello"
    /\ key' = [key EXCEPT !["r"] = key["s"] + 1]
    /\ wire' = Sent(Consumed("r"), "s", <<[type |-> "reply"]>>)
    /\ UNCHANGED <<sc, xf, senderVars, diskVars, up, sReady, closing>>

\* The host installs it: the transfer keys are zeroed under the pumps that use
\* them, and _recover_transfers is spawned.
OnReply ==
    /\ wire["s"] # <<>> /\ Head(wire["s"]).type = "reply"
    /\ key' = [key EXCEPT !["s"] = key["r"]]
    /\ sReady' = up
    /\ pump' = [t \in Transfers |-> Cleared(pump[t])]
    /\ resuming' = IF "s" \in closing THEN {} ELSE Transfers
    /\ wire' = Consumed("s")
    /\ UNCHANGED <<sc, xf, offering, offers, diskVars, up, closing>>

\* _recover_transfers: offer again, resume what the loss paused.
Recover(t) ==
    /\ t \in resuming
    /\ resuming' = resuming \ {t}
    /\ CASE State("s", t) = "offered" ->
              wire' = Sent(wire, "r", <<Keyed("offer", t, 0, key["s"])>>) /\ UNCHANGED xf
         [] State("s", t) = "paused" /\ ~ xf["s"][t].notified ->
              /\ Move("s", t, "transferring", TRUE)
              /\ wire' = Sent(wire, "r", <<Frame("resume", t)>>)
         [] OTHER -> UNCHANGED <<xf, wire>>
    /\ UNCHANGED <<sc, pump, offering, offers, diskVars, linkVars, closing>>

-----------------------------------------------------------------------------
SenderFrames == OnAccept \/ OnReject \/ OnAck \/ OnComplete
ReceiverFrames == OnOffer \/ OnChunk
SharedFrames == \E side \in Sides : OnPause(side) \/ OnResume(side) \/ OnEnd(side)
                                    \/ Ignored(side) \/ OnLeft(side)
ChunkJob == \E j \in jobs : ChunkWritten(j) \/ ChunkAcked(j) \/ HashChecked(j)
                            \/ Finalized(j) \/ Completed(j)
PumpStep(t) == PumpRound(t) \/ PumpSend(t) \/ PumpTimeout(t) \/ PumpProbe(t)
Rekeying == LinkRestored \/ OnHello \/ OnReply \/ \E t \in Transfers : Recover(t)
Users ==
    \/ \E t \in Transfers : SendFile(t) \/ AcceptStarts(t) \/ Reject(t)
    \/ \E side \in Sides, t \in Transfers : Pause(side, t) \/ Resume(side, t) \/ Cancel(side, t)
    \/ \E side \in Sides : Close(side)

TransferNext ==
    \/ Users
    \/ SenderFrames \/ ReceiverFrames \/ SharedFrames \/ ChunkJob \/ Rekeying
    \/ \E t \in Transfers : Offer(t) \/ RetryOffer(t) \/ PumpStep(t) \/ PumpSourceError(t)
                            \/ AcceptFinishes(t)
    \/ \E side \in Sides, t \in Transfers : Expire(side, t) \/ Purge(side, t)
    \/ \E side \in Sides : LinkLost(side)

TransferSpec == TransferInit /\ [][TransferNext]_tvars

\* What happens without a user: tasks run, the timers of the pump fire, a lost
\* link comes back, the sweeper expires unanswered offers.
SystemStep ==
    \/ SenderFrames \/ ReceiverFrames \/ SharedFrames \/ ChunkJob \/ Rekeying
    \/ \E t \in Transfers : \/ PumpStep(t) \/ Offer(t) \/ AcceptFinishes(t)
                            \/ State("s", t) = "offered" /\ Expire("s", t)

TransferFairSpec == TransferSpec /\ WF_tvars(SystemStep)

-----------------------------------------------------------------------------
(* Properties. *)

\* Only a complete, verified file is ever published, and only once, although
\* several handlers may try to finish the same transfer (_finish_receiving).
PublishedWholeOnce ==
    \A t \in Transfers : Len(saved[t]) <= 1 /\ \A i \in DOMAIN saved[t] : saved[t][i] = All(t)

\* The sender reports a transfer as completed only if the receiver has saved
\* the file (_on_complete).
CompletedMeansSaved ==
    \A t \in Transfers : State("s", t) = "completed" => saved[t] # <<>>

\* The receiver never holds more active transfers than its limit, whatever the
\* sender offers (_on_offer).
ReceiverWithinLimit == ActiveCount("r") <= MaxConcurrent

\* A file is saved whole and once, reported as sent only when it was saved, and
\* received within the receiver's limit.
TransferSafe ==
    /\ TransferTypeOK
    /\ PublishedWholeOnce
    /\ CompletedMeansSaved
    /\ ReceiverWithinLimit

\* A transfer the sender started or queued ends, or waits for a user who paused
\* it: bounded retries and probes, promotion of the queue, recovery after a
\* loss, expiry of offers (_send_pump, _promote_queued, _recover_transfers).
TransferEnds ==
    \A t \in Transfers :
        (State("s", t) \in {"queued", "offered", "transferring"}) ~>
            \/ State("s", t) \in Terminal \cup {"gone"}
            \/ State("s", t) = "paused" /\ xf["s"][t].notified

\* "Temp files must never outlive the transfers they belong to"
\* (transfer/cleanup.py): an ended transfer has no .part file.
NoTempOutlives ==
    \A t \in Transfers : State("r", t) \in Terminal \cup {"gone"} => temp[t] = NoTemp

\* A published file belongs to a transfer reported as completed
\* (_finish_receiving: verify, publish, settle).
SavedSettles ==
    \A t \in Transfers :
        (saved[t] # <<>>) ~> (State("r", t) \in {"completed", "gone"})

=============================================================================
