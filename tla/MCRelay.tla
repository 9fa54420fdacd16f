------------------------------ MODULE MCRelay ------------------------------
(***************************************************************************)
(* The relay's room and what a client keeps for it: the pending requests   *)
(* and the heartbeat.  Each is checked on a small instance of its own:     *)
(* `subject` says which one a behaviour is about, and the others rest in   *)
(* their initial state.                                                    *)
(***************************************************************************)
EXTENDS RelayRoom, RelayClient, Heartbeat, TLC

CONSTANTS alice, bob, a1, a2, b1

VARIABLE subject

\* Two users, one of them with a spare connection for a reconnect.
MCUserOf == [c \in Sessions |-> IF c \in {a1, a2} THEN alice ELSE bob]

\* Three calls of every kind that can meet under one key, and of kinds that
\* cannot.
MCCallPlans ==
    {<<"attach", "attach", "redeem_invite">>,
     <<"query_invite", "redeem_invite", "revoke_invite">>,
     <<"group_attest", "group_state", "group_leave">>,
     <<"group_create", "group_create", "group_leave">>,
     <<"ping", "group_attest", "create_invite">>}

\* A user's connections are interchangeable.
MCSymmetry == Permutations({a1, a2})

relayVars == <<subject, vars, rcvars, hbvars>>

RelayInit ==
    /\ subject \in {"room", "client", "heartbeat"}
    /\ RoomInit /\ HeartbeatInit
    /\ RelayClientInit
    /\ subject # "client" => plan = <<"attach", "attach", "redeem_invite">>

RelayNext ==
    /\ UNCHANGED subject
    /\ \/ subject = "room" /\ RoomNext /\ UNCHANGED <<rcvars, hbvars>>
       \/ subject = "client" /\ RelayClientNext /\ UNCHANGED <<vars, hbvars>>
       \/ subject = "heartbeat" /\ HeartbeatNext /\ UNCHANGED <<vars, rcvars>>

RelaySpec == RelayInit /\ [][RelayNext]_relayVars

\* The room alone, under the fairness of its event loop.
RelayRoomSpec == subject = "room" /\ RelaySpec /\ RoomFairness

=============================================================================
