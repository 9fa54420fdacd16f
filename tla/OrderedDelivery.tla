--------------------------- MODULE OrderedDelivery ---------------------------
(***************************************************************************)
(* What one direction of a conversation promises its users, with no outbox,*)
(* wire, acknowledgement or reorder buffer in sight: messages are surfaced *)
(* in the order they were submitted, each at most once, and a message is   *)
(* reported as delivered only if the peer has it.  A message may be lost,  *)
(* and a message reported as failed may have arrived.                      *)
(***************************************************************************)
EXTENDS Naturals, Sequences, FiniteSets

CONSTANT Msgs, Position      \* Position[m]: the place of m in the conversation

VARIABLES
    submitted,   \* messages handed over by the sending user
    received,    \* messages the peer has and will surface
    surfaced,    \* messages shown to the peer's user, in order
    outcome      \* what the sender reports about each message

abstractVars == <<submitted, received, surfaced, outcome>>

Outcomes == {"pending", "delivered", "failed"}

Init ==
    /\ submitted = {}
    /\ received = {}
    /\ surfaced = <<>>
    /\ outcome = [m \in Msgs |-> "pending"]

\* Messages are submitted one after the other.
Submit(m) ==
    /\ m \notin submitted
    /\ \A n \in submitted : Position[n] < Position[m]
    /\ submitted' = submitted \cup {m}
    /\ UNCHANGED <<received, surfaced, outcome>>

Extends(s, t) ==
    /\ Len(s) <= Len(t)
    /\ \A i \in 1..Len(s) : t[i] = s[i]

InOrder(s) ==
    \A i, j \in 1..Len(s) : i < j => Position[s[i]] < Position[s[j]]

\* The peer gets some submitted messages, or surfaces some it has.
Progress ==
    /\ received \subseteq received'
    /\ received' \subseteq submitted
    /\ Extends(surfaced, surfaced')
    /\ InOrder(surfaced')
    /\ \A i \in 1..Len(surfaced') : surfaced'[i] \in received'
    /\ UNCHANGED <<submitted, outcome>>

Settle(m) ==
    /\ m \in submitted
    /\ outcome[m] = "pending"
    /\ \/ m \in received /\ outcome' = [outcome EXCEPT ![m] = "delivered"]
       \/ outcome' = [outcome EXCEPT ![m] = "failed"]
    /\ UNCHANGED <<submitted, received, surfaced>>

Next ==
    \/ \E m \in Msgs : Submit(m) \/ Settle(m)
    \/ Progress

Spec == Init /\ [][Next]_abstractVars

=============================================================================
