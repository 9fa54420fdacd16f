----------------------------- MODULE MCSession -----------------------------
(***************************************************************************)
(* The building blocks under a chat session, each on a small instance of   *)
(* its own: `subject` says which one a behaviour is about, and the others  *)
(* rest in their initial state.                                            *)
(***************************************************************************)
EXTENDS Outbox, Inbox, KeyExchange, ConnectionManager, TLC

CONSTANTS a1, b1, a2, a3, a4

VARIABLE subject

\* Five messages of one sender, the first number carried by two of them.
MCSequenceOf == (a1 :> 1) @@ (b1 :> 1) @@ (a2 :> 2) @@ (a3 :> 3) @@ (a4 :> 4)

sessionVars == <<subject, outboxVars, inboxVars, kexVars, connVars>>

SessionInit ==
    /\ subject \in {"outbox", "inbox", "key exchange", "connection"}
    /\ OutboxInit /\ InboxInit /\ KexInit /\ ConnectionInit

SessionNext ==
    /\ UNCHANGED subject
    /\ \/ subject = "outbox" /\ OutboxNext /\ UNCHANGED <<inboxVars, kexVars, connVars>>
       \/ subject = "inbox" /\ InboxNext /\ UNCHANGED <<outboxVars, kexVars, connVars>>
       \/ subject = "key exchange" /\ KexNext /\ UNCHANGED <<outboxVars, inboxVars, connVars>>
       \/ subject = "connection" /\ ConnectionNext
          /\ UNCHANGED <<outboxVars, inboxVars, kexVars>>

\* The fairness of each component, while it is the subject.
SessionSpec ==
    /\ SessionInit /\ [][SessionNext]_sessionVars
    /\ WF_inboxVars(subject = "inbox" /\ CheckStarvation)
    /\ WF_kexVars(subject = "key exchange" /\ KexSystem)
    /\ WF_connVars(subject = "connection" /\ ConnectionSystem)

=============================================================================
