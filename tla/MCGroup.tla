------------------------------ MODULE MCGroup ------------------------------
(***************************************************************************)
(* A group: the relay's authority, the record a member keeps of it, the    *)
(* two ways its messages travel, and the resync of a stale roster.  Each   *)
(* is checked on a small instance of its own: `subject` says which one a   *)
(* behaviour is about, and the others rest in one initial state.           *)
(***************************************************************************)
EXTENDS GroupAuthority, LocalGroup, GroupMesh, SenderKeys, Resync, TLC

CONSTANTS o, a, b, o1, a1, a2, b1

VARIABLE subject

\* An owner and two others; one of them may have two sessions at a time, as
\* after a connection the relay has not seen die yet.
MCIdentityOf == (o1 :> o) @@ (a1 :> a) @@ (a2 :> a) @@ (b1 :> b)

\* The pairs of mesh faults that interact: one lost session next to a leap or
\* a brake; a broken envelope and a brake next to a leap.
MCMeshFaults ==
    {[away |-> 1, rate |-> 0, broken |-> 0, leap |-> "join"],
     [away |-> 1, rate |-> 1, broken |-> 0, leap |-> "none"],
     [away |-> 0, rate |-> 1, broken |-> 1, leap |-> "removed"]}

MCSkBounds ==
    {[sends |-> 3, leap |-> 1, away |-> 0, broken |-> 0],
     [sends |-> 3, leap |-> 0, away |-> 1, broken |-> 0],
     [sends |-> 2, leap |-> 0, away |-> 1, broken |-> 1]}

groupRunVars == <<subject, groupVars, lgvars, gmvars, skvars, rsvars>>

GroupRunInit ==
    /\ subject \in {"authority", "record", "mesh", "sender keys", "resync"}
    /\ Init /\ LocalGroupInit /\ GroupMeshInit /\ SenderKeysInit /\ ResyncInit
    /\ subject # "record" => me = RecordOwner /\ rec = NoRecord
    /\ subject # "mesh" => fault.away = 0 /\ starter = "a"
    /\ subject # "sender keys" => skFaults.leap = 1

GroupRunNext ==
    /\ UNCHANGED subject
    /\ \/ subject = "authority" /\ Next /\ UNCHANGED <<lgvars, gmvars, skvars, rsvars>>
       \/ subject = "record" /\ LocalGroupNext /\ UNCHANGED <<groupVars, gmvars, skvars, rsvars>>
       \/ subject = "mesh" /\ GroupMeshNext /\ UNCHANGED <<groupVars, lgvars, skvars, rsvars>>
       \/ subject = "sender keys" /\ SenderKeysNext
          /\ UNCHANGED <<groupVars, lgvars, gmvars, rsvars>>
       \/ subject = "resync" /\ ResyncNext /\ UNCHANGED <<groupVars, lgvars, gmvars, skvars>>

\* The fairness of the mesh, while it is the subject.
GroupRunSpec ==
    /\ GroupRunInit /\ [][GroupRunNext]_groupRunVars
    /\ WF_gmvars(subject = "mesh" /\ GroupMeshSystem)
    /\ WF_gmvars(subject = "mesh" /\ Attach)

=============================================================================
