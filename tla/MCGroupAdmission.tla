-------------------------- MODULE MCGroupAdmission --------------------------
(* Three invites of which two may be live, three sessions, three seats. *)
EXTENDS GroupAdmission, TLC

CONSTANTS t1, t2, t3, s1, s2, s3

MCSymmetry == Permutations({t1, t2, t3}) \cup Permutations({s2, s3})
=============================================================================
