-------------------------- MODULE MCGroupAuthority --------------------------
(* One group of an owner and two others; one of them may have two sessions *)
(* at a time, as after a connection the relay has not seen die yet.        *)
EXTENDS GroupAuthority, TLC

CONSTANTS o, a, b, o1, a1, a2, b1

MCIdentityOf == (o1 :> o) @@ (a1 :> a) @@ (a2 :> a) @@ (b1 :> b)
=============================================================================
