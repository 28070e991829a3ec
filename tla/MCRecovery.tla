----------------------------- MODULE MCRecovery -----------------------------
(***************************************************************************)
(* A session beside one initialization of an empty player, o1, which       *)
(* imports b.  o2 is the session's restore of the last known good d2,      *)
(* which references b too.                                                 *)
(***************************************************************************)
EXTENDS RecoverySession, TLC

CONSTANTS d1, d2, b, x, o1, o2

MCRefs == d1 :> {b} @@ d2 :> {b}
MCNew == o1 :> d1 @@ o2 :> d2
MCAdd == o1 :> (b :> x) @@ o2 :> <<>>
MCDel == o1 :> <<>> @@ o2 :> <<>>
MCAudio == b :> Absent
=============================================================================
