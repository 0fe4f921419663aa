---------------------------- MODULE MCSubAgents ----------------------------
(***************************************************************************)
(* Small instances of SubAgents for TLC.                                   *)
(***************************************************************************)
EXTENDS SubAgents, TLC

CONSTANTS a1, a2, a3, p1, p2

TwoParents == (a1 :> p1) @@ (a2 :> p1) @@ (a3 :> p2)
OnlyChild == a1 :> p1
=============================================================================
