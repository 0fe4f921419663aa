----------------------------- MODULE MCPlanMode -----------------------------
(***************************************************************************)
(* Small instances of PlanMode for TLC.  Browsers and places of the bucket *)
(* are only compared for equality.                                         *)
(***************************************************************************)
EXTENDS PlanMode, TLC

MCPlans == 0 .. MaxRequests
Symmetry == Permutations(Sockets)
=============================================================================
