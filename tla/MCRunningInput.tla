--------------------------- MODULE MCRunningInput ---------------------------
(***************************************************************************)
(* Small instances of RunningInput for TLC.  Run ids and runtime keys are  *)
(* only compared for equality, so permuting them changes nothing.          *)
(***************************************************************************)
EXTENDS RunningInput

Symmetry2 == Permutations(Runs) \cup Permutations(Keys)
=============================================================================
