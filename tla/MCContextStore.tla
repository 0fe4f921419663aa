--------------------------- MODULE MCContextStore ---------------------------
(***************************************************************************)
(* Small instances of ContextStore for TLC.  Turns are only compared for   *)
(* equality.                                                               *)
(***************************************************************************)
EXTENDS ContextStore, TLC

Symmetry == Permutations(Turns)
=============================================================================
