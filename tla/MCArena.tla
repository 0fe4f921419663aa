------------------------------ MODULE MCArena ------------------------------
(***************************************************************************)
(* A small instance of Arena for TLC.                                      *)
(***************************************************************************)
EXTENDS Arena, TLC

Symmetry == Permutations(Arenas) \cup Permutations(Branches)
=============================================================================
