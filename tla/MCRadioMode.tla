---------------------------- MODULE MCRadioMode -----------------------------
(***************************************************************************)
(* RadioMode on a small instance for TLC.                                  *)
(***************************************************************************)
EXTENDS RadioMode, TLC

Symmetry == Permutations(Track) \cup Permutations(Fill) \cup Permutations(Speaker)
=============================================================================
