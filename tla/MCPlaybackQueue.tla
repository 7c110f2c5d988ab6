--------------------------- MODULE MCPlaybackQueue ---------------------------
(***************************************************************************)
(* PlaybackQueue on a small instance for TLC.                              *)
(***************************************************************************)
EXTENDS PlaybackQueue, TLC

CONSTANTS i1, i2, i3

\* i1 and i3 are the same track queued twice
Tracks == [i \in Item |-> IF i = i2 THEN "u" ELSE "t"]

RouteSymmetry == Permutations(Route)
=============================================================================
