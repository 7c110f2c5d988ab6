--------------------------- MODULE MCListenTracker ---------------------------
(***************************************************************************)
(* ListenTracker on a small instance for TLC: a whole track, and one that  *)
(* is an excerpt or ends before 30 s.                                      *)
(***************************************************************************)
EXTENDS ListenTracker
=============================================================================
