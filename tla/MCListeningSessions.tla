------------------------- MODULE MCListeningSessions -------------------------
(***************************************************************************)
(* ListeningSessions on a small instance for TLC: an album of one track, a *)
(* track of its own, a radio seeded from the album, a mix with no name and *)
(* one that keeps the name it was archived under. Routes take turns at the *)
(* queue lock, so one thread stands for all of them.                       *)
(***************************************************************************)
EXTENDS ListeningSessions, TLC

CONSTANTS a, b, alb, evening

Asked(origin, album, seed, tracks, name) ==
    [origin |-> origin, album |-> album, seed |-> seed, tracks |-> tracks, name |-> name]

TheAlbum == Asked("album", alb, a, {a}, None)
TheTrack == Asked("track", alb, b, {b}, None)
TheRadio == Asked("radio", None, a, {}, None)
AMix     == Asked("mix", None, a, {a, b}, None)
Evening  == Asked("mix", None, b, {b}, evening)

ManyPlays == {TheAlbum, TheTrack, TheRadio, AMix}
TwoPlays  == {TheAlbum, AMix}
NamedPlay == {TheAlbum, Evening}
Listed    == alb :> {a}
=============================================================================
