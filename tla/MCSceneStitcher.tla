-------------------------- MODULE MCSceneStitcher ---------------------------
(***************************************************************************)
(* An instance of SceneStitcher: an image in segments of different sizes.  *)
(***************************************************************************)
EXTENDS SceneStitcher

Seg(first, count) == [off |-> first, cnt |-> count]

FourSegments == {Seg(0, 2), Seg(2, 1), Seg(3, 2), Seg(5, 1)}
=============================================================================
