--------------------------- MODULE MCSceneStatic ----------------------------
(***************************************************************************)
(* An instance of SceneSchedulerStatic: two workers a and b, of which a    *)
(* has two pipelines.                                                      *)
(***************************************************************************)
EXTENDS SceneSchedulerStatic

CONSTANTS a, b

TwoPipelinesOnA == (a :> 2) @@ (b :> 1)

EquallyFast == (a :> 1) @@ (b :> 1)
=============================================================================
