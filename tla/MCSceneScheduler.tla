-------------------------- MODULE MCSceneScheduler --------------------------
(***************************************************************************)
(* Instances of SceneSchedulerDynamic: two workers a and b.                *)
(***************************************************************************)
EXTENDS SceneSchedulerDynamic

CONSTANTS a, b

OnePipelineEach == (a :> 1) @@ (b :> 1)

ThreePipelinesOnA == (a :> 3) @@ (b :> 1)

TwoPipelinesOnA == (a :> 2) @@ (b :> 1)

EquallyFast == (a :> 1) @@ (b :> 1)

BTakesTwice == (a :> 1) @@ (b :> 2)

\* The client has not read a segment yet.  Reading one only moves it from the
\* segments under way to the image, and both have been shipped.
NothingRead == image = {}
=============================================================================
