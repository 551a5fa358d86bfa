----------------------------- MODULE MCPipeline -----------------------------
(* Pipeline on scripts of up to two scenes and two storyboards a scene.    *)
EXTENDS Pipeline

SmallScripts == {<<0>>, <<1>>, <<2>>, <<0, 1>>, <<1, 1>>, <<2, 0>>}
=============================================================================
