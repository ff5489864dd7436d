------------------------ MODULE MCTransformRefinement ------------------------
(* The blueprints of MCTransformPipeline, for the refinement. *)
EXTENDS MCTransformPipeline, TransformRefinement
=============================================================================
