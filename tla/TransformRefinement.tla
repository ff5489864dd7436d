------------------------- MODULE TransformRefinement -------------------------
(***************************************************************************)
(* The pipeline implements TransformSpec: its output is decided by the     *)
(* blueprint and the run settings, whatever order Go's maps were walked in.*)
(***************************************************************************)
EXTENDS TransformPipeline, CompiledOutput

\* A shared resource without the handler it happens to be attributed to.
Unattributed(c) == IF c.type \in {"role", "layer"}
                   THEN [c EXCEPT !.source = "anyone"]
                   ELSE c

\* What a run has produced so far.
Outcome ==
    CASE phase = "failed" -> [outcome |-> "refused"]
      [] phase = "done" ->
            [outcome |-> "compiled",
             resources |-> {<<n, Unattributed(emitted[n])>> : n \in DOMAIN emitted},
             diagnostics |-> diagnostics]
      [] OTHER -> [outcome |-> "pending"]

Promise == INSTANCE TransformSpec WITH blueprint <- bp, output <- Outcome

\* Every run, in any order of resolution, produces the output CompiledOutput
\* computes from its blueprint, and produces it (or refuses) eventually.
OutputDependsOnBlueprintOnly == Promise!Spec
=============================================================================
