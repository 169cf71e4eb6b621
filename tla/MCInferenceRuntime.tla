------------------------- MODULE MCInferenceRuntime -------------------------
(* Model-checking instances of InferenceRuntime. *)
EXTENDS InferenceRuntime

CONSTANTS r1, r2

MCRunners == {r1, r2}
=============================================================================
