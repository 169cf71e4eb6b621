------------------------ MODULE MCValidationCanary ------------------------
(* A model-checking instance of ValidationCanary: one game in each canary. *)
EXTENDS ValidationCanary

CONSTANTS q1, q2
MCSource == <<q1, q2>>
MCEdits ==
  {All("data"), All("core")} \cup ({"prompts", "base", "seal"} \X Cohorts) \cup {<<"result", "smoke">>}
Symmetric == Permutations(Procs)
=============================================================================
