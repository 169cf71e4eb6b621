----------------------- MODULE MCDevelopmentEvaluation -----------------------
(* Model-checking instances of DevelopmentEvaluation. *)
EXTENDS DevelopmentEvaluation

CONSTANTS r1, r2, s1, s2

MCRunners == {r1, r2}
MCScorers == {s1, s2}
=============================================================================
