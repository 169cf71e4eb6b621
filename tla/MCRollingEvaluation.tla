------------------------- MODULE MCRollingEvaluation -------------------------
(* A model-checking instance of RollingEvaluation. *)
EXTENDS RollingEvaluation, TLC

CONSTANTS a1, a2

\* Two games of one season, of which the second's forecast may know the first's result.
\* The code asks a plan for two seasons at least.  Each has its own schedule seal and its own
\* replay from the initial ratings, so the instance has one: the other would only repeat it,
\* and the boundary between them (CleanSeasonBoundaries) is not exercised.
MCSeasonOf == a1 :> 1 @@ a2 :> 1
MCInput == a1 :> 1 @@ a2 :> 3
MCFirstCutoff == a1 :> 2 @@ a2 :> 5

BatchSymmetry == Permutations(Batches)
=============================================================================
