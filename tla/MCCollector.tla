---------------------------- MODULE MCCollector ----------------------------
(* Model-checking instances of Collector. *)
EXTENDS Collector

CONSTANT g1

\* One of the three cutoffs.
OneCutoff == [t_60 |-> 1]
MCTipoffs == {3, 5}
=============================================================================
