------------------------- MODULE MCProviderCapture -------------------------
(* Two overlapping commands, one registered operation and one that is not, *)
(* one target and one output outside the root, the clock and the faults    *)
(* bounded by MaxTime and MaxFaults.                                       *)
EXTENDS ProviderCapture, TLC

CONSTANTS c1, c2, registered, unregistered, target, outside

MCCommands == {c1, c2}
MCRequests == {registered, unregistered}
MCRegistered == {registered}
MCNames == {target, outside}
MCTargets == {target}

CommandSymmetry == Permutations(MCCommands)
=============================================================================
