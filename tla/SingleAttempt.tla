--------------------------- MODULE SingleAttempt ---------------------------
(***************************************************************************)
(* What a paid, answer-blind evaluation promises about the units it asks   *)
(* the provider about (a model arm of a game in the v1 evaluation, a game  *)
(* in the v2 runtime): each unit is put to the provider at most once, one  *)
(* unit at a time; each ends with one verdict that never changes; and the  *)
(* outputs are sealed only when every unit has its verdict.                *)
(*                                                                         *)
(* The modules DevelopmentRun and InferenceRuntime implement it.           *)
(***************************************************************************)
EXTENDS Naturals

CONSTANT Units          \* everything the provider is to be asked about

VARIABLES
  calls,                \* how often each unit was put to the provider
  verdict,              \* the terminal verdict of each unit, if any
  sealed                \* the outputs are final

absVars == <<calls, verdict, sealed>>

Verdicts == {"completed", "failed"}

AbsTypeOK ==
  /\ calls \in [Units -> 0..1]
  /\ verdict \in [Units -> Verdicts \cup {"none"}]
  /\ sealed \in BOOLEAN

AbsInit ==
  /\ calls = [u \in Units |-> 0]
  /\ verdict = [u \in Units |-> "none"]
  /\ sealed = FALSE

\* A unit is in the provider's hands when it was asked and has no verdict.
Outstanding(u) == calls[u] > 0 /\ verdict[u] = "none"

Attempt(u) ==
  /\ ~sealed
  /\ calls[u] = 0
  /\ verdict[u] = "none"
  /\ \A v \in Units : ~Outstanding(v)
  /\ calls' = [calls EXCEPT ![u] = 1]
  /\ UNCHANGED <<verdict, sealed>>

\* Failure needs no answer: a unit may be abandoned before it was ever asked.
Decide(u, result) ==
  /\ ~sealed
  /\ verdict[u] = "none"
  /\ result = "completed" => calls[u] = 1
  /\ verdict' = [verdict EXCEPT ![u] = result]
  /\ UNCHANGED <<calls, sealed>>

Seal ==
  /\ ~sealed
  /\ \A u \in Units : verdict[u] # "none"
  /\ sealed' = TRUE
  /\ UNCHANGED <<calls, verdict>>

AbsNext ==
  \/ \E u \in Units : Attempt(u) \/ \E result \in Verdicts : Decide(u, result)
  \/ Seal

AbsSpec == AbsInit /\ [][AbsNext]_absVars
============================================================================
