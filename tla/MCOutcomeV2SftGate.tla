------------------------ MODULE MCOutcomeV2SftGate ------------------------
(* A model-checking instance of OutcomeV2SftGate: two candidates, A and B. B's tabular gate
   was held on a game of the later cohort; rows and cohorts come with an early season and
   with another Elo prior. *)
EXTENDS OutcomeV2SftGate, TLC

CONSTANTS g1, g2, h1, h2    \* later and tabular games

Rows(first, season, prior, second) ==
  <<[id |-> first, season |-> season, block |-> season, prior |-> prior],
    [id |-> second, season |-> season + 1, block |-> season + 1, prior |-> "elo"]>>
Later == [r |-> Rows(g1, 4, "elo", g2), early |-> Rows(g1, 3, "elo", g2),
          other |-> Rows(g1, 4, "other", g2)]

\* The same games, resolved.
Answers(rows) == [i \in DOMAIN rows |-> [id |-> rows[i].id, won |-> TRUE]]
Calibration(prior) ==
  [i \in 1 .. 2 |-> [id |-> <<"c1", "c2">>[i], season |-> i - 1, prior |-> prior, won |-> TRUE]]

MCPolicy == [games |-> 1, blocks |-> 1]
RunLockOf(report) ==
  [code |-> 0, policy |-> MCPolicy, seasons |-> {2, 3}, report |-> report,
   evaluationRows |-> "tabular"]
MCContent ==
  [code |-> 0 :> 0 @@ 1 :> 1,
   runLock |-> [A |-> RunLockOf("A"), B |-> RunLockOf("B")],
   experiment |-> [A |-> [run |-> "A", sampler |-> "sA", createdAt |-> 1],
                   B |-> [run |-> "B", sampler |-> "sB", createdAt |-> 2]],
   rows |-> Later, cohort |-> Later,
   tabularCohort |-> [A |-> Rows(h1, 2, "elo", h2), B |-> Rows(g1, 2, "elo", h2)],
   tabularReport |-> [A |-> [cohort |-> "A", calibration |-> "old"],
                      B |-> [cohort |-> "B", calibration |-> "old"]],
   calibration |-> [old |-> Calibration("elo"), new |-> Calibration("other")],
   answers |-> [full |-> Answers(Later.r), part |-> <<Answers(Later.r)[1]>>]]

Candidate(name) ==
  [code |-> 0, runLock |-> name, experiment |-> name, rows |-> "r", cohort |-> "r",
   tabularCohort |-> name, tabularReport |-> name, calibration |-> "old", answers |-> "full"]
MCStarted == {Candidate("A"), Candidate("B")}
=============================================================================
