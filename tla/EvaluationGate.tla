--------------------------- MODULE EvaluationGate ---------------------------
(***************************************************************************)
(* The gate that a candidate's sealed forecasts must pass on untouched      *)
(* seasons: exact coverage of a frozen cohort, a recalibrator fitted only   *)
(* on earlier seasons, and a win over raw and recalibrated Elo in every     *)
(* season. The tabular preflight and the post-SFT gate both run it.         *)
(*                                                                          *)
(*   src/forecastfm/nba_evaluation_gate.py                                  *)
(*   src/forecastfm/outcome_v2_metrics.py                                   *)
(*                                                                          *)
(* Of a forecast only its skill on its answer is kept: how far its score    *)
(* lies above that of raw Elo. A calendar block is a week; the bootstrap    *)
(* bound of the few blocks of an instance is the advantage in the worst.    *)
(***************************************************************************)
EXTENDS Integers, FiniteSets, FiniteSetsExt, Functions, Sequences, SequencesExt

\* The frozen sample minimums; the recalibrator's optimizer settings are not told apart.
Policies == [games : Nat \ {0}, blocks : Nat \ {0}]

Baselines == {"raw", "recalibrated"}

Ids(rows) == [i \in DOMAIN rows |-> rows[i].id]
SeasonsOf(rows) == {rows[i].season : i \in DOMAIN rows}
UniqueIds(rows) == rows # << >> /\ IsInjective(Ids(rows))

\* Members are outcome-free, and seasons come in increasing order.
EvaluationCohort(cohort, minimumSeasons) ==
  /\ UniqueIds(cohort)
  /\ \A i, j \in DOMAIN cohort : i < j => cohort[i].season <= cohort[j].season
  /\ Cardinality(SeasonsOf(cohort)) >= minimumSeasons

ExactIds(cohort, rows) == UniqueIds(rows) /\ Ids(rows) = Ids(cohort)

CalibrationPrecedesEvaluation(calibration, cohort) ==
  /\ ToSet(Ids(calibration)) \cap ToSet(Ids(cohort)) = {}
  /\ Max(SeasonsOf(calibration)) < Min(SeasonsOf(cohort))

\* A canonical file holds at least one row, each of its own form: a member of the cohort has
\* no outcome, and an answer nothing but the outcome.
RowsLoad(rows, valid) == rows # << >> /\ \A k \in DOMAIN rows : valid[k]
CohortRow(row) == DOMAIN row = {"id", "season", "block", "prior"}
AnswerRow(row) == DOMAIN row = {"id", "won"}
CalibrationRow(row) == DOMAIN row = {"id", "season", "prior", "won"}

BlocksOf(cohort, season) == {cohort[i].block : i \in {j \in DOMAIN cohort : cohort[j].season = season}}

\* The policy's minimum of games and of calendar blocks, in each season.
SampleMinimums(cohort, minimum) ==
  \A season \in SeasonsOf(cohort) :
    /\ Cardinality({i \in DOMAIN cohort : cohort[i].season = season}) >= minimum.games
    /\ Cardinality(BlocksOf(cohort, season)) >= minimum.blocks

\* A failed forecast is scored as the worst interior probability.
Skill == [elo |-> 0, recalibrated |-> 1, sharp |-> 2, failed |-> 0 - 10]
BaselineSkill == [raw |-> Skill.elo, recalibrated |-> Skill.recalibrated]

\* A probability, or an explicit failure.
ForecastRow(row) == row.value \in DOMAIN Skill

\* The summed advantage over a baseline in one calendar block of a season.
BlockAdvantage(forecasts, cohort, season, block, baseline) ==
  LET games == {i \in DOMAIN cohort : cohort[i].season = season /\ cohort[i].block = block}
  IN SumFunction([i \in games |-> Skill[forecasts[i].value] - BaselineSkill[baseline]])

\* The lower bound of the season's improvement is positive.
SeasonWon(forecasts, cohort, season, baseline) ==
  \A block \in BlocksOf(cohort, season) :
    BlockAdvantage(forecasts, cohort, season, block, baseline) > 0

\* Mutation: one won season is enough.
PassesSomeSeason(forecasts, cohort, baseline) ==
  \E season \in SeasonsOf(cohort) : SeasonWon(forecasts, cohort, season, baseline)

PassesEverySeason(forecasts, cohort, baseline) ==
  \A season \in SeasonsOf(cohort) : SeasonWon(forecasts, cohort, season, baseline)

\* Whether the gate accepts, and the report it then returns.
GatePasses(cohort, answers, forecasts, calibration, minimum) ==
  /\ RowsLoad(cohort, [k \in DOMAIN cohort |-> CohortRow(cohort[k])])
  /\ RowsLoad(answers, [k \in DOMAIN answers |-> AnswerRow(answers[k])])
  /\ RowsLoad(forecasts, [k \in DOMAIN forecasts |-> ForecastRow(forecasts[k])])
  /\ RowsLoad(calibration, [k \in DOMAIN calibration |-> CalibrationRow(calibration[k])])
  /\ EvaluationCohort(cohort, 2)
  /\ ExactIds(cohort, answers)
  /\ ExactIds(cohort, forecasts)
  /\ UniqueIds(calibration)
  /\ CalibrationPrecedesEvaluation(calibration, cohort)
  /\ SampleMinimums(cohort, minimum)
  /\ \A baseline \in Baselines : PassesEverySeason(forecasts, cohort, baseline)

\* The fitted correction is known by the games it was fitted on.
Recalibrator(calibration) == [trainingIds |-> Ids(calibration), policy |-> "frozen"]

GateReport(cohort, answers, forecasts, calibration) ==
  [cohort |-> cohort, answers |-> answers, forecasts |-> forecasts, calibration |-> calibration,
   seasons |-> SeasonsOf(cohort), recalibration |-> Recalibrator(calibration),
   trainingSeasons |-> SeasonsOf(calibration)]
=============================================================================
