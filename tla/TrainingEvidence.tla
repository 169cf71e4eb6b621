-------------------------- MODULE TrainingEvidence --------------------------
(***************************************************************************)
(* What the outcome-v2 preflight demands of the sealed training artifacts:  *)
(* snapshots known by a cutoff, evidence bundles drawn from the latest of   *)
(* them, target-free feature rows, Elo priors replayed without a future     *)
(* result, labels taken from sealed scores, a tabular baseline refitted on  *)
(* exactly these rows, and its forecasts on untouched later seasons.        *)
(*                                                                          *)
(*   src/forecastfm/nba_snapshot_pack.py   src/forecastfm/nba_rights_lock.py *)
(*   src/forecastfm/nba_evidence.py        src/forecastfm/nba_evidence_io.py *)
(*   src/forecastfm/nba_feature_rows.py    src/forecastfm/nba_resolutions.py *)
(*   src/forecastfm/nba_elo_replay.py      src/forecastfm/nba_elo_state.py   *)
(*   src/forecastfm/nba_rich_baseline.py   src/forecastfm/tinker_data.py     *)
(*   src/forecastfm/outcome_v2_preflight.py                                  *)
(*                                                                          *)
(* Times are integers and the T-60 cutoff is one before tipoff. A rating is *)
(* the set of results that entered it, a probability rating and recipe,    *)
(* the home advantage among them, a fitted model the rows and results  *)
(* it was fitted on, and the digest of a record the record itself.          *)
(***************************************************************************)
EXTENDS EvaluationGate

CONSTANTS
  Questions,            \* ids of original games; a side-swapped id is none of them
  Offset,               \* from cutoff to tipoff
  SeasonAt(_),          \* the season that a date falls in
  Swapped               \* marks the id of a side-swapped row

Swap(id) == <<Swapped, id>>
Original(id) == id \in Questions
Aligned(rows, others) == Ids(rows) = Ids(others)

-----------------------------------------------------------------------------
(* Snapshot pack and reviewed rights.                                       *)

\* A live snapshot is known from its retrieval, an attested archive from publication.
Snapshot(s) ==
  /\ s.published <= s.retrieved
  /\ s.available = IF s.method = "live" THEN s.retrieved ELSE s.published

DistinctVersions(pack) ==
  \A s, o \in pack : s.source = o.source /\ s.version = o.version => s = o

SnapshotPack(pack) == pack # {} /\ DistinctVersions(pack) /\ \A s \in pack : Snapshot(s)

KnownLater(s, o) ==
  s.available > o.available \/ (s.available = o.available /\ s.published > o.published)

\* Mutation: eligible by when it was published.
LatestPublished(pack, source, cutoff) ==
  LET eligible == {s \in pack : s.source = source /\ s.published <= cutoff}
  IN {s \in eligible : ~\E o \in eligible : KnownLater(o, s)}

\* The snapshots a reader may take as the latest known by a cutoff: none, or two that
\* tie, are both refused.
LatestEligible(pack, source, cutoff) ==
  LET eligible == {s \in pack : s.source = source /\ s.available <= cutoff}
  IN {s \in eligible : ~\E o \in eligible : KnownLater(o, s)}

Permissions == {"allowed", "prohibited", "unknown"}

\* One reviewed decision: its permission, and the feed scopes it was made for.
RightsLock(lock) == lock.permission \in Permissions /\ lock.scopes # {}

\* The only rights a snapshot may carry under the lock.
ApprovedRights(lock) ==
  [terms |-> lock.agreement, asOf |-> lock.asOf, permission |-> lock.permission]

\* The lock names the agreement it was reviewed against, and allows the Tinker hop.
ReviewedRights(lock, agreement) ==
  /\ RightsLock(lock)
  /\ lock.agreement = agreement
  /\ lock.permission = "allowed"

RightsCover(pack, lock, actionAt) ==
  /\ lock.asOf <= actionAt
  /\ \A s \in pack :
       s.scope \in lock.scopes /\ s.rights = ApprovedRights(lock) /\ s.retrieved <= actionAt

-----------------------------------------------------------------------------
(* Bundles and feature rows.                                                *)

\* Nine kinds in the code; only one of them tells of a player's health.
EvidenceKinds == {"injury", "rest"}

\* One numeric feature, which names the sources it is drawn from.
EvidenceRecord(record) == record.kind \in EvidenceKinds /\ record.sources # {}

\* Known once its latest source is, and by the cutoff; an injury keeps its health lineage.
RecordBacked(record, sources, cutoff) ==
  LET used == {s \in sources : s.source \in record.sources}
  IN /\ {s.source : s \in used} = record.sources
     /\ record.available \in Max({s.available : s \in used}) .. cutoff
     /\ record.kind = "injury" => \E s \in used : s.health

\* One snapshot of each source, and every one is used.
EvidenceBundle(bundle) ==
  /\ bundle.sources # {} /\ bundle.records # {}
  /\ \A s, o \in bundle.sources : s.source = o.source => s = o
  /\ \A r \in bundle.records :
       EvidenceRecord(r) /\ RecordBacked(r, bundle.sources, bundle.cutoff)
  /\ UNION {r.sources : r \in bundle.records} = {s.source : s \in bundle.sources}

\* Every source is the latest snapshot of it that was known by the cutoff.
SourcesLatest(bundle, pack) ==
  \A s \in bundle.sources : LatestEligible(pack, s.source, bundle.cutoff) = {s}

BundlesBound(bundles, pack) ==
  /\ UniqueIds(bundles)
  /\ \A i \in DOMAIN bundles :
       /\ Original(bundles[i].id)
       /\ EvidenceBundle(bundles[i]) /\ SourcesLatest(bundles[i], pack)

\* Evidence and rights precede the protected action, and the rights allow it.
Permitted(bundle, actionAt) ==
  /\ \A r \in bundle.records : r.available <= actionAt
  /\ \A s \in bundle.sources :
       /\ s.rights.asOf <= actionAt /\ s.retrieved <= actionAt
       /\ s.rights.permission = "allowed"

\* Standard Tinker inputs have no player-health lineage.
HealthFree(bundle) == \A s \in bundle.sources : ~s.health
TinkerFeatures(bundle, actionAt) == Permitted(bundle, actionAt) /\ HealthFree(bundle)

\* A row has exactly these fields, none of them the result.
TargetFree(row) ==
  DOMAIN row = {"id", "season", "cutoff", "tipoff", "bundle", "prior", "priorAt", "state",
                "inputAt", "signal"}

\* Rows are at T-60, and hold nothing newer than their cutoff.
FeatureRow(row) ==
  /\ row.tipoff = row.cutoff + Offset
  /\ row.priorAt <= row.cutoff
  /\ row.inputAt \in row.priorAt .. row.cutoff

OriginalRows(rows) == UniqueIds(rows) /\ \A i \in DOMAIN rows : Original(rows[i].id)

FeatureRows(rows) ==
  OriginalRows(rows) /\ \A i \in DOMAIN rows : TargetFree(rows[i]) /\ FeatureRow(rows[i])

\* The digest of the bundle binds its values, so equal bundles mean equal vectors.
RowsFromBundles(bundles, rows, seasons, actionAt) ==
  /\ Aligned(bundles, rows)
  /\ \A i \in DOMAIN rows :
       /\ TinkerFeatures(bundles[i], actionAt)
       /\ rows[i].season = seasons[i].season
       /\ rows[i].cutoff = bundles[i].cutoff /\ rows[i].tipoff = bundles[i].tipoff
       /\ rows[i].bundle = bundles[i]
       /\ rows[i].inputAt = Max({rows[i].priorAt} \cup {r.available : r \in bundles[i].records})

-----------------------------------------------------------------------------
(* Resolutions and the Elo replay.                                          *)

\* A final score of an original game, never tied.
Resolution(r) == Original(r.id) /\ r.score.team # r.score.opponent
TeamWon(r) == r.score.team > r.score.opponent

ResolutionsLoad(resolutions) ==
  /\ RowsLoad(resolutions, [k \in DOMAIN resolutions |-> Resolution(resolutions[k])])
  /\ UniqueIds(resolutions)

\* A claimed score is bound to the latest snapshot of its source by resolvedAt.
ResolutionsBound(resolutions, pack) ==
  /\ ResolutionsLoad(resolutions)
  /\ \A i \in DOMAIN resolutions :
       LatestEligible(pack, resolutions[i].source.source, resolutions[i].resolvedAt)
         = {resolutions[i].source}

\* An original game between two teams, at T-60.
ReplayRow(row) ==
  Original(row.id) /\ Cardinality(row.teams) = 2 /\ row.tipoff = row.cutoff + Offset

\* Chronological rows, each team once at a cutoff, a new season at a later one.
ReplayRows(replay) ==
  /\ UniqueIds(replay)
  /\ \A i, j \in DOMAIN replay : i < j =>
       /\ replay[i].season <= replay[j].season
       /\ replay[i].cutoff <= replay[j].cutoff
       /\ replay[i].season < replay[j].season => replay[i].cutoff < replay[j].cutoff
       /\ replay[i].cutoff = replay[j].cutoff => replay[i].teams \cap replay[j].teams = {}

\* The replay file, read.
ReplayLoads(replay) == RowsLoad(replay, [k \in DOMAIN replay |-> ReplayRow(replay[k])]) /\ ReplayRows(replay)

ResolutionOf(row, resolutions) ==
  CHOOSE r \in ToSet(resolutions) : r.id = row.id

ResolutionsAligned(replay, resolutions) ==
  /\ ToSet(Ids(replay)) = ToSet(Ids(resolutions)) /\ UniqueIds(resolutions)
  /\ \A i \in DOMAIN replay : ResolutionOf(replay[i], resolutions).resolvedAt > replay[i].tipoff

\* Ratings are reset only when every result of the season before has come in.
CleanSeasonBoundaries(replay, resolutions) ==
  \A i, j \in DOMAIN replay : replay[i].season < replay[j].season =>
    ResolutionOf(replay[i], resolutions).resolvedAt <= replay[j].cutoff

\* Mutation: a result enters the ratings with the game, not when it is known.
AppliedWhenPlayed(replay, resolutions, i) ==
  {j \in 1 .. (i - 1) : replay[j].season = replay[i].season /\ replay[j].cutoff < replay[i].cutoff}

\* The earlier games of the season whose results were in by the cutoff of game i.
AppliedBefore(replay, resolutions, i) ==
  {j \in 1 .. (i - 1) : replay[j].season = replay[i].season
                        /\ ResolutionOf(replay[j], resolutions).resolvedAt <= replay[i].cutoff}

\* What the ratings of the two teams of each game embody at its cutoff: an applied result
\* moves both teams by its surprise, so it carries what its own prior embodied.
Priors(replay, resolutions) ==
  LET prior[i \in DOMAIN replay] ==
        UNION {prior[j] \cup {[id |-> replay[j].id, won |-> TeamWon(ResolutionOf(replay[j], resolutions))]} :
                 j \in {k \in AppliedBefore(replay, resolutions, i) :
                          replay[k].teams \cap replay[i].teams # {}}}
  IN prior

\* The numerical choices of a replay, which its digest names, and the frozen ones.
Recipes == {"frozen", "other"}
FrozenRecipe == "frozen"

\* The probability that ratings and recipe give.
TeamProbability(ratings, recipe) == [results |-> ratings, recipe |-> recipe]

\* The state of a game at its cutoff.
StateOf(row, ratings, recipe) ==
  [id |-> row.id, at |-> row.cutoff, ratings |-> ratings, recipe |-> recipe,
   prior |-> TeamProbability(ratings, recipe)]

\* A stored probability is the recomputed one.
EloState(state) ==
  /\ Original(state.id) /\ state.recipe \in Recipes
  /\ state.prior = TeamProbability(state.ratings, state.recipe)

\* The file of states, read.
StatesLoad(states) == RowsLoad(states, [k \in DOMAIN states |-> EloState(states[k])]) /\ UniqueIds(states)

ReplayedStates(replay, resolutions) ==
  [i \in DOMAIN replay |->
     StateOf(replay[i], Priors(replay, resolutions)[i], FrozenRecipe)]

ReplayAccepted(replay, resolutions, states) ==
  /\ ReplayLoads(replay) /\ StatesLoad(states)
  /\ ResolutionsAligned(replay, resolutions)
  /\ CleanSeasonBoundaries(replay, resolutions)
  /\ states = ReplayedStates(replay, resolutions)

StatesMatchRows(states, rows, actionAt) ==
  /\ Aligned(states, rows)
  /\ \A i \in DOMAIN rows :
       /\ states[i].at <= actionAt
       /\ states[i].at = rows[i].priorAt
       /\ states[i] = rows[i].state
       /\ states[i].prior = rows[i].prior

ReplayMatchesTraining(replay, bundles, seasons) ==
  /\ Aligned(replay, bundles)
  /\ \A i \in DOMAIN replay :
       /\ replay[i].cutoff = bundles[i].cutoff /\ replay[i].tipoff = bundles[i].tipoff
       /\ replay[i].season = seasons[i].season

-----------------------------------------------------------------------------
(* Training rows.                                                           *)

Prompt(row, swapped) == [evidence |-> row.bundle, prior |-> row.prior, swapped |-> swapped]

\* Target-free messages and a fixed label.
TrainingRecord(record) ==
  DOMAIN record = {"id", "prompt", "label"} /\ record.label \in {"TEAM", "OTHER"}
TrainingLoads(training) == RowsLoad(training, [k \in DOMAIN training |-> TrainingRecord(training[k])])

\* Adjacent pairs, the original first, no id twice, labels complementary.
ExactPairs(training) ==
  /\ training # << >> /\ Len(training) % 2 = 0
  /\ IsInjective(Ids(training))
  /\ \A k \in 1 .. (Len(training) \div 2) :
       LET original == training[2 * k - 1]  swap == training[2 * k]
       IN swap.id = Swap(original.id) /\ swap.label # original.label

OriginalIds(training) == [k \in 1 .. (Len(training) \div 2) |-> training[2 * k - 1].id]

PromptsMatchRows(training, rows) ==
  /\ Ids(rows) = OriginalIds(training)
  /\ \A k \in DOMAIN rows :
       /\ training[2 * k - 1].prompt = Prompt(rows[k], FALSE)
       /\ training[2 * k].prompt = Prompt(rows[k], TRUE)

Label(won) == IF won THEN "TEAM" ELSE "OTHER"

LabelsFromScores(training, bundles, resolutions, actionAt) ==
  /\ Aligned(bundles, resolutions) /\ Len(training) = 2 * Len(resolutions)
  /\ \A k \in DOMAIN resolutions :
       /\ resolutions[k].resolvedAt \in (bundles[k].tipoff + 1) .. actionAt
       /\ training[2 * k - 1].id = bundles[k].id
       /\ training[2 * k - 1].label = Label(TeamWon(resolutions[k]))
       /\ training[2 * k].label = Label(~TeamWon(resolutions[k]))

CalibrationFromTraining(calibration, replay, states, resolutions, seasons) ==
  /\ Aligned(calibration, replay)
  /\ \A i \in DOMAIN calibration :
       /\ calibration[i].season = seasons[i].season
       /\ calibration[i].prior = states[i].prior
       /\ calibration[i].won = TeamWon(resolutions[i])

-----------------------------------------------------------------------------
(* The tabular baseline and its evaluation.                                 *)

\* Rows of originals, in chronological order, in the season of their date.
BaselineRows(rows) ==
  /\ OriginalRows(rows)
  /\ \A i, j \in DOMAIN rows : i < j => rows[i].cutoff <= rows[j].cutoff
  /\ \A i \in DOMAIN rows : rows[i].season = SeasonAt(rows[i].cutoff)

CanFit(rows, resolutions) ==
  /\ BaselineRows(rows)
  /\ Aligned(rows, resolutions)
  /\ \A i \in DOMAIN rows : resolutions[i].resolvedAt > rows[i].tipoff

\* A game and its side swap, with complementary outcomes.
TrainingPair(row, resolution) ==
  <<[id |-> row.id, prior |-> row.prior, won |-> TeamWon(resolution)],
    [id |-> Swap(row.id), prior |-> row.prior, won |-> ~TeamWon(resolution)]>>

FitBaseline(rows, resolutions) ==
  [pairs |-> [i \in DOMAIN rows |-> TrainingPair(rows[i], resolutions[i])],
   rows |-> rows, resolutions |-> resolutions, count |-> Len(rows), seasons |-> SeasonsOf(rows)]

\* A model on file names at least one row and one season that it was fitted on.
BaselineModel(model) == model.count > 0 /\ model.seasons # {}

CanPredict(model, rows) ==
  /\ BaselineRows(rows)
  /\ Max(model.seasons) < Min(SeasonsOf(rows))

\* From a row without its answer: a probability, of a model fitted on these pairs, or a failure.
BaselineForecast(model, row) == [id |-> row.id, by |-> model.pairs, value |-> row.signal]

PredictBaseline(model, rows) == [i \in DOMAIN rows |-> BaselineForecast(model, rows[i])]

ForecastLock(model, rows) ==
  [model |-> model, rows |-> rows, forecasts |-> PredictBaseline(model, rows),
   trained |-> model.seasons, evaluated |-> SeasonsOf(rows), count |-> Len(rows)]

\* A lock on file evaluates later seasons than it was trained on.
ForecastLockLoads(lock) == lock.count > 0 /\ Max(lock.trained) < Min(lock.evaluated)

\* Mutation: any forecasts of these games will do.
ForecastsCover(model, rows, forecasts, lock) == Ids(rows) = Ids(forecasts)

ForecastsReplayed(model, rows, forecasts, lock) ==
  /\ BaselineModel(model) /\ ForecastLockLoads(lock)
  /\ CanPredict(model, rows)
  /\ forecasts = PredictBaseline(model, rows)
  /\ lock = ForecastLock(model, rows)

EvaluationAligned(cohort, replay, states, rows, resolutions, answers, actionAt) ==
  /\ Aligned(cohort, replay) /\ Aligned(cohort, rows)
  /\ Aligned(cohort, resolutions) /\ Aligned(cohort, answers)
  /\ \A i \in DOMAIN cohort :
       /\ cohort[i].season = replay[i].season /\ cohort[i].season = rows[i].season
       /\ rows[i].cutoff = replay[i].cutoff /\ rows[i].tipoff = replay[i].tipoff
       /\ cohort[i].prior = states[i].prior
       /\ answers[i].won = TeamWon(resolutions[i])
       /\ resolutions[i].resolvedAt <= actionAt
=============================================================================
