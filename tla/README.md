# forecastfm: a verification development

TLA+ models of the parts of forecastfm whose value lies in *what can be trusted afterwards*: that a
model was asked exactly once, that answers were opened only after the outputs were public, that a
ledger proves what it is said to prove, that a paid run trained on evidence that was known in time
and allowed, that captured bytes are no younger than they say. The code that carries these promises
is sequential Python around files; what is hard in it is what happens between two steps: another
invocation, a death, a changed file, a late answer.

Paths below are relative to the repository root (`src/forecastfm/` is the library, `examples/` the
programs).

## 1. Inventory

### Modelled

| Part | Code | State it keeps | Operations |
|---|---|---|---|
| Outcome-v1 development runner | `examples/run_tinker_outcome_development.py`, `outcome_evaluation.py` | `journal.jsonl` (append, fsync), `base.jsonl`, `adapter.jsonl`, seal `raw/manifest.json` (each created whole, never replaced), a lock on the attempt file | lock, check inputs, repair the journal's tail, read it strictly, close interrupted arms, compare compiled outputs, run the arms in order, compile, match, seal |
| Outcome-v1 build, publication, scoring | `examples/build_outcome_development_evaluation.py`, `publication.py`, `examples/score_outcome_development.py` | the three frozen files, the git tree and its published head, `scores.json` | freeze; commit and push (the operator's); prove published, load sealed, open the answers, score |
| Prospective forecast ledger | `ledger.py`, `integrity.py`, `examples/verify_prospective_ledger.py` | `ledger.jsonl`, chained by hash; a head published elsewhere | audit, validate a batch, build the event, read again, replace the file |
| Outcome-v2 training | `examples/train_tinker_outcome_v2_sft.py`, `examples/tinker_outcome_v2_runtime.py`, `outcome_v2_preflight.py`, `outcome_v2_run.py`, `outcome_v2_experiment.py`, and what the preflight reads with: `nba_evidence*.py`, `nba_feature_rows.py`, `nba_elo_replay.py`, `nba_rich_baseline.py`, `nba_rights_lock.py`, `nba_evaluation_gate.py` | the sealed dataset and its manifest, the code tree, the run lock, the experiment seal (both create-only, in place) | hash, check, hash again, create and verify the run lock, load the paid runtime, train batch after batch, save the paths, seal the experiment |
| Outcome-v2 inference runtime | `examples/tinker_outcome_v2_inference_runtime.py`, `outcome_v2_inference.py` | prompt pairs, journal (its own lock), records, forecasts, all written in place | prepare, create or verify prompts, lock, cut the tail, read, close interrupted games, ask each remaining game, compile |
| Outcome-v2 generation lock to post-SFT report | `outcome_v2_inference.py`, `outcome_v2_sft_gate.py`, `nba_evaluation_gate.py` | generation lock, prompts, records, forecasts, the answer-free seal, the gate report | build the lock, infer, build the seal, verify it and report |
| Outcome-v2 rolling evaluation and its receipts (partly) | `outcome_v2_rolling.py`, `outcome_v2_coverage.py`, `github_actions_receipt.py`, `outcome_v2_aggregation.py`, `outcome_v2_rolling_score.py`, `outcome_v2_rolling_gate.py` | plan, schedule seals, batch seals, the aggregate's three files, the scoring files, the report (all create-only, in place); main's history and its workflow runs | write the plan, seal a season's schedule, seal a batch; push (the operator's); verify receipts live, aggregate, replay Elo, write cohort and answers, seal the scoring, report |
| Legacy study: locks, canaries, format smoke | `run_lock.py`, `checkpoints.py`, `canary.py`, `canary_history.py`, the `freeze_*`, `build_*`, `run_*`, `score_*` programs of the canaries and the smoke | training lock, sampler, experiment lock, and for each run its prompts, attempt marker, two arms, seal; protocol, answers, scores; what is committed and public | freeze, train, build, mark the attempt, sample, write the arms, seal, gate the smoke, score; commit, push and edit (the operator's) |
| Prospective capture collector | `examples/collect_prospective.py`, `nba_espn.py` | payload files (create-only, in place), `capture-ledger.jsonl` (replaced whole), `schedule.json` (saved at the end) | poll, reconcile, append amendments and the poll, find due captures, fetch report and scoreboard, append the capture, write the sidecar, save |
| Provider capture (partly) | `examples/capture_sportsdataio_nba.py`, `sportsdataio_nba_client.py`, `sportsdataio_nba_openapi.py`, `nba_raw_capture.py` | partial files, artifacts linked into a private root, what is on disk and what only in memory | check, ask, accept the head, read the body, take the time, write, sync, link, sync the directory, print the digest |

How they interact. Files and the published git head are the only channels; the operator's `git push`
is a step like any other. The v1 runner reads what the builder froze and refuses unless git has
published it; the scorer reads what the runner sealed and refuses unless that is published too. The
v2 training writes the experiment seal that the generation lock binds, the lock licenses the
inference runtime, whose records the post-SFT gate seals; the tabular gate that admitted the training
and the post-SFT gate run the same `nba_evaluation_gate.py` over different seasons. A rolling batch
seals the outputs of the same runtime. The collector shares nothing with the ledger but its envelope:
its evidence is quoted by cohorts that a person writes later. ESPN, SportsDataIO, Tinker, GitHub and
git are outside and appear as nondeterministic environment.

### Not modelled

* Of modelled parts: the dataset builder `examples/build_outcome_v2_dataset.py`, which writes what the
  preflight validates (its outputs are the `Dataset` of the training model); the builders that compute
  features from box scores; `nba_provider_conformance.py`, which compares a captured body with a
  schema and writes nothing; the candidate smoke, whose output nothing else reads; the outcome-v1
  training and experiment locks, which have the form of the legacy ones over other files; the
  collector's `plan` and `--dry-run`, which write nothing, and its overlapping invocations; the SFT
  files below a rolling batch's seal.
* Out of reach: floating-point estimation (rich model, GBM, Kalman, RAPM, market, bandit, metrics,
  the open-modern study). It is sequential, and there is nothing a model checker could enumerate.
* Without behaviour: parsing and conversion, prompts and value types, diagnostic scripts.

### What is hard, and what makes each part correct

* **Runners** (v1, v2, canaries, smoke). A death between "start journaled" and "verdict journaled"
  leaves it unknown whether the provider was asked. Correct: never asked again, still counted, and the
  strict reader accepts whatever the death left; two overlapping invocations cannot both work; outputs
  are those of the journal and final; the run can always be brought to its end.
* **Evaluation.** Files are proved published at one step and used at later ones while others go on.
  Correct: answers are opened only over the sealed run that is public, generation is over by then,
  failed arms stay in the cohort.
* **Ledger.** Audit, read and replace are three steps. Correct: what the append accepts the audit
  accepts; what was published stays; a resolution follows its cohort's forecasts.
* **Training.** A long preflight reads a dozen files by path while an operator edits and reseals them
  and the code changes. Correct: what is trained is what was validated; nothing in it was known too
  late, leaked from the evaluation seasons or lacked rights; it is paid for once; and no check but the
  external review refuses honest evidence.
* **Post-SFT gate.** Five commands, each reading files that others write. Correct: the seal is of one
  candidate, the report of games that the tabular gate never saw, every one of its seasons is won.
* **Rolling evaluation.** Every time a file states is its maker's claim; the only times of an outsider
  are those of the workflow runs. Correct: what an aggregate counts was made and public before each
  game's cutoff, plan and schedule before each game's first input, and the Elo baseline knew what
  the forecast could know.
* **Collector.** Three kinds of file with three kinds of durability and a death possible between any
  two. Correct: the index never runs ahead of the chain, a capture follows a frozen poll, a sidecar
  is an event, nothing saved is done twice, and bytes are what the event says they are.
* **Provider capture.** Two commands, deaths, and a disk that forgets what was not synced. Correct: a
  digest that was printed stays the digest of the file of that name, no name holds half an artifact,
  and no artifact is dated earlier than its bytes.

PROJECT.json lists each hazard at its line with the properties that watch it. Three have none, because
the code does not exclude what they describe: nothing locks the ledger between its audit, the second
read and the replacement; the collector's `retrieved_at` is taken before sleeps, retries and two
downloads; and a game that vanishes from a poll and returns keeps its removed mark, so that its later
cutoffs never come due.

## 2. Modules

```
SingleAttempt            what a single-attempt run promises (abstract)
  ^ refined by           DevelopmentRun, InferenceRuntime
DevelopmentRun           the v1 runner
  ^ EXTENDS              DevelopmentEvaluation: builder, operator, runner, scorer together
EvaluationGate           the gate over untouched seasons (operators)
  ^ EXTENDS              TrainingEvidence: what the preflight demands of a dataset (operators)
      ^ EXTENDS          OutcomeV2Training: the paid run
  ^ EXTENDS              OutcomeV2SftGate: generation lock, inference, seal, post-SFT report
InferenceRuntime         the v2 runtime, step by step
RollingEvaluation        plan, schedule and batch seals, receipts, aggregate, scoring, report
ValidationCanary         the legacy study: locks, smoke, two canaries
ProspectiveLedger        the ledger and its writers
Collector                the capture collector, ESPN's schedule and the clock
ProviderCapture          the capture command, the provider and the disk
MC*                      model-checking instances: constants of the runs, nothing else
*Proofs                  theorems: Development (DevelopmentRun and DevelopmentEvaluation),
                         LedgerAndCapture (ProspectiveLedger and ProviderCapture), Collector,
                         InferenceRuntime, OutcomeV2Training, OutcomeV2SftGate,
                         RollingEvaluation, ValidationCanary
```

**SingleAttempt.** Units, the number of calls for each, a verdict for each, and whether the run is
sealed. One unit at a time is outstanding (or abandoned and later decided); a unit is called once; a
completed verdict needs a call; sealing needs every verdict and ends everything.

**DevelopmentRun.** An arm ("unit") is a game and a role. `pc[r]` is where invocation `r` stands in
`run()`; each action is one file operation or one await: `Acquire` (`exclusive_runner_lock`),
`RequireInputs` (`require_inputs`, refusing when sealed), `TruncateTail`/`RecordRecovery`
(`_recover_partial_journal`), `ReadJournal` (`read_journal` with the strict conditions of its
three event readers), `Terminalize` (`terminalize_interrupted`), `ValidateCompiled`, `StartArm`,
`CallProvider`, `ScoreArm` (`run_pending`, `score_arm`), `BeginCompile`, `CompileArm`,
`RequireJournalMatches`, `SealOutputs` (`_compile_and_seal`, `seal_outputs`). An append is opened by
one action and finished by `FinishAppend`; a death in between may leave a torn line. A record is its
arm and one of three outcomes: token ids, probabilities and error names are abstracted to it.

**DevelopmentEvaluation.** Adds the three exclusive writes of the builder, the working tree against
the published head, `RefuseUnpublished` (`verify_manifest_bindings`), and the scorer's four steps.
The operator may commit and push the tree whenever it has changed.

**ProspectiveLedger.** SHA-256 over the canonical body is taken as injective: the hash of an event
is the sequence of bodies it commits to. `Prepare` is everything up to the built event: the audit
of the file, the validation of the batch, the event's time; `ReadBack` and `Replace` are the two
halves of `_atomic_append`. `LineAudited` is the audit of one line (`_audit_envelope`,
`_audit_event`). Of a text only one bit matters: whether it holds a line separator that
`canonical_json` leaves as it is.

**EvaluationGate, TrainingEvidence.** Operators without state, one for each check of the code. Times
are integers; a rating is the set of results that entered it and a probability that rating and its
recipe, a fitted model is the rows and results it was fitted on, the digest of a record is the record:
what a floating-point number depends on is kept, its value is not. Of a forecast in the gate its skill
on its answer is kept, and a calendar block is a week. `Priors` is the replay: the results applied
before each row; `ReplayAccepted`, `LabelsFromScores`, `BundlesBound`, `SourcesLatest`, `RightsCover`,
`ForecastsReplayed` and `GatePasses` are what the preflight compares.

**OutcomeV2Training.** The dataset's files are named by the *build* that wrote them (`files`), and what
a build wrote is a constant (`Dataset`). An honest build differs from the seventeen others by one
mistake each, which everything made from it then carries in agreement with itself: a result applied when
the game was played, a stale source, a flipped label, rights of a later day, a baseline that saw the
evaluation games. `EditFile` replaces one file by another build's, `Reseal` seals
whatever is there, `EditCode` and `PublishCode` move the tree and the published head. Each action of an
invocation is one phase of `main` and of the preflight between which something can change:
`RequireUnused`, `RequirePublishedHead`, `ReadManifest`, `HashArtifacts`, `CheckTrainingRows`,
`CompleteProvenance`, `RequireReviewed`, `HashAgain`, `CreateLock`/`WriteLock`/`VerifyLock`, `LoadRuntime`,
`VerifyUnchanged`, `CreateClient`, `TrainBatch`, `SaveFinalPaths`,
`CreateExperiment`/`WriteExperiment`/`VerifyExperiment`; `Dies` may fall between any two.
`RequireReviewed` is `_require_reviewed_external_proofs`, which as the code stands raises whatever the
evidence: `Reviews = {FALSE}` is that code, and everything behind it is what the repository's tests reach
by putting another function in its place. The lock
lists only some of the modules that the paid runtime imports (`LockedCode`), as in the code:
`outcome_config.py`, `outcome_run_lock.py` and `run_lock.py` are not in it. Code versions only
increase, and the lock's `code_revision` is the head that was read before the long preflight.

**InferenceRuntime.** As the v1 runner, with the differences of the code: the lock is on the journal
and taken after the prompt file, a failure does not stop the loop, nothing is created atomically
(`Absent`, `Partial`, `Whole`), and the forecasts are derived from the records.

**OutcomeV2SftGate.** An input file is named for its content (`Content` says what is in it), so equal
names are equal hashes; an output holds the names it binds. A command is a reading of its files, one
`Capture` per file in the order of the code, then checks (`CanGenerate`, `CanSeal`, `CanReport`), a
look whether what it read is `Unchanged`, and a create-only write of two steps. The inference's
appends and recovery are those of `InferenceRuntime`; here it writes prompts, journal, records and
forecasts in that order. `Edit` replaces any input and any file the inference left.

**RollingEvaluation.** `now` is real time and the time GitHub writes into a run; every `created_at`
and `scored_at` is a claim within `Skew` of it. A file is its content, since the code compares
bytes; a torn create-only file is one that every reader refuses, so it is left absent except for the
aggregate and the scoring files, whose parts are distinguished. `Push` is a push to main with its
run, whose commit holds all files so far; a run that fails or is run again is of no use (`Accepts`
is `_verify_run` and `_fetch_file`). Receipts are not state: one is the record of a live look and
verifies while the look gives the same record, so it is chosen where it is used (`Receipts`). `Row`
is a feature row as an honest caller builds it: the repository has no producer of prospective Elo
priors, and the replay's own states, dated at the cutoff, could not be sealed in a batch. A rating
is the set of results it has applied. `made`, the real time of a batch, is there for the properties
and no guard reads it. The report's authorization is always `denied`, as in the code, whose
authorizing entry raises.

**ValidationCanary.** A file is its content, so a hash is the content it is of; `head`, `pushed` and
`public` stand for git. The checks a command makes before its first write or call are one look at the
files, and an invocation that fails them changes nothing and is not a step; reading, calling, writing
each file and scoring are steps of their own, and two invocations and the operator run between them.
What a file may hold is a set of records (`Locks`, `Manifests`, `SmokeSeals`, ...), one for each parser.
`Edit` gives a source a later version (`Versions`), never an earlier one, and marks a run's files as
changed. Locks, experiment and protocol stay as they were written: an operator who rewrites one of them
and commits that is outside the model.
One module holds the three runs (`Runs`: canary v1, the smoke, canary v2) because each later one binds
the earlier. `Put` writes in place, so a death leaves a torn file. A scored report is the games a metric
runs over and which of them count as worst.

**Collector.** A payload's bytes are the instant they were fetched (a polled scoreboard: the games it
lists). `ReusePoll`/`FetchPoll`/`WritePoll` are `_fetch_bytes` and `_ensure_create_only`;
`Reconcile` is `_reconcile` over all documents: `AfterReferences` is the index and the amendments after
each reference, with the map of known games built before the first as in the code, `AfterRemovals`
after each game looked at for removal; `AppendAmendment`, `AppendPoll`, `AppendCapture` are
`_append_event`; `Due` is `_due_captures` at the invocation's own `now`; `BeginCapture` takes
`retrieved_at`; `ReuseReport`, `FetchReport`, `SkipReport` walk the candidates, named by their times, which go back
from the cutoff in equal steps (the fixed slots of the day that the code tries after them are not told
apart); `CreateSidecar`/`KeepSidecar`; `SaveState`. As in the code the files of a capture lie in the
directory of its game's date, which is that of the tipoff the game was first listed with, so a moved
game keeps its directory while its report candidates take new names. `Crash` is a death or an exception anywhere.

**ProviderCapture.** A body is the moment the provider made it and whether all of it arrived. A file
has what is in memory and whether that is on disk: `PowerLoss` keeps synced files and synced names and
makes every other nondeterministic. `Link` is `os.link`, which refuses a taken name; `Stamp` reads
the clock after the transport returned. `ChangeMode` is the operator's chmod of the root. A response
has at most one flaw, and its framing is declared or by close; a body that is cut off and framed by
close is accepted, as the code cannot tell.

A definition marked "Mutation" is not part of any specification: it is what a definition below it
would be with a plausible bug, and stands there to show that a property notices.

## 3. Runs

| Run | Asks | States |
|---|---|---|
| `evaluation` | builder, operator, two overlapping runners and two scorers, two games, two deaths: single attempts, a readable journal, outputs that are the journal's, the refinement of `SingleAttempt`, answers and scores only over the published seal, and that what is published is sealed | 613,163 |
| `ledger` | one writer, one death, four events, three cohorts (two of them with one id), batches in the wrong order and incomplete ones, times in any order | 2,852 |
| `ledger_text` | *violated* with a line separator in a text: the ledger audits | |
| `training` | nineteen datasets, two honest and seventeen with a mistake, two invocations, and one of: an edit of one of five files, a change of the code, a death; resealing and publishing at any time, the external review passing or not | 177,354 |
| `training_restored` | *violated* with one invocation, a snapshot pack mended after the first hashes and put back before the second: the sealed rights cover what is trained | |
| `runtime` | two overlapping invocations, two games, two deaths: prompts before calls, outputs that agree, the refinement, and that compilation is reached | 4,072 |
| `sftgate` | two candidates whose files can be exchanged, four commands of which two are at work, and one of: an edit, a death | 492,090 |
| `rolling` | two games of a season, two batches, three workflow runs, claims off by one unit, and one of: a death, a bad run, a moved game | 613,309 |
| `canary` | one game in each canary, two invocations at once, and one of: a death, an edit, a call that ends badly | 723,277 |
| `collector` | one game, one schedule change, one death, four instants over three days | 1,432,843 |
| `collector_whole` | *violated* with one death: captured bytes are whole | |
| `capture` | two commands for one name and one outside the root, deaths, failed syncs, losses of power, a root whose mode changes | 271,482 |

No run spends a property on types: they are conjuncts of the inductive invariants that section 4
proves for every instance.

**Why the bounds are enough.** Two games are the least in which an arm can be active while another is
pending, and both the order of arms and "skip the failed, go on" matter; two deaths allow a death
during the repair of what an earlier one left; two invocations are the least that can overlap, and
the lock makes a third wait like the second. In the ledger, a cohort whose games
were moved under the same id is the case an id check alone would miss. In the collector, tipoffs on
two days and a two-day horizon give every case of `_reconcile` (new, same, moved, vanished, moved
between days); larger instances (two changes; two cutoffs and two report slots) were checked by
hand with the same result. Bounds are the constants named `Max...`, and the sets of what may be edited;
they appear only in guards.

* `training`: two games are trained on so that the first's result may enter the second's prior, and two
  later seasons evaluated because the gate asks for two. Each flawed dataset is what a plausible
  mistake of its author would leave, consistent in itself, so only a check of substance can refuse it.
  One fault is enough for each file to be exchanged at each point of the preflight. An edit that is
  undone before the second hashes takes two: it is the run `training_restored`, which shows what the code
  then lets through, and the reason why `RightsCoverWhatIsTrained` is asked there and not here.
  The review may pass or not (`Reviews`), each time it is reached. With `{FALSE}`, the code as it stands,
  nothing is ever locked or paid for, the safety properties hold because nothing is paid, and
  `HonestEvidenceReachesReview` says that honest evidence comes as far as the review (108,928 states);
  with `{TRUE}` alone, the code as its tests run it, it says that honest evidence is trained and sealed
  (167,687 states).
* `sftgate`: the second candidate was admitted by a tabular gate that held one of the later games; rows
  and cohorts also come with an early season and with another Elo prior. The journal is bound by its hash
  alone: an operator who throws away all outputs of an inference and infers again leaves no trace, in the
  model as in the code.
* `rolling`: one unit is the hour from T-60 to tipoff; the first result is out one unit before the second
  cutoff, so a batch can be made before it or after it, and three runs are the least that can carry an
  aggregate (plan and schedule, one batch, the other). The code asks a plan for two seasons; each has its
  own schedule seal and its own replay, so the instance has one. Two seasons with three games were
  checked without faults or skew (530,000 states); the order of seasons and their distinct runs matter
  only there, and in the proofs, which are for any seasons.
* `canary`: one game has two prompts (one for each orientation) and two arms, so order, torn halves and
  incomplete arms occur. Raw outputs are edited only after they are sealed, commits happen while
  no invocation is at work, the loading of a sealed run is one step, and the health screen of a prompt
  passes. An invocation that could only fail at its first write is left out (`Useful`).
* `capture`: one target is where commands collide; two faults allow a loss of power during what follows
  a failed sync. The command's clock is right.

**Fairness.** `evaluation`: weak fairness of "some invocation of the runner takes a step": the operator
invokes it again, and Tinker answers or fails each call (the SDK's futures end); nobody has to build,
publish or score. `runtime`: the same for each
invocation, since one of them leaves as soon as it finds the lock taken. `training`: an invocation once
begun is a process that goes on to its end (`KeepsRunning`, weak fairness of its steps written out);
nobody has to begin one. Deaths, edits and publication are never fair. Under these the v1
evaluation is sealed once its commitment is public (`PublishedIsSealed`), the v2 forecasts are compiled
unless a death left half a file (`LeftPartial`, which is what the code does), and of honest, undisturbed
evidence every invocation comes to the external review and fails there, or else the run is paid and
sealed (`HonestEvidenceReachesReview`): the many other checks of the preflight refuse no dataset that is
what it should be. All other runs state safety only.

`CHECK_DEADLOCK FALSE` is used where the system may really stop: a full (bounded) ledger, a scored
or abandoned evaluation, ended invocations and commands, a study that is scored, a clock at its bound.

## 4. What is proved

Eight modules hold proofs, each for every value of the constants: any number of games, invocations,
deaths and edits, any content of the files, unless a hypothesis is named here.

**DevelopmentProofs, the runner.** It keeps its types, calls no arm twice and none before its start is
journaled, keeps its journal readable, seals exactly the journal, stops after a provider failure,
changes nothing after the seal, and **implements `SingleAttempt`** under the mapping of `Abs`. The
argument is one inductive invariant, `IInv`. None of the properties is inductive alone: that an arm is
not called twice needs that it is active (started, not ended) while its call is out (`PlaceInv`), which
needs that the holder's maps are the journal's (`MemoryInv`), which needs that nobody else appends
(`OneAtWork`: an invocation is under way exactly when it holds the lock) and that no torn tail lies in
the way of an append (`TailInv`). `JournalInv` says that arms run one at a time; `SealInv` that outputs
are only ever compiled from a complete journal. There is one lemma per action, under a general lemma for
steps that leave the journal alone and one for appends (`ReadableAppend`: an acceptable event keeps a
readable journal readable).

**DevelopmentProofs, the evaluation.** Over the runner's `IInv`: answers are opened only over a published seal,
scores cover the whole published run, and generation is over once they are open. The added invariant is
that from `ProvePublished` on seal, journal and arms on disk are those at the published head; it holds
because the runner's own invariant says that nothing touches them once the seal exists.

**InferenceRuntimeProofs.** Prompts come before calls, outputs agree with the journal, and the runtime
implements `SingleAttempt`. Unlike the v1 runner only those past the journal's opening exclude each
other, so the invariant has two halves: what the holder's place says of journal, calls and
memory, and what the place of those before the lock says of the prompt file, which has one writer.

**OutcomeV2TrainingProofs.** The paid run happens once (`PaidOnce`): two invocations may both pass
the whole preflight, and it is the exclusive creation of the run lock that leaves one owner, since
no file that the others must find absent is ever absent again. The versions of the code only
increase, so equal listings before and after the import mean that the listed code is what was imported.

What is paid for was admitted (`OnlyAdmittedIsSealed`), and from that no paid run trains on hindsight,
its evaluation seasons are untouched, and its rights cover what it sends away. The preflight hashes
each file, parses it by path, and hashes it again, so each of the three theorems has a hypothesis:
`NothingRestored`, that no edit puts back bytes which were there before, said as an age of the builds of
each file that edits only increase. It cannot be dropped: the run `training_restored` exchanges the pack
after the first hashes and restores it before the second. The theorems hold for any outcome of the
external review (`Reviews`). Under the hypothesis the
invariant `EvidenceInv` says of each place in the preflight what has been checked so far *of the content
hashed first, or else the file is younger than that hash for good*; the second pass of hashes removes
the second case, the lock then carries the checks to the paid run. What the checks mean for rows, priors
and rights is a lemma for each (`AdmittedRows`, `AdmittedEvaluation`), which need of a dataset only that
files of rows are lists and that times and seasons are integers (`DatasetAssumption`), as the parsers
demand.

**OutcomeV2SftGateProofs.** The seal is of one candidate, the report of new games, every season of it
is won, and what is whole is final, for any files that satisfy two assumptions: that inputs are named for
their content and seasons are numbers. The invariant is that what a command has captured are names of
known contents, that what it builds says of itself `OneCandidate`, `NewGames` and `AllWon`, and that the
seal a gate captured is the one on disk, because it is written once.

**RollingEvaluationProofs.** Forecasts of an aggregate precede the cutoffs in real time, plan and
schedules precede every input, and the scored baseline knows what the forecasts knew, for any
number of games, seasons and batches and any error of the callers' clocks. Nothing goes back
(`Monotone`): whole files and runs stay, time passes. `HistoryInv` carries real time into the
receipts: what the commit of a run holds was made before the run, whatever its seal claims.
`RowsInv` says that a row's prior is the set of results that were out when its batch was made *as the
calendar is now*: it survives a moved game because the league moves only games whose cutoff is to come,
to a time to come (`FinalsKept`). An aggregate or score that is sealed then stays true, which is why
live verification at one moment is enough. That a minimum is attained and below every element is proved
from the well-foundedness of the natural numbers (`LeastNatural`).

**ValidationCanaryProofs.** All five invariants of `canary`, for any source, cohort size, responses, and
number of commands, training runs, edits, pushes and deaths. The invariant has a part for each kind of
state. `TypeInv` gives every path the records its parser accepts, or a mark; that a mark is no such record is
`MarksAssumption`. `FileInv` says what a whole file means by its kind: a sampler in the checkpoints was
trained on the lock's code, and on its data unless the data has changed since, for good; a seal is a whole
run; a report is of one. `JobInv` says what each command holds where it stands, `OwnerInv` that one
invocation at most is at work on a run once its marker is there, `HistoryInv` that the calls of a run are
its prompts in order, base arm and then adapter, `GitInv` what is public. None is inductive alone: that
an arm is called once needs that the owner's memory and files are all its calls, which needs that the
others stopped at the marker, which needs that a marker is never absent again. The argument is therefore
in two halves. `Moves(movers)` is what any step does at most: a file is kept, created where it was
absent, or marked as edited once it is whole, a source grows, and only the owner adds to a run. `Kept...`
lemmas show that each fact about files survives any such step, and `StepInv` reduces every action to the
one file and the one invocation it changes. Then there is one lemma per action. That sealed arms are
still the calls when a scorer reads them needs that they are whole and that `SealVerified` compares them
with the seal.

**LedgerAndCaptureProofs, the ledger.** Type correctness for any writers and, for one writer at a time
(`SingleWriter`) and texts without line separators (`PlainText`): the ledger always audits,
a published head stays a prefix, resolutions follow the forecasts of their cohort,
and nothing is changed or removed. The two hypotheses are what the code takes for granted, and neither
can be dropped (section 5). The invariant `LInv` adds that a hash commits to every line before it
(`ChainInv`) and that a prepared event is the right next line until it is written (`PreparedInv`), which
is where one writer is used.

**LedgerAndCaptureProofs, the provider capture.** A reported capture stays the file under its name, a target holds nothing or one
whole artifact, and no artifact is dated earlier than its bytes, through any deaths and losses of power.
One invariant follows a capture through the command: what is held where it stands, that partial files are
synced before they are linked, and that from the link on the file under the name is the command's own.

**CollectorProofs.** The saved index never runs ahead of the chain, captures follow polls that listed
them, finished sidecars are events, and nothing saved is repeated, for any finite set of games, any
cutoffs, window, horizon and number of report candidates, any changes of ESPN's schedule and a death at
any step. None of the four is inductive: an invocation's index *does* run ahead of the chain, from
`Reconcile` until the poll's event is appended. The invariant `CInv` therefore says what is still owed at
each place. `PollsOnce`: while amendments are appended, every tipoff of the index in memory is listed by
the references in hand or on the chain, and every removal is among the amendments in hand or on the chain
(`GameOwed`), so nothing is owed once the poll's own event is there. `IndexGrows`: past the poll the
index in memory is on the chain and only extends the saved one, game by game, new games having new ids.
`DueIsOpen`: what is due has not been captured. `CaptureIsLast`: while the sidecar is made, the last
event is that of the capture in hand, so a line number suffices for its hash. What it takes of
`_reconcile` is `Accumulated`: each reference and each removal leaves every game of the loaded index in
its place with its captures, changes a tipoff only to one that a reference has, and removes a game
only with an amendment that says so. That the two recursions of `Reconciled` keep this for every number of
references is proved from the well-foundedness of the natural numbers, once as the existence of the
recursive function (`AfterReferencesExists`) and once as an induction along it
(`AfterReferencesKeeps`): the least counterexample has a predecessor. From the assumptions the proofs use
that games are finitely many, so that a scoreboard is a list, and that days have a length.

The constants' assumptions are the named `ASSUME`s of the modules, which the runs evaluate: bounds are
numbers, markers such as `Absent` and `Torn` are no content, paths tell what kind a file is.

Only model-checked: the three liveness properties (`PublishedIsSealed`, `EventuallyCompiled`,
`HonestEvidenceReachesReview`), since fairness and ENABLED are out of the prover's reach. Every invariant and
action property of the passing runs, and both refinements, are theorems, some of them under a hypothesis
that is named above.

## 5. What the runs found

Three disagreements between the code and what the repository says of it are runs that expect a violation,
listed under "findings":

* a line separator in a text makes the ledger unreadable (`ledger_text`);
* a death in the middle of a download becomes evidence (`collector_whole`);
* the preflight hashes, parses by path, and hashes again, so a file that is mended before it is parsed and
  put back before the second hashes is validated in place of the one that the lock seals
  (`training_restored`), although `ROADMAP.md:86` says that the preflight binds them end to end. This lies
  behind the external review, which refuses everything today.

Others were met while modelling. They stay in the models as the code has them, and no property above
claims the contrary:

* `README.md:200` says the runner stops after journaling a failure; after it journals an *interrupted* arm
  as failed, `run_tinker_outcome_development.py:352` goes on. What is proved is that it stops after a
  failure of an arm it called itself.
* Two ledger writers at once: the audit, the read before the replacement and the replacement are three
  steps, so one of them drops lines of the other, returned and published ones included, or appends what no
  longer fits. With `Writers` of two, TLC refutes `AlwaysAuditable`, `PublishedIsPrefix`,
  `ResolutionsFollowForecasts` and `AppendOnly`. One writer is a hypothesis of the proofs.
* A v2 inference one of whose files a death left half written, and a rolling evaluation one of whose
  results came out between a batch and its game's cutoff, cannot be brought to an end: every later command
  refuses them. The models do the same; the properties say that nothing wrong is made of them instead.
* `retrieved_at` of a collector capture precedes the download it dates, and a game that vanishes from a
  poll and returns is never captured again, although `prospective/COLLECTOR.md:58` and `:127` read
  otherwise.
* The scorer of the retired first canary opens the answers before the raw outputs are public
  (`score_validation_canary.py:25`; `README.md:445` asks for publication first). `ScoresAreTheSealedRun`
  asks it of the second canary only, which does prove publication first.
* The canaries' loaders divide JSON lines as the ledger does, so U+2028 in a response would
  make a sealed run unreadable; responses in the model have no such character.

## 6. What is left

* The outcome-v1 locks as an instance of the legacy ones; the dataset builder as a producer of `Dataset`.
* Two seasons in the standing instance of `rolling`, once the model is smaller; the proofs cover them.
* Overlapping invocations of the collector, which the code does not exclude.
