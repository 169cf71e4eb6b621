-------------------------- MODULE OutcomeV2SftGate --------------------------
(***************************************************************************)
(* From a trained sampler to its post-SFT report: the generation lock, the  *)
(* files the inference leaves, the answer-free forecast seal and the gate   *)
(* on new later seasons, each command reading its files one after another   *)
(* while other commands write and the operator edits.                       *)
(*                                                                          *)
(*   src/forecastfm/outcome_v2_inference.py                                 *)
(*   src/forecastfm/outcome_v2_sft_gate.py                                  *)
(*   src/examples/tinker_outcome_v2_inference_runtime.py                    *)
(*                                                                          *)
(* An input file is named for its content, so equal names are equal hashes; *)
(* an output holds the names it binds. The journal's appends and recovery   *)
(* are those of InferenceRuntime; here a run of the runtime writes it once. *)
(***************************************************************************)
EXTENDS EvaluationGate

CONSTANTS
  Content,              \* of each input path, what each of its names holds
  Started,              \* the input files an operator may have at first, by path
  Editable,             \* bound: the paths the operator edits
  Policy,               \* the frozen production policy
  Answered,             \* how the sampler's calls of one game may end
  Clock,                \* the times a caller may claim
  Absent, Torn,         \* no file or score, a file whose writer died inside the write
  MaxBusy,              \* bound: commands at work at once
  MaxFaults             \* bound: edits and deaths

Inputs == DOMAIN Content
Outputs == {"generationLock", "prompts", "journal", "records", "forecasts", "seal", "report"}
Commands == {"generate", "infer", "seal", "gate"}

ASSUME SftGateAssumption ==
  /\ Inputs = {"code", "runLock", "experiment", "rows", "cohort", "tabularCohort",
               "tabularReport", "calibration", "answers"}
  /\ \A start \in Started :
       DOMAIN start = Inputs /\ \A p \in Inputs : start[p] \in DOMAIN Content[p]
  /\ Editable \subseteq Inputs \cup Outputs
  /\ Policy \in Policies /\ Clock \subseteq Nat /\ Clock # {} /\ MaxBusy \in Nat \ {0} /\ MaxFaults \in Nat

\* Rows come in a sequence and seasons are numbers, the last tabular one the greatest.
ASSUME SeasonsAssumption ==
  /\ \A path \in {"rows", "cohort", "tabularCohort"} : \A name \in DOMAIN Content[path] :
       LET rows == Content[path][name]
       IN /\ Len(rows) \in Nat /\ DOMAIN rows = 1 .. Len(rows)
          /\ \A i \in DOMAIN rows : rows[i].season \in Nat
  /\ \A name \in DOMAIN Content["runLock"] :
       LET seasons == Content["runLock"][name].seasons
       IN seasons \subseteq Nat /\ \E last \in seasons : \A season \in seasons : season <= last

VARIABLES
  files,                \* what is at each path
  pc, held,             \* where each command stands, and what it has read or built
  faults

vars == <<files, pc, held, faults>>

\* The order in which a command reads its paths. A path is captured once; the static
\* contract is the code in the tree, looked at when the generation lock is verified.
Reads ==
  [generate |-> <<"runLock", "experiment", "code", "rows">>,
   infer |-> <<"generationLock", "runLock", "experiment", "code", "rows">>,
   seal |-> <<"runLock", "experiment", "cohort", "rows", "prompts", "forecasts",
              "generationLock", "journal", "records", "code">>,
   gate |-> <<"seal", "runLock", "experiment", "cohort", "rows", "prompts", "forecasts",
              "generationLock", "journal", "records", "code",
              "tabularCohort", "tabularReport", "calibration", "answers">>]

Init ==
  /\ \E start \in Started : files = [p \in Inputs \cup Outputs |-> IF p \in Inputs THEN start[p] ELSE Absent]
  /\ pc = [c \in Commands |-> "reading"]
  /\ held = [c \in Commands |-> << >>]
  /\ faults = 0

\* The command returns or raises, and may be invoked again.
End(c) == pc' = [pc EXCEPT ![c] = "reading"] /\ held' = [held EXCEPT ![c] = << >>]
Leave(c) == End(c) /\ UNCHANGED <<files, faults>>

Busy == {c \in Commands : pc[c] # "reading" \/ held[c] # << >>}

\* What is held, and the bytes of one path more.
With(names, path, value) ==
  [p \in DOMAIN names \cup {path} |-> IF p = path THEN value ELSE names[p]]

\* The next path's bytes; the command ends if the file is absent or no whole JSON.
Capture(c) ==
  /\ pc[c] = "reading" /\ Cardinality(DOMAIN held[c]) < Len(Reads[c])
  /\ Cardinality(Busy \cup {c}) <= MaxBusy
  /\ LET path == Reads[c][Cardinality(DOMAIN held[c]) + 1]
     IN IF files[path] \in {Absent, Torn}
        THEN Leave(c)
        ELSE /\ held' = [held EXCEPT ![c] = With(@, path, files[path])]
             /\ UNCHANGED <<files, pc, faults>>

HasRead(c) == pc[c] = "reading" /\ Cardinality(DOMAIN held[c]) = Len(Reads[c])

Of(names, path) == Content[path][names[path]]

-----------------------------------------------------------------------------
(* The generation lock.                                                     *)

\* Code, settings, recipe, policy, model, prompt and packages are still those of the lock.
StaticContract(names) == Of(names, "runLock").code = names["code"]

\* The experiment binds the exact run lock, and the tree still has its static contract.
ModelLocksVerified(names) ==
  Of(names, "experiment").run = names["runLock"] /\ StaticContract(names)

NewLaterRows(names) ==
  /\ UniqueIds(Of(names, "rows"))
  /\ Min(SeasonsOf(Of(names, "rows"))) > Max(Of(names, "runLock").seasons)
  /\ names["rows"] # Of(names, "runLock").evaluationRows

\* Prompts are rendered from the rows alone.
PromptsOf(rows) == [rendered |-> rows]

\* Four logical calls for each game, and none of them repeated.
CallPolicy(games) == [calls |-> 4 * games, attempts |-> 1, retries |-> 0]

GenerationLock(names, at) ==
  [runLock |-> names["runLock"], experiment |-> names["experiment"],
   sampler |-> Of(names, "experiment").sampler, rows |-> names["rows"],
   prompts |-> PromptsOf(names["rows"]), seasons |-> SeasonsOf(Of(names, "rows")),
   policy |-> CallPolicy(Len(Of(names, "rows"))), createdAt |-> at]

CanGenerate(names, at) ==
  /\ ModelLocksVerified(names)
  /\ at >= Of(names, "experiment").createdAt
  /\ NewLaterRows(names)

Unchanged(c) == \A path \in {"runLock", "experiment", "rows"} : files[path] = held[c][path]

\* The lock is built from what was read, and the three files are read once more.
BuildGenerationLock ==
  /\ HasRead("generate")
  /\ \E at \in Clock :
       IF CanGenerate(held["generate"], at) /\ Unchanged("generate")
       THEN /\ held' = [held EXCEPT !["generate"] =
                          [generationLock |-> GenerationLock(held["generate"], at)]]
            /\ pc' = [pc EXCEPT !["generate"] = "creating"]
            /\ UNCHANGED <<files, faults>>
       ELSE Leave("generate")

\* The lock is rebuilt from what is on disk, at its own time.
GenerationLockVerified(names) ==
  /\ CanGenerate(names, names["generationLock"].createdAt)
  /\ names["generationLock"] = GenerationLock(names, names["generationLock"].createdAt)

-----------------------------------------------------------------------------
(* What the inference leaves: prompts, journal, records and forecasts.      *)

Games(lock) == Ids(Content["rows"][lock.rows])

\* One side of a game: its Elo prior, and how far the labels' scores move it.
OrientationScore(prior, says) == [prior |-> prior, says |-> says]
Scored(score) == score.says \in DOMAIN Skill \ {"failed"}

\* Both sides under the sealed prior, and their average; a failure keeps no partial score.
CompletedRecord(lock, i, says) ==
  LET row == Content["rows"][lock.rows][i]
  IN [sequence |-> i, lock |-> lock, id |-> row.id, row |-> row, status |-> "completed",
      original |-> OrientationScore(row.prior, says), swapped |-> OrientationScore(row.prior, says),
      value |-> says]
FailedRecord(lock, i) ==
  LET row == Content["rows"][lock.rows][i]
  IN [sequence |-> i, lock |-> lock, id |-> row.id, row |-> row, status |-> "failed",
      original |-> Absent, swapped |-> Absent, value |-> "failed"]
Record(lock, i, ended) ==
  IF ended = "failed" THEN FailedRecord(lock, i) ELSE CompletedRecord(lock, i, ended)

\* What a terminal record must say to be read as one.
InferenceRecord(record) ==
  \/ record.status = "failed" /\ {record.original, record.swapped} = {Absent} /\ record.value = "failed"
  \/ /\ record.status = "completed"
     /\ Scored(record.original) /\ Scored(record.swapped)
     /\ record.original.prior = record.swapped.prior
     /\ {record.value} = {record.original.says, record.swapped.says}
RecordsLoad(records) == RowsLoad(records, [k \in DOMAIN records |-> InferenceRecord(records[k])])

\* One record per game, in the order, with the rows and under the hash of the lock.
RecordsCover(records, lock) ==
  /\ Ids(records) = Games(lock)
  /\ \A i \in DOMAIN records :
       /\ records[i].sequence = i /\ records[i].lock = lock
       /\ records[i].row = Content["rows"][lock.rows][i]

\* A failed game stays, as a forecast with its failure reason.
BinaryForecasts(records) ==
  [i \in DOMAIN records |-> [id |-> records[i].id, value |-> records[i].value]]

PrepareInference ==
  /\ HasRead("infer")
  /\ IF GenerationLockVerified(held["infer"]) /\ Unchanged("infer")
     THEN /\ pc' = [pc EXCEPT !["infer"] = "prompts"]
          /\ UNCHANGED <<files, held, faults>>
     ELSE Leave("infer")

\* A file that exists must have the bytes that would be written.
CreateOrVerify(path, value, next) ==
  \/ /\ files[path] = Absent
     /\ files' = [files EXCEPT ![path] = value]
     /\ pc' = [pc EXCEPT !["infer"] = next]
     /\ UNCHANGED <<held, faults>>
  \/ /\ files[path] = value
     /\ pc' = [pc EXCEPT !["infer"] = next]
     /\ UNCHANGED <<files, held, faults>>
  \/ files[path] \notin {Absent, value} /\ Leave("infer")

WritePrompts ==
  /\ pc["infer"] = "prompts"
  /\ CreateOrVerify("prompts", held["infer"]["generationLock"].prompts, "calls")

Journaled(records) ==
  /\ files' = [files EXCEPT !["journal"] = records]
  /\ held' = [held EXCEPT !["infer"] = With(@, "records", records)]
  /\ pc' = [pc EXCEPT !["infer"] = "records"]
  /\ UNCHANGED faults

\* Every game of the lock is asked once and journaled, or taken from the journal of the lock.
JournalCalls ==
  /\ pc["infer"] = "calls"
  /\ LET lock == held["infer"]["generationLock"]  games == Games(lock)
     IN IF files["journal"] = Absent
        THEN \E values \in [DOMAIN games -> Answered] :
               Journaled([i \in DOMAIN games |-> Record(lock, i, values[i])])
        ELSE IF RecordsLoad(files["journal"]) /\ RecordsCover(files["journal"], lock)
             THEN Journaled(files["journal"])
             ELSE Leave("infer")

\* What is compiled is the journal as this invocation has kept it.
CompileRecords ==
  /\ pc["infer"] = "records"
  /\ CreateOrVerify("records", held["infer"]["records"], "forecasts")

CompileForecasts ==
  /\ pc["infer"] = "forecasts"
  /\ CreateOrVerify("forecasts", BinaryForecasts(held["infer"]["records"]), "compiled")

InferenceEnds == pc["infer"] = "compiled" /\ Leave("infer")

-----------------------------------------------------------------------------
(* The forecast seal.                                                       *)

\* Mutation: forecasts of the recorded games, whatever they say.
ForecastsCoverRecords(names) == Ids(names["forecasts"]) = Ids(names["records"])

ForecastsDerived(names) == names["forecasts"] = BinaryForecasts(names["records"])

FailedRecords(records) == Cardinality({i \in DOMAIN records : records[i].value = "failed"})

ProvenanceVerified(names) == Of(names, "experiment").run = names["runLock"]

\* Lock verified, records covered, forecasts derived, prompts rendered, cohort aligned.
AnswerFreeFilesVerified(names) ==
  LET lock == names["generationLock"]  rows == Of(names, "rows")  cohort == Of(names, "cohort")
  IN /\ GenerationLockVerified(names)
     /\ RecordsLoad(names["records"]) /\ RecordsCover(names["records"], lock)
     /\ ForecastsDerived(names)
     /\ names["prompts"] = lock.prompts /\ names["prompts"] = PromptsOf(names["rows"])
     /\ EvaluationCohort(cohort, 1)
     /\ Ids(rows) = Ids(cohort) /\ Ids(names["forecasts"]) = Ids(cohort)
     /\ \A i \in DOMAIN cohort :
          /\ rows[i].season = cohort[i].season
          /\ rows[i].block = cohort[i].block
          /\ rows[i].prior = cohort[i].prior
     /\ SeasonsOf(cohort) = lock.seasons

ForecastSeal(names, at) ==
  [runLock |-> names["runLock"], experiment |-> names["experiment"],
   sampler |-> Of(names, "experiment").sampler, cohort |-> names["cohort"], rows |-> names["rows"],
   prompts |-> names["prompts"], forecasts |-> names["forecasts"],
   generationLock |-> names["generationLock"], journal |-> names["journal"],
   records |-> names["records"], createdAt |-> at,
   seasons |-> names["generationLock"].seasons,
   count |-> Len(names["forecasts"]), orientations |-> 2 * Len(names["forecasts"]),
   failed |-> FailedRecords(names["records"])]

\* What a seal must say to be read as one.
SealRecord(seal) ==
  seal.seasons # {} /\ seal.orientations = 2 * seal.count /\ seal.failed <= seal.count

CanSeal(names, at) ==
  /\ ProvenanceVerified(names) /\ AnswerFreeFilesVerified(names)
  /\ at >= names["generationLock"].createdAt

BuildSeal ==
  /\ HasRead("seal")
  /\ \E at \in Clock :
       IF CanSeal(held["seal"], at)
       THEN /\ held' = [held EXCEPT !["seal"] = [seal |-> ForecastSeal(held["seal"], at)]]
            /\ pc' = [pc EXCEPT !["seal"] = "creating"]
            /\ UNCHANGED <<files, faults>>
       ELSE Leave("seal")

-----------------------------------------------------------------------------
(* The post-SFT gate.                                                       *)

SealVerified(names) ==
  /\ SealRecord(names["seal"])
  /\ CanSeal(names, names["seal"].createdAt)
  /\ names["seal"] = ForecastSeal(names, names["seal"].createdAt)

\* The report of the run lock's own preflight, and the cohort it was made over.
TabularGateVerified(names) ==
  LET cohort == Of(names, "tabularCohort")
  IN /\ names["tabularReport"] = Of(names, "runLock").report
     /\ Of(names, "tabularReport").cohort = names["tabularCohort"]
     /\ EvaluationCohort(cohort, 1)
     /\ SeasonsOf(cohort) = Of(names, "runLock").seasons

\* Mutation: later seasons are taken to be new games.
LaterCohort(names) ==
  Min(SeasonsOf(Of(names, "cohort"))) > Max(SeasonsOf(Of(names, "tabularCohort")))

NewLaterCohort(names) ==
  LET tabular == Of(names, "tabularCohort")  sft == Of(names, "cohort")
  IN /\ ToSet(Ids(sft)) \cap ToSet(Ids(tabular)) = {}
     /\ Min(SeasonsOf(sft)) > Max(SeasonsOf(tabular))

\* The comparator is the one that the tabular gate was run against.
SameCalibration(names) == Of(names, "tabularReport").calibration = names["calibration"]

CanReport(names) ==
  /\ SealVerified(names)
  /\ Of(names, "runLock").policy = Policy
  /\ TabularGateVerified(names)
  /\ NewLaterCohort(names)
  /\ SameCalibration(names)
  /\ GatePasses(Of(names, "cohort"), Of(names, "answers"), names["forecasts"],
                Of(names, "calibration"), Policy)

Report(names) ==
  [seal |-> names["seal"], tabularReport |-> names["tabularReport"],
   tabularCohort |-> names["tabularCohort"], cohort |-> names["cohort"],
   answers |-> names["answers"], calibration |-> names["calibration"],
   forecasts |-> names["forecasts"], failed |-> names["seal"].failed]

VerifyGate ==
  /\ HasRead("gate")
  /\ IF CanReport(held["gate"])
     THEN /\ held' = [held EXCEPT !["gate"] = [report |-> Report(held["gate"])]]
          /\ pc' = [pc EXCEPT !["gate"] = "creating"]
          /\ UNCHANGED <<files, faults>>
     ELSE Leave("gate")

-----------------------------------------------------------------------------
(* Create-only writes, deaths and edits.                                    *)

Output == [generate |-> "generationLock", seal |-> "seal", gate |-> "report"]

\* Mutation: what is there is replaced.
CreateOverwriting(c) ==
  /\ pc[c] = "creating"
  /\ files' = [files EXCEPT ![Output[c]] = Torn]
  /\ pc' = [pc EXCEPT ![c] = "writing"]
  /\ UNCHANGED <<held, faults>>

\* Opened "xb": whoever comes second raises.
Create(c) ==
  /\ pc[c] = "creating"
  /\ IF files[Output[c]] = Absent
     THEN /\ files' = [files EXCEPT ![Output[c]] = Torn]
          /\ pc' = [pc EXCEPT ![c] = "writing"]
          /\ UNCHANGED <<held, faults>>
     ELSE Leave(c)

Write(c) ==
  /\ pc[c] = "writing"
  /\ files' = [files EXCEPT ![Output[c]] = held[c][Output[c]]]
  /\ End(c) /\ UNCHANGED faults

Dies(c) ==
  /\ pc[c] = "writing" /\ faults < MaxFaults
  /\ End(c)
  /\ faults' = faults + 1
  /\ UNCHANGED files

\* What an operator may put at a path: another input, other forecasts, records or prompts.
Replacements(path) ==
  IF path \in Inputs THEN DOMAIN Content[path]
  ELSE IF files[path] \in {Absent, Torn} THEN {}
  ELSE IF path = "records"
       THEN {[files[path] EXCEPT ![i] = Record(@.lock, i, v)] : i \in DOMAIN files[path], v \in Answered}
       ELSE IF path = "forecasts"
       THEN {[files[path] EXCEPT ![i].value = v] : i \in DOMAIN files[path], v \in Answered}
       ELSE IF path = "prompts" THEN {PromptsOf(rows) : rows \in DOMAIN Content["rows"]} ELSE {}

Edit ==
  /\ faults < MaxFaults
  /\ \E path \in Editable : \E value \in Replacements(path) \ {files[path]} :
       files' = [files EXCEPT ![path] = value]
  /\ faults' = faults + 1
  /\ UNCHANGED <<pc, held>>

Step(c) ==
  \/ Capture(c)
  \/ c = "generate" /\ BuildGenerationLock
  \/ c = "infer" /\ (\/ PrepareInference \/ WritePrompts \/ JournalCalls
                      \/ CompileRecords \/ CompileForecasts \/ InferenceEnds)
  \/ c = "seal" /\ BuildSeal
  \/ c = "gate" /\ VerifyGate
  \/ c \in DOMAIN Output /\ (Create(c) \/ Write(c))

Next == Edit \/ \E c \in Commands : Step(c) \/ (c \in DOMAIN Output /\ Dies(c))

Spec == Init /\ [][Next]_vars

-----------------------------------------------------------------------------
(* Properties.                                                              *)

Whole(path) == files[path] \notin {Absent, Torn}

\* Whatever was edited while its files were read, a forecast seal is of one candidate: the
\* experiment is that of the run lock, the records were made under a generation lock of just
\* these two and these rows, of seasons later than the lock's tabular ones, the forecasts are
\* those of the records value for value, failures kept and counted, and the times claimed
\* are in order.
SealIsOneCandidate ==
  Whole("seal") =>
    LET s == files["seal"]  lock == s.generationLock  experiment == Content["experiment"][s.experiment]
    IN /\ experiment.run = s.runLock /\ experiment.sampler = s.sampler
       /\ <<lock.runLock, lock.experiment, lock.rows>> = <<s.runLock, s.experiment, s.rows>>
       /\ \A early \in Content["runLock"][s.runLock].seasons, late \in lock.seasons : early < late
       /\ Ids(s.records) = Ids(Content["cohort"][s.cohort])
       /\ \A i \in DOMAIN s.records :
            /\ s.records[i].lock = lock
            /\ s.forecasts[i].value = s.records[i].value
            /\ Content["cohort"][s.cohort][i].prior = Content["rows"][s.rows][i].prior
       /\ s.failed = Cardinality({i \in DOMAIN s.forecasts : s.forecasts[i].value = "failed"})
       /\ experiment.createdAt <= lock.createdAt /\ lock.createdAt <= s.createdAt

\* A report advances the sealed candidate over games that neither its tabular gate nor its
\* training decision saw, against the comparator of that gate: cohort and forecasts are the
\* seal's, report and seasons those in the candidate's own run lock, no game is in both
\* cohorts and every season is later.
ReportIsOfNewGames ==
  Whole("report") =>
    LET r == files["report"]  run == Content["runLock"][r.seal.runLock]
        tabular == Content["tabularCohort"][r.tabularCohort]  sft == Content["cohort"][r.cohort]
    IN /\ <<r.cohort, r.forecasts>> = <<r.seal.cohort, r.seal.forecasts>>
       /\ r.seal = files["seal"]
       /\ run.report = r.tabularReport /\ run.policy = Policy
       /\ Content["tabularReport"][r.tabularReport].calibration = r.calibration
       /\ \A i \in DOMAIN sft, j \in DOMAIN tabular :
            sft[i].id # tabular[j].id /\ sft[i].season > tabular[j].season

\* A reported candidate beat raw and recalibrated Elo in each of at least two seasons, by its
\* own inference records and with an answer to every game: no failure was left out.
EverySeasonIsWon ==
  Whole("report") =>
    LET r == files["report"]  cohort == Content["cohort"][r.cohort]
    IN /\ Cardinality(SeasonsOf(cohort)) >= 2
       /\ Ids(Content["answers"][r.answers]) = Ids(cohort)
       /\ \A season \in SeasonsOf(cohort), baseline \in Baselines :
            SeasonWon(r.seal.records, cohort, season, baseline)

\* Generation lock, seal and report are written once: what is whole is never touched again,
\* and what a death left torn is neither completed nor replaced.
LocksAreFinal ==
  [][\A c \in DOMAIN Output :
       /\ Whole(Output[c]) => files[Output[c]]' = files[Output[c]]
       /\ files[Output[c]] = Torn /\ pc[c] # "writing" => files[Output[c]]' = Torn]_vars
=============================================================================
