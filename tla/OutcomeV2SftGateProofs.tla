----------------------- MODULE OutcomeV2SftGateProofs -----------------------
(***************************************************************************)
(* Proofs about OutcomeV2SftGate, for any files, candidates and edits and  *)
(* any number of commands at work.  What a command has captured are names  *)
(* of known contents (Reading), so what it builds says of itself that it   *)
(* is of one candidate (OneCandidate), of new games (NewGames) and earned  *)
(* (AllWon), and the seal it captured is the one on disk, which stays.     *)
(***************************************************************************)
EXTENDS OutcomeV2SftGate, FiniteSetTheorems, TLAPS

\* What SealIsOneCandidate says of the seal on disk, of any seal.
OneCandidate(s) ==
  LET lock == s.generationLock  experiment == Content["experiment"][s.experiment]
  IN /\ experiment.run = s.runLock /\ experiment.sampler = s.sampler
     /\ <<lock.runLock, lock.experiment, lock.rows>> = <<s.runLock, s.experiment, s.rows>>
     /\ \A early \in Content["runLock"][s.runLock].seasons, late \in lock.seasons : early < late
     /\ Ids(s.records) = Ids(Content["cohort"][s.cohort])
     /\ \A i \in DOMAIN s.records :
          /\ s.records[i].lock = lock
          /\ s.forecasts[i].value = s.records[i].value
          /\ Content["cohort"][s.cohort][i].prior = Content["rows"][s.rows][i].prior
     /\ s.failed = Cardinality({i \in DOMAIN s.forecasts : s.forecasts[i].value = "failed"})
     /\ experiment.createdAt <= lock.createdAt /\ lock.createdAt <= s.createdAt

\* What ReportIsOfNewGames says of the report on disk, of any report.
NewGames(r) ==
  LET run == Content["runLock"][r.seal.runLock]
      tabular == Content["tabularCohort"][r.tabularCohort]  sft == Content["cohort"][r.cohort]
  IN /\ <<r.cohort, r.forecasts>> = <<r.seal.cohort, r.seal.forecasts>>
     /\ r.seal = files["seal"]
     /\ run.report = r.tabularReport /\ run.policy = Policy
     /\ Content["tabularReport"][r.tabularReport].calibration = r.calibration
     /\ \A i \in DOMAIN sft, j \in DOMAIN tabular :
          sft[i].id # tabular[j].id /\ sft[i].season > tabular[j].season

\* What EverySeasonIsWon says of the report on disk, of any report.
AllWon(r) ==
  LET cohort == Content["cohort"][r.cohort]
  IN /\ Cardinality(SeasonsOf(cohort)) >= 2
     /\ Ids(Content["answers"][r.answers]) = Ids(cohort)
     /\ \A season \in SeasonsOf(cohort), baseline \in Baselines :
          SeasonWon(r.seal.records, cohort, season, baseline)

\* A report that says both of itself.
Earned(r) == NewGames(r) /\ AllWon(r)

Named(names) == \A p \in Inputs \cap DOMAIN names : names[p] \in DOMAIN Content[p]
Read(c, n) == {Reads[c][k] : k \in 1 .. n}

Reading(c) ==
  /\ IsFiniteSet(DOMAIN held[c])
  /\ Cardinality(DOMAIN held[c]) <= Len(Reads[c])
  /\ DOMAIN held[c] = Read(c, Cardinality(DOMAIN held[c]))
  /\ Named(held[c])
  /\ "seal" \in DOMAIN held[c] => Whole("seal") /\ held[c]["seal"] = files["seal"]

FilesInv ==
  /\ DOMAIN files = Inputs \cup Outputs
  /\ \A p \in Inputs : files[p] \in DOMAIN Content[p]
  /\ Whole("seal") => OneCandidate(files["seal"])
  /\ Whole("report") => Whole("seal") /\ Earned(files["report"])

HeldInv(c) ==
  /\ pc[c] = "reading" => Reading(c)
  /\ c \in DOMAIN Output /\ pc[c] = "writing" => files[Output[c]] = Torn
  /\ c = "seal" /\ pc[c] \in {"creating", "writing"} => OneCandidate(held[c]["seal"])
  /\ c = "gate" /\ pc[c] \in {"creating", "writing"} => Whole("seal") /\ Earned(held[c]["report"])

IInv ==
  /\ FilesInv
  /\ pc = [c \in Commands |-> pc[c]] /\ held = [c \in Commands |-> held[c]]
  /\ \A c \in Commands : HeldInv(c)

-----------------------------------------------------------------------------
(* Sequences of rows, and the seasons of them.                              *)

Rowed(rows) ==
  /\ Len(rows) \in Nat /\ DOMAIN rows = 1 .. Len(rows)
  /\ \A i \in DOMAIN rows : rows[i].season \in Nat

LEMMA GreatestOf ==
  ASSUME NEW S \in SUBSET Nat, NEW last \in S, \A s \in S : s <= last
  PROVE  Max(S) \in Nat /\ \A s \in S : s <= Max(S)
<1>1. \E x \in S : \A y \in S : x >= y
  OBVIOUS
<1> QED BY <1>1 DEF Max

LEMMA LeastOf ==
  ASSUME NEW S \in SUBSET Nat, NEW first \in S, \A s \in S : first <= s
  PROVE  Min(S) \in Nat /\ \A s \in S : Min(S) <= s
<1>1. \E x \in S : \A y \in S : x <= y
  OBVIOUS
<1> QED BY <1>1 DEF Min

\* Rows in the order of their seasons begin with the least season and end with the greatest.
LEMMA SeasonsInOrder ==
  ASSUME NEW rows, Rowed(rows), rows # << >>,
         \A i, j \in DOMAIN rows : i < j => rows[i].season <= rows[j].season
  PROVE  /\ Min(SeasonsOf(rows)) \in Nat /\ Max(SeasonsOf(rows)) \in Nat
         /\ \A s \in SeasonsOf(rows) :
              s \in Nat /\ Min(SeasonsOf(rows)) <= s /\ s <= Max(SeasonsOf(rows))
<1> DEFINE n == Len(rows)
<1>1. n \in Nat \ {0}
  BY DEF Rowed
<1>2. SeasonsOf(rows) \in SUBSET Nat
  BY DEF SeasonsOf, Rowed
<1>3. rows[1].season \in SeasonsOf(rows) /\ rows[n].season \in SeasonsOf(rows)
  BY <1>1 DEF SeasonsOf, Rowed
<1>4. \A s \in SeasonsOf(rows) : rows[1].season <= s
  BY <1>1 DEF SeasonsOf, Rowed
<1>5. \A s \in SeasonsOf(rows) : s <= rows[n].season
  BY <1>1 DEF SeasonsOf, Rowed
<1> QED BY <1>2, <1>3, <1>4, <1>5, GreatestOf, LeastOf

-----------------------------------------------------------------------------
(* What is built from captured names.                                       *)

Needed == {"runLock", "experiment", "cohort", "rows"}

LEMMA ContentRowed ==
  ASSUME NEW path \in {"rows", "cohort", "tabularCohort"}, NEW name \in DOMAIN Content[path]
  PROVE  Rowed(Content[path][name])
BY SeasonsAssumption DEF Rowed

LEMMA CohortInOrder ==
  ASSUME NEW path \in {"cohort", "tabularCohort"}, NEW name \in DOMAIN Content[path],
         NEW minimum, EvaluationCohort(Content[path][name], minimum)
  PROVE  LET rows == Content[path][name]
         IN /\ Min(SeasonsOf(rows)) \in Nat /\ Max(SeasonsOf(rows)) \in Nat
            /\ \A s \in SeasonsOf(rows) :
                 s \in Nat /\ Min(SeasonsOf(rows)) <= s /\ s <= Max(SeasonsOf(rows))
<1> DEFINE rows == Content[path][name]
<1>1. Rowed(rows)
  BY ContentRowed
<1>2. rows # << >> /\ \A i, j \in DOMAIN rows : i < j => rows[i].season <= rows[j].season
  BY DEF EvaluationCohort, UniqueIds
<1> HIDE DEF rows
<1> QED BY <1>1, <1>2, SeasonsInOrder DEF rows

LEMMA SealOfNames ==
  ASSUME NEW names, NEW at, Needed \subseteq DOMAIN names, Named(names), CanSeal(names, at)
  PROVE  OneCandidate(ForecastSeal(names, at))
<1> DEFINE s == ForecastSeal(names, at)
           lock == names["generationLock"]
           rows == Of(names, "rows")
           cohort == Of(names, "cohort")
           records == names["records"]
<1>1. /\ s.runLock = names["runLock"] /\ s.experiment = names["experiment"]
      /\ s.sampler = Of(names, "experiment").sampler /\ s.cohort = names["cohort"]
      /\ s.rows = names["rows"] /\ s.forecasts = names["forecasts"]
      /\ s.generationLock = lock /\ s.records = records /\ s.createdAt = at
      /\ s.failed = FailedRecords(records)
  BY DEF ForecastSeal
<1>2. names["cohort"] \in DOMAIN Content["cohort"] /\ names["rows"] \in DOMAIN Content["rows"]
      /\ names["runLock"] \in DOMAIN Content["runLock"]
  BY SftGateAssumption DEF Named, Needed
<1>3. /\ GenerationLockVerified(names) /\ RecordsCover(records, lock)
      /\ names["forecasts"] = BinaryForecasts(records)
      /\ EvaluationCohort(cohort, 1) /\ Ids(rows) = Ids(cohort)
      /\ \A i \in DOMAIN cohort : rows[i].season = cohort[i].season /\ rows[i].prior = cohort[i].prior
      /\ Of(names, "experiment").run = names["runLock"] /\ at >= lock.createdAt
  BY DEF CanSeal, AnswerFreeFilesVerified, ForecastsDerived, ProvenanceVerified
<1>4. /\ lock.runLock = names["runLock"] /\ lock.experiment = names["experiment"]
      /\ lock.rows = names["rows"] /\ lock.seasons = SeasonsOf(rows)
  BY <1>3 DEF GenerationLockVerified, GenerationLock
<1>5. CanGenerate(names, lock.createdAt)
  BY <1>3 DEF GenerationLockVerified
<1>6. \A early \in Of(names, "runLock").seasons, late \in lock.seasons : early < late
  <2> DEFINE seasons == Of(names, "runLock").seasons
  <2>1. seasons \in SUBSET Nat /\ \E last \in seasons : \A season \in seasons : season <= last
    BY <1>2, SeasonsAssumption DEF Of
  <2>2. Max(seasons) \in Nat /\ \A early \in seasons : early <= Max(seasons)
    <3> HIDE DEF seasons
    <3> QED BY <2>1, GreatestOf
  <2>3. SeasonsOf(rows) = SeasonsOf(cohort)
    <3>1. DOMAIN rows = DOMAIN cohort
      BY <1>3 DEF Ids
    <3> QED BY <1>3, <3>1 DEF SeasonsOf
  <2>4. Min(SeasonsOf(rows)) \in Nat
        /\ \A late \in SeasonsOf(rows) : late \in Nat /\ Min(SeasonsOf(rows)) <= late
    BY <1>2, <1>3, <2>3, CohortInOrder DEF Of
  <2>5. Min(SeasonsOf(rows)) > Max(seasons)
    BY <1>5 DEF CanGenerate, NewLaterRows
  <2> HIDE DEF seasons
  <2> SUFFICES ASSUME NEW early \in seasons, NEW late \in SeasonsOf(rows) PROVE early < late
    BY <1>4 DEF seasons
  <2>6. early \in Nat
    BY <2>1
  <2> QED BY <2>2, <2>4, <2>5, <2>6
<1>7. Ids(records) = Ids(cohort)
  BY <1>3, <1>4 DEF RecordsCover, Games, Of
<1>8. DOMAIN records = DOMAIN cohort
  BY <1>7 DEF Ids
<1>9. \A i \in DOMAIN records :
        records[i].lock = lock /\ names["forecasts"][i].value = records[i].value
  BY <1>3 DEF RecordsCover, BinaryForecasts
<1>10. FailedRecords(records)
         = Cardinality({i \in DOMAIN names["forecasts"] : names["forecasts"][i].value = "failed"})
  <2>1. DOMAIN names["forecasts"] = DOMAIN records
    BY <1>3 DEF BinaryForecasts
  <2>2. {i \in DOMAIN records : records[i].value = "failed"}
          = {i \in DOMAIN names["forecasts"] : names["forecasts"][i].value = "failed"}
    BY <1>9, <2>1
  <2> QED BY <2>2 DEF FailedRecords
<1>11. Of(names, "experiment").createdAt <= lock.createdAt /\ lock.createdAt <= at
  BY <1>3, <1>5 DEF CanGenerate
<1> HIDE DEF s
<1>12. QED
  BY <1>1, <1>3, <1>4, <1>6, <1>7, <1>8, <1>9, <1>10, <1>11 DEF OneCandidate, Of, s

LEMMA ReportOfNames ==
  ASSUME NEW names, Needed \cup {"tabularCohort"} \subseteq DOMAIN names, Named(names),
         CanReport(names), names["seal"] = files["seal"]
  PROVE  NewGames(Report(names))
<1> DEFINE r == Report(names)
           tabular == Of(names, "tabularCohort")
           sft == Of(names, "cohort")
<1>1. /\ r.seal = names["seal"] /\ r.tabularReport = names["tabularReport"]
      /\ r.tabularCohort = names["tabularCohort"] /\ r.cohort = names["cohort"]
      /\ r.calibration = names["calibration"] /\ r.forecasts = names["forecasts"]
  BY DEF Report
<1>2. /\ names["cohort"] \in DOMAIN Content["cohort"]
      /\ names["tabularCohort"] \in DOMAIN Content["tabularCohort"]
  BY SftGateAssumption DEF Named, Needed
<1>3. names["seal"].cohort = names["cohort"] /\ names["seal"].forecasts = names["forecasts"]
      /\ names["seal"].runLock = names["runLock"]
  BY DEF CanReport, SealVerified, ForecastSeal
<1>4. /\ names["tabularReport"] = Of(names, "runLock").report /\ EvaluationCohort(tabular, 1)
      /\ Of(names, "tabularReport").calibration = names["calibration"]
      /\ Of(names, "runLock").policy = Policy
  BY DEF CanReport, TabularGateVerified, SameCalibration
<1>5. EvaluationCohort(sft, 1)
  BY DEF CanReport, SealVerified, CanSeal, AnswerFreeFilesVerified
<1>6. \A i \in DOMAIN sft, j \in DOMAIN tabular : sft[i].id # tabular[j].id
  <2>1. ToSet(Ids(sft)) \cap ToSet(Ids(tabular)) = {}
    BY DEF CanReport, NewLaterCohort
  <2> SUFFICES ASSUME NEW i \in DOMAIN sft, NEW j \in DOMAIN tabular
               PROVE  sft[i].id # tabular[j].id
    OBVIOUS
  <2>2. sft[i].id \in ToSet(Ids(sft)) /\ tabular[j].id \in ToSet(Ids(tabular))
    BY DEF ToSet, Ids
  <2> QED BY <2>1, <2>2
<1>7. \A i \in DOMAIN sft, j \in DOMAIN tabular : sft[i].season > tabular[j].season
  <2>1. Min(SeasonsOf(sft)) > Max(SeasonsOf(tabular))
    BY DEF CanReport, NewLaterCohort
  <2>2. Min(SeasonsOf(sft)) \in Nat
        /\ \A s \in SeasonsOf(sft) : s \in Nat /\ Min(SeasonsOf(sft)) <= s
    BY <1>2, <1>5, CohortInOrder DEF Of
  <2>3. Max(SeasonsOf(tabular)) \in Nat
        /\ \A s \in SeasonsOf(tabular) : s \in Nat /\ s <= Max(SeasonsOf(tabular))
    BY <1>2, <1>4, CohortInOrder DEF Of
  <2> SUFFICES ASSUME NEW i \in DOMAIN sft, NEW j \in DOMAIN tabular
               PROVE  sft[i].season > tabular[j].season
    OBVIOUS
  <2>4. sft[i].season \in SeasonsOf(sft) /\ tabular[j].season \in SeasonsOf(tabular)
    BY DEF SeasonsOf
  <2> QED BY <2>1, <2>2, <2>3, <2>4
<1> HIDE DEF r
<1> QED BY <1>1, <1>3, <1>4, <1>6, <1>7 DEF NewGames, Of, r

\* A block is won or lost by what the forecasts say, not by the rows they stand in.
LEMMA SameSeasonsWon ==
  ASSUME NEW cohort, NEW f, NEW g, \A i \in DOMAIN cohort : f[i].value = g[i].value,
         NEW season, NEW baseline, SeasonWon(f, cohort, season, baseline)
  PROVE  SeasonWon(g, cohort, season, baseline)
<1>1. ASSUME NEW block
      PROVE  BlockAdvantage(f, cohort, season, block, baseline)
               = BlockAdvantage(g, cohort, season, block, baseline)
  <2> DEFINE games == {i \in DOMAIN cohort : cohort[i].season = season /\ cohort[i].block = block}
             gains(forecasts) ==
               [i \in games |-> Skill[forecasts[i].value] - BaselineSkill[baseline]]
  <2>1. gains(f) = gains(g)
    OBVIOUS
  <2>2. BlockAdvantage(f, cohort, season, block, baseline) = SumFunction(gains(f))
        /\ BlockAdvantage(g, cohort, season, block, baseline) = SumFunction(gains(g))
    BY DEF BlockAdvantage
  <2> HIDE DEF gains
  <2> QED BY <2>1, <2>2
<1> QED BY <1>1 DEF SeasonWon

LEMMA WonOfNames ==
  ASSUME NEW names, CanReport(names)
  PROVE  AllWon(Report(names))
<1> DEFINE cohort == Of(names, "cohort")
           forecasts == names["forecasts"]
           records == names["records"]
<1>1. /\ Report(names).cohort = names["cohort"] /\ Report(names).answers = names["answers"]
      /\ Report(names).seal = names["seal"]
  BY DEF Report
<1>2. names["seal"].records = records
  BY DEF CanReport, SealVerified, ForecastSeal
<1>3. GatePasses(cohort, Of(names, "answers"), forecasts, Of(names, "calibration"), Policy)
  BY DEF CanReport
<1>4. Cardinality(SeasonsOf(cohort)) >= 2 /\ Ids(Of(names, "answers")) = Ids(cohort)
  BY <1>3 DEF GatePasses, EvaluationCohort, ExactIds
<1>5. \A i \in DOMAIN cohort : forecasts[i].value = records[i].value
  <2>1. forecasts = BinaryForecasts(records) /\ Ids(forecasts) = Ids(cohort)
    BY <1>3 DEF CanReport, SealVerified, CanSeal, AnswerFreeFilesVerified, ForecastsDerived,
                GatePasses, ExactIds
  <2>2. DOMAIN forecasts = DOMAIN cohort
    BY <2>1 DEF Ids
  <2> QED BY <2>1, <2>2 DEF BinaryForecasts
<1>6. ASSUME NEW season \in SeasonsOf(cohort), NEW baseline \in Baselines
      PROVE  SeasonWon(records, cohort, season, baseline)
  <2>1. SeasonWon(forecasts, cohort, season, baseline)
    BY <1>3 DEF GatePasses, PassesEverySeason
  <2> HIDE DEF cohort, forecasts, records
  <2> QED BY <1>5, <2>1, SameSeasonsWon
<1> QED BY <1>1, <1>2, <1>4, <1>6 DEF AllWon, Of

-----------------------------------------------------------------------------
(* What a command has captured.                                             *)

LEMMA ReadsOf ==
  ASSUME NEW c \in Commands
  PROVE  /\ Len(Reads[c]) \in Nat
         /\ \A n \in Nat : n < Len(Reads[c]) => Reads[c][n + 1] \notin Read(c, n)
<1>1. CASE c = "generate"
  BY <1>1 DEF Reads, Read
<1>2. CASE c = "infer"
  BY <1>2 DEF Reads, Read
<1>3. CASE c = "seal"
  <2>1. Len(Reads[c]) = 10
    BY <1>3 DEF Reads
  <2>2. \A k, m \in 1 .. 10 : k < m => Reads[c][k] # Reads[c][m]
    BY <1>3 DEF Reads
  <2> QED BY <2>1, <2>2 DEF Read
<1>4. CASE c = "gate"
  <2>1. Len(Reads[c]) = 15
    BY <1>4 DEF Reads
  <2>2. \A k, m \in 1 .. 15 : k < m => Reads[c][k] # Reads[c][m]
    BY <1>4 DEF Reads
  <2> QED BY <2>1, <2>2 DEF Read
<1> QED BY <1>1, <1>2, <1>3, <1>4 DEF Commands

\* All of its paths, when it has read.
LEMMA AllRead ==
  ASSUME NEW c \in Commands, IInv, HasRead(c)
  PROVE  DOMAIN held[c] = Read(c, Len(Reads[c])) /\ Reading(c)
BY DEF IInv, HeldInv, HasRead, Reading

\* Nothing is captured yet.
LEMMA NothingRead ==
  ASSUME NEW c \in Commands, held'[c] = << >>
  PROVE  Reading(c)'
<1>1. DOMAIN held'[c] = {}
  OBVIOUS
<1>2. IsFiniteSet({}) /\ Cardinality({}) = 0
  BY FS_EmptySet
<1>3. Len(Reads[c]) \in Nat
  BY ReadsOf
<1> QED BY <1>1, <1>2, <1>3 DEF Reading, Read, Named

-----------------------------------------------------------------------------
(* Steps.                                                                   *)

\* The whole locks, and the torn ones that others are at work on, stay.
LocksKept(c) ==
  /\ \A path \in {"generationLock", "seal", "report"} : Whole(path) => files'[path] = files[path]
  /\ \A d \in DOMAIN Output \ {c} : files[Output[d]] = Torn => files'[Output[d]] = Torn

\* A command holds what it held while the locks stay.
LEMMA OthersHold ==
  ASSUME NEW c, NEW d \in Commands \ {c}, HeldInv(d), LocksKept(c),
         pc'[d] = pc[d], held'[d] = held[d]
  PROVE  HeldInv(d)'
<1>1. Whole("seal") => Whole("seal")' /\ files'["seal"] = files["seal"]
  BY DEF LocksKept, Whole
<1>2. pc[d] = "reading" => Reading(d)'
  BY <1>1 DEF HeldInv, Reading, Named
<1>3. d \in DOMAIN Output /\ pc[d] = "writing" => files'[Output[d]] = Torn
  BY DEF HeldInv, LocksKept
<1>4. d = "gate" /\ pc[d] \in {"creating", "writing"} =>
        Whole("seal")' /\ Earned(held[d]["report"])'
  BY <1>1 DEF HeldInv, Earned, NewGames, AllWon
<1> QED BY <1>2, <1>3, <1>4 DEF HeldInv, OneCandidate, Output

LEMMA CommandStep ==
  ASSUME IInv, NEW c \in Commands, NEW place, NEW holds,
         pc' = [pc EXCEPT ![c] = place], held' = [held EXCEPT ![c] = holds],
         LocksKept(c), FilesInv', HeldInv(c)'
  PROVE  IInv'
<1>1. pc' = [d \in Commands |-> pc'[d]] /\ held' = [d \in Commands |-> held'[d]]
  BY DEF IInv
<1>2. ASSUME NEW d \in Commands \ {c} PROVE HeldInv(d)'
  <2>1. pc'[d] = pc[d] /\ held'[d] = held[d]
    BY DEF IInv
  <2> QED BY <2>1, OthersHold DEF IInv
<1> QED BY <1>1, <1>2 DEF IInv

\* A step that changes no file.
LEMMA PrivateStep ==
  ASSUME IInv, NEW c \in Commands, NEW place, NEW holds, UNCHANGED files,
         pc' = [pc EXCEPT ![c] = place], held' = [held EXCEPT ![c] = holds], HeldInv(c)'
  PROVE  IInv'
<1>1. LocksKept(c)
  BY DEF LocksKept, Output
<1>2. FilesInv'
  BY DEF IInv, FilesInv, Whole, OneCandidate, Earned, NewGames, AllWon
<1> QED BY <1>1, <1>2, CommandStep

\* A file that is no lock is written.
LEMMA FileWritten ==
  ASSUME IInv, NEW path \in (Inputs \cup Outputs) \ {"generationLock", "seal", "report"}, NEW value,
         path \in Inputs => value \in DOMAIN Content[path],
         files' = [files EXCEPT ![path] = value]
  PROVE  FilesInv' /\ \A c : LocksKept(c)
<1>1. \A p \in {"generationLock", "seal", "report"} : files'[p] = files[p]
  BY DEF IInv, FilesInv, Outputs
<1>2. \A c : LocksKept(c)
  BY <1>1 DEF LocksKept, Output
<1>3. FilesInv'
  <2>1. DOMAIN files' = Inputs \cup Outputs /\ \A p \in Inputs : files'[p] \in DOMAIN Content[p]
    BY DEF IInv, FilesInv
  <2>2. Whole("seal")' = Whole("seal") /\ Whole("report")' = Whole("report")
    BY <1>1 DEF Whole
  <2>3. Whole("seal") => OneCandidate(files'["seal"])
    BY <1>1 DEF IInv, FilesInv
  <2>4. Whole("report") => Whole("seal") /\ Earned(files["report"])'
    <3>1. Whole("report") => Whole("seal") /\ Earned(files["report"])
      BY DEF IInv, FilesInv
    <3>2. files'["report"] = files["report"] /\ files'["seal"] = files["seal"]
      BY <1>1
    <3>3. Earned(files["report"]) => Earned(files["report"])'
      BY <3>2 DEF Earned, NewGames, AllWon
    <3> QED BY <3>1, <3>3
  <2> QED BY <1>1, <2>1, <2>2, <2>3, <2>4 DEF FilesInv, OneCandidate
<1> QED BY <1>2, <1>3

LEMMA Leaves ==
  ASSUME IInv, NEW c \in Commands, Leave(c)
  PROVE  IInv'
<1>1. pc' = [pc EXCEPT ![c] = "reading"] /\ held' = [held EXCEPT ![c] = << >>] /\ UNCHANGED files
  BY DEF Leave, End
<1>2. pc'[c] = "reading" /\ held'[c] = << >>
  BY <1>1 DEF IInv
<1>3. HeldInv(c)'
  BY <1>2, NothingRead DEF HeldInv
<1> QED BY <1>1, <1>3, PrivateStep

LEMMA CaptureStep ==
  ASSUME IInv, NEW c \in Commands, Capture(c)
  PROVE  IInv'
<1> DEFINE n == Cardinality(DOMAIN held[c])
           path == Reads[c][n + 1]
<1>1. CASE files[path] \in {Absent, Torn}
  BY <1>1, Leaves DEF Capture
<1>2. CASE files[path] \notin {Absent, Torn}
  <2>1. /\ pc[c] = "reading" /\ n < Len(Reads[c])
        /\ held' = [held EXCEPT ![c] = With(held[c], path, files[path])] /\ UNCHANGED <<files, pc>>
    BY <1>2 DEF Capture, IInv
  <2>2. Reading(c)
    BY <2>1 DEF IInv, HeldInv
  <2>3. pc' = [pc EXCEPT ![c] = pc[c]] /\ held'[c] = With(held[c], path, files[path])
    BY <2>1 DEF IInv
  <2>4. n \in Nat /\ Len(Reads[c]) \in Nat /\ path \notin DOMAIN held[c]
    <3>1. n \in Nat
      BY <2>2, FS_CardinalityType DEF Reading
    <3> QED BY <2>1, <2>2, <3>1, ReadsOf DEF Reading
  <2>5. DOMAIN held'[c] = DOMAIN held[c] \cup {path}
    BY <2>3 DEF With
  <2>6. IsFiniteSet(DOMAIN held'[c]) /\ Cardinality(DOMAIN held'[c]) = n + 1
    <3> DEFINE S == DOMAIN held[c]
    <3>1. IsFiniteSet(S)
      BY <2>2 DEF Reading
    <3> HIDE DEF path, S
    <3>2. IsFiniteSet(S \cup {path}) /\ Cardinality(S \cup {path})
            = IF path \in S THEN Cardinality(S) ELSE Cardinality(S) + 1
      BY <3>1, FS_AddElement
    <3> QED BY <2>4, <2>5, <3>2 DEF S
  <2>7. DOMAIN held'[c] = Read(c, n + 1)
    <3>1. Read(c, n + 1) = Read(c, n) \cup {path}
      <4>1. 1 .. (n + 1) = (1 .. n) \cup {n + 1}
        BY <2>4
      <4> QED BY <4>1 DEF Read
    <3> QED BY <2>2, <2>5, <3>1 DEF Reading
  <2>8. Named(held'[c])
    BY <2>2, <2>3, <2>5 DEF Reading, Named, With, IInv, FilesInv
  <2>9. "seal" \in DOMAIN held'[c] => Whole("seal")' /\ held'[c]["seal"] = files'["seal"]
    <3>1. CASE path = "seal"
      BY <1>2, <2>1, <2>3, <2>5, <3>1 DEF With, Whole
    <3>2. CASE path # "seal"
      BY <2>1, <2>2, <2>3, <2>5, <3>2 DEF With, Whole, Reading
    <3> QED BY <3>1, <3>2
  <2>10. Reading(c)'
    BY <2>1, <2>4, <2>6, <2>7, <2>8, <2>9 DEF Reading, Read, Named
  <2>11. HeldInv(c)'
    BY <2>1, <2>3, <2>10 DEF HeldInv
  <2> HIDE DEF path
  <2> QED BY <2>1, <2>3, <2>11, PrivateStep
<1> QED BY <1>1, <1>2

LEMMA BuildGenerationLockStep ==
  ASSUME IInv, BuildGenerationLock
  PROVE  IInv'
<1>1. PICK at : \/ /\ held' = [held EXCEPT !["generate"] =
                                 [generationLock |-> GenerationLock(held["generate"], at)]]
                   /\ pc' = [pc EXCEPT !["generate"] = "creating"] /\ UNCHANGED <<files, faults>>
                \/ Leave("generate")
  BY DEF BuildGenerationLock
<1>2. "generate" \in Commands
  BY DEF Commands
<1>3. CASE Leave("generate")
  BY <1>2, <1>3, Leaves
<1>4. CASE ~Leave("generate")
  <2>1. pc'["generate"] = "creating"
    BY <1>1, <1>2, <1>4 DEF IInv
  <2>2. HeldInv("generate")'
    BY <2>1 DEF HeldInv
  <2> QED BY <1>1, <1>2, <1>4, <2>2, PrivateStep
<1> QED BY <1>3, <1>4

LEMMA BuildSealStep ==
  ASSUME IInv, BuildSeal
  PROVE  IInv'
<1> DEFINE names == held["seal"]
<1>1. PICK at : \/ /\ CanSeal(names, at)
                   /\ held' = [held EXCEPT !["seal"] = [seal |-> ForecastSeal(names, at)]]
                   /\ pc' = [pc EXCEPT !["seal"] = "creating"] /\ UNCHANGED <<files, faults>>
                \/ Leave("seal")
  BY DEF BuildSeal
<1>2. "seal" \in Commands
  BY DEF Commands
<1>3. CASE Leave("seal")
  BY <1>2, <1>3, Leaves
<1>4. CASE ~Leave("seal")
  <2>1. DOMAIN names = Read("seal", Len(Reads["seal"])) /\ Named(names)
    BY <1>2, AllRead DEF BuildSeal, Reading
  <2>2. Needed \subseteq DOMAIN names
    <3>1. Len(Reads["seal"]) = 10 /\ Reads["seal"][1] = "runLock" /\ Reads["seal"][2] = "experiment"
          /\ Reads["seal"][3] = "cohort" /\ Reads["seal"][4] = "rows"
      BY DEF Reads
    <3> QED BY <2>1, <3>1 DEF Read, Needed
  <2>3. OneCandidate(ForecastSeal(names, at))
    <3> HIDE DEF names
    <3> QED BY <1>1, <1>4, <2>1, <2>2, SealOfNames
  <2>4. pc'["seal"] = "creating" /\ held'["seal"]["seal"] = ForecastSeal(names, at)
    BY <1>1, <1>2, <1>4 DEF IInv
  <2>5. HeldInv("seal")'
    BY <2>3, <2>4 DEF HeldInv, OneCandidate
  <2> QED BY <1>1, <1>2, <1>4, <2>5, PrivateStep
<1> QED BY <1>3, <1>4

LEMMA VerifyGateStep ==
  ASSUME IInv, VerifyGate
  PROVE  IInv'
<1> DEFINE names == held["gate"]
<1>2. "gate" \in Commands
  BY DEF Commands
<1>3. CASE Leave("gate")
  BY <1>2, <1>3, Leaves
<1>4. CASE ~Leave("gate")
  <2>1. /\ CanReport(names) /\ HasRead("gate")
        /\ held' = [held EXCEPT !["gate"] = [report |-> Report(names)]]
        /\ pc' = [pc EXCEPT !["gate"] = "creating"] /\ UNCHANGED files
    BY <1>4 DEF VerifyGate
  <2>2. DOMAIN names = Read("gate", Len(Reads["gate"])) /\ Reading("gate")
    BY <1>2, <2>1, AllRead
  <2>3. Needed \cup {"seal", "tabularCohort"} \subseteq DOMAIN names
    <3>1. Len(Reads["gate"]) = 15 /\ Reads["gate"][1] = "seal" /\ Reads["gate"][2] = "runLock"
          /\ Reads["gate"][3] = "experiment" /\ Reads["gate"][4] = "cohort"
          /\ Reads["gate"][5] = "rows" /\ Reads["gate"][12] = "tabularCohort"
      BY DEF Reads
    <3> QED BY <2>2, <3>1 DEF Read, Needed
  <2>4. Named(names) /\ Whole("seal") /\ names["seal"] = files["seal"]
    BY <2>2, <2>3 DEF Reading
  <2>5. Earned(Report(names))
    <3> HIDE DEF names
    <3> QED BY <2>1, <2>3, <2>4, ReportOfNames, WonOfNames DEF Earned
  <2>6. pc'["gate"] = "creating" /\ held'["gate"]["report"] = Report(names)
    BY <1>2, <2>1 DEF IInv
  <2>7. HeldInv("gate")'
    <3> HIDE DEF names
    <3>1. Earned(held'["gate"]["report"])
      BY <2>5, <2>6
    <3>2. Earned(held["gate"]["report"])'
      BY <2>1, <3>1 DEF Earned, NewGames, AllWon
    <3> QED BY <2>1, <2>4, <2>6, <3>2 DEF HeldInv, Whole
  <2> QED BY <1>2, <2>1, <2>7, PrivateStep
<1> QED BY <1>3, <1>4

\* The inference: a file that is no lock, or nothing, is written, and it is not reading.
LEMMA InferStep ==
  ASSUME IInv,
         \/ PrepareInference \/ WritePrompts \/ JournalCalls
         \/ CompileRecords \/ CompileForecasts \/ InferenceEnds
  PROVE  IInv'
<1> DEFINE Places == {"prompts", "calls", "records", "forecasts", "compiled"}
<1>1. "infer" \in Commands
  BY DEF Commands
<1>2. ASSUME NEW next \in Places, NEW holds,
             pc' = [pc EXCEPT !["infer"] = next], held' = [held EXCEPT !["infer"] = holds],
             FilesInv', LocksKept("infer")
      PROVE  IInv'
  <2>1. pc'["infer"] = next
    BY <1>1, <1>2 DEF IInv
  <2>2. HeldInv("infer")'
    BY <2>1 DEF HeldInv
  <2> QED BY <1>1, <1>2, <2>2, CommandStep
<1>3. ASSUME NEW next \in Places, UNCHANGED files,
             pc' = [pc EXCEPT !["infer"] = next], UNCHANGED held
      PROVE  IInv'
  <2>1. held' = [held EXCEPT !["infer"] = held["infer"]]
    BY <1>3 DEF IInv
  <2>2. FilesInv' /\ LocksKept("infer")
    BY <1>3 DEF IInv, FilesInv, LocksKept, Output, Whole, OneCandidate, Earned, NewGames, AllWon
  <2> QED BY <1>2, <1>3, <2>1, <2>2
<1>4. ASSUME NEW path \in {"prompts", "records", "forecasts"}, NEW value, NEW next \in Places,
             CreateOrVerify(path, value, next)
      PROVE  IInv'
  <2>1. path \in (Inputs \cup Outputs) \ {"generationLock", "seal", "report"} /\ path \notin Inputs
    BY SftGateAssumption DEF Outputs
  <2>2. CASE /\ files' = [files EXCEPT ![path] = value] /\ pc' = [pc EXCEPT !["infer"] = next]
             /\ UNCHANGED held
    <3>1. held' = [held EXCEPT !["infer"] = held["infer"]]
      BY <2>2 DEF IInv
    <3>2. FilesInv' /\ LocksKept("infer")
      BY <2>1, <2>2, FileWritten
    <3> QED BY <1>2, <2>2, <3>1, <3>2
  <2>3. CASE UNCHANGED <<files, held>> /\ pc' = [pc EXCEPT !["infer"] = next]
    BY <1>3, <2>3
  <2>4. CASE Leave("infer")
    BY <1>1, <2>4, Leaves
  <2> QED BY <1>4, <2>2, <2>3, <2>4 DEF CreateOrVerify
<1>5. ASSUME NEW records, Journaled(records)
      PROVE  IInv'
  <2>1. "journal" \in (Inputs \cup Outputs) \ {"generationLock", "seal", "report"}
        /\ "journal" \notin Inputs
    BY SftGateAssumption DEF Outputs
  <2>2. FilesInv' /\ LocksKept("infer")
    BY <1>5, <2>1, FileWritten DEF Journaled
  <2>3. held' = [held EXCEPT !["infer"] = With(held["infer"], "records", records)]
    BY <1>1, <1>5 DEF IInv, Journaled
  <2> QED BY <1>2, <1>5, <2>2, <2>3 DEF Journaled
<1>6. CASE PrepareInference
  BY <1>1, <1>3, <1>6, Leaves DEF PrepareInference
<1>7. CASE WritePrompts
  BY <1>4, <1>7 DEF WritePrompts
<1>8. CASE JournalCalls
  <2>1. CASE Leave("infer")
    BY <1>1, <2>1, Leaves
  <2>2. CASE ~Leave("infer")
    <3>1. \E records : Journaled(records)
      BY <1>8, <2>2 DEF JournalCalls
    <3> QED BY <1>5, <3>1
  <2> QED BY <2>1, <2>2
<1>9. CASE CompileRecords
  BY <1>4, <1>9 DEF CompileRecords
<1>10. CASE CompileForecasts
  BY <1>4, <1>10 DEF CompileForecasts
<1>11. CASE InferenceEnds
  BY <1>1, <1>11, Leaves DEF InferenceEnds
<1> QED BY <1>6, <1>7, <1>8, <1>9, <1>10, <1>11

\* A lock that is absent or torn is written by its command.
LEMMA LockWritten ==
  ASSUME IInv, NEW c \in DOMAIN Output, ~Whole(Output[c]), NEW value,
         files' = [files EXCEPT ![Output[c]] = value],
         c = "seal" /\ value \notin {Absent, Torn} => OneCandidate(value),
         c = "gate" /\ value \notin {Absent, Torn} => Whole("seal") /\ Earned(value)
  PROVE  FilesInv' /\ LocksKept(c)
<1>1. /\ DOMAIN Output = {"generate", "seal", "gate"} /\ Output["generate"] = "generationLock"
      /\ Output["seal"] = "seal" /\ Output["gate"] = "report"
  BY DEF Output
<1>2. Output[c] \in Outputs /\ Output[c] \notin Inputs
  BY <1>1, SftGateAssumption DEF Outputs
<1>3. files'[Output[c]] = value /\ \A p : p # Output[c] => files'[p] = files[p]
  BY <1>2 DEF IInv, FilesInv
<1>4. LocksKept(c)
  BY <1>1, <1>3 DEF LocksKept
<1>5. DOMAIN files' = Inputs \cup Outputs /\ \A p \in Inputs : files'[p] \in DOMAIN Content[p]
  BY <1>2, <1>3 DEF IInv, FilesInv
<1>6. CASE c = "generate"
  <2>1. files'["seal"] = files["seal"] /\ files'["report"] = files["report"]
    BY <1>1, <1>3, <1>6
  <2>2. Earned(files["report"]) => Earned(files["report"])'
    BY <2>1 DEF Earned, NewGames, AllWon
  <2>3. Whole("seal")' = Whole("seal") /\ Whole("report")' = Whole("report")
    BY <2>1 DEF Whole
  <2>4. Whole("seal")' => OneCandidate(files["seal"])'
    BY <2>1, <2>3 DEF IInv, FilesInv, OneCandidate
  <2>5. Whole("report")' => Whole("seal")' /\ Earned(files["report"])'
    BY <2>2, <2>3 DEF IInv, FilesInv
  <2> QED BY <1>4, <1>5, <2>4, <2>5 DEF FilesInv
<1>7. CASE c = "seal"
  <2>1. ~Whole("report")
    BY <1>1, <1>7 DEF IInv, FilesInv
  <2>2. ~Whole("report")'
    BY <1>1, <1>3, <1>7, <2>1 DEF Whole
  <2>3. Whole("seal")' => OneCandidate(files'["seal"])
    BY <1>1, <1>3, <1>7 DEF Whole
  <2> QED BY <1>4, <1>5, <2>2, <2>3 DEF FilesInv, OneCandidate
<1>8. CASE c = "gate"
  <2>1. files'["seal"] = files["seal"] /\ files'["report"] = value
    BY <1>1, <1>3, <1>8
  <2>2. Whole("report")' => Whole("seal") /\ Earned(value)
    BY <1>8, <2>1 DEF Whole
  <2>3. Earned(value) => Earned(files["report"])'
    BY <2>1 DEF Earned, NewGames, AllWon
  <2>4. Whole("seal")' = Whole("seal") /\ (Whole("seal") => OneCandidate(files["seal"]))
    BY <2>1 DEF Whole, IInv, FilesInv
  <2> QED BY <1>4, <1>5, <2>1, <2>2, <2>3, <2>4 DEF FilesInv, OneCandidate
<1> QED BY <1>1, <1>4, <1>6, <1>7, <1>8

LEMMA CreateStep ==
  ASSUME IInv, NEW c \in DOMAIN Output, Create(c)
  PROVE  IInv'
<1>1. c \in Commands
  BY DEF Output, Commands
<1>2. CASE Leave(c)
  BY <1>1, <1>2, Leaves
<1>3. CASE ~Leave(c)
  <2>1. /\ pc[c] = "creating" /\ files[Output[c]] = Absent
        /\ files' = [files EXCEPT ![Output[c]] = Torn]
        /\ pc' = [pc EXCEPT ![c] = "writing"] /\ UNCHANGED held
    BY <1>3 DEF Create
  <2>2. FilesInv' /\ LocksKept(c)
    BY <2>1, LockWritten DEF Whole
  <2>3. held' = [held EXCEPT ![c] = held[c]] /\ pc'[c] = "writing"
    BY <1>1, <2>1 DEF IInv
  <2>4. files'[Output[c]] = Torn
    <3>1. Output[c] \in Outputs
      BY DEF Output, Outputs
    <3> QED BY <2>1, <3>1 DEF IInv, FilesInv
  <2>5. c = "seal" => OneCandidate(held[c]["seal"])'
    BY <1>1, <2>1 DEF IInv, HeldInv, OneCandidate
  <2>6. c = "gate" => Whole("seal")' /\ Earned(held[c]["report"])'
    <3> SUFFICES ASSUME c = "gate" PROVE Whole("seal")' /\ Earned(held[c]["report"])'
      OBVIOUS
    <3>1. Whole("seal") /\ Earned(held[c]["report"])
      BY <1>1, <2>1 DEF IInv, HeldInv
    <3>2. files'["seal"] = files["seal"]
      BY <2>1 DEF Output, IInv, FilesInv, Outputs
    <3> QED BY <2>1, <3>1, <3>2 DEF Whole, Earned, NewGames, AllWon
  <2>7. HeldInv(c)'
    BY <2>3, <2>4, <2>5, <2>6 DEF HeldInv
  <2> QED BY <1>1, <2>1, <2>2, <2>3, <2>7, CommandStep
<1> QED BY <1>2, <1>3

LEMMA WriteStep ==
  ASSUME IInv, NEW c \in DOMAIN Output, Write(c)
  PROVE  IInv'
<1>1. c \in Commands
  BY DEF Output, Commands
<1>2. /\ pc[c] = "writing" /\ files' = [files EXCEPT ![Output[c]] = held[c][Output[c]]]
      /\ pc' = [pc EXCEPT ![c] = "reading"] /\ held' = [held EXCEPT ![c] = << >>]
  BY DEF Write, End
<1>3. files[Output[c]] = Torn
  BY <1>1, <1>2 DEF IInv, HeldInv
<1>4. c = "seal" => OneCandidate(held[c][Output[c]])
  BY <1>1, <1>2 DEF IInv, HeldInv, Output
<1>5. c = "gate" => Whole("seal") /\ Earned(held[c][Output[c]])
  BY <1>1, <1>2 DEF IInv, HeldInv, Output
<1>6. FilesInv' /\ LocksKept(c)
  BY <1>2, <1>3, <1>4, <1>5, LockWritten DEF Whole
<1>7. pc'[c] = "reading" /\ held'[c] = << >>
  BY <1>1, <1>2 DEF IInv
<1>8. HeldInv(c)'
  BY <1>1, <1>7, NothingRead DEF HeldInv
<1> QED BY <1>1, <1>2, <1>6, <1>8, CommandStep

LEMMA EditStep ==
  ASSUME IInv, Edit
  PROVE  IInv'
<1>1. PICK path \in Editable : \E value \in Replacements(path) \ {files[path]} :
        files' = [files EXCEPT ![path] = value]
  BY DEF Edit
<1> PICK value \in Replacements(path) : files' = [files EXCEPT ![path] = value]
  BY <1>1
<1>2. UNCHANGED <<pc, held>>
  BY DEF Edit
<1>3. path \in Inputs \cup Outputs
  BY SftGateAssumption
<1>4. path \notin {"generationLock", "seal", "report"}
  <2>1. path \in {"generationLock", "seal", "report"} => path \notin Inputs
    BY SftGateAssumption
  <2> QED BY <1>1, <2>1 DEF Replacements
<1>5. path \in Inputs => value \in DOMAIN Content[path]
  BY <1>1 DEF Replacements
<1>6. FilesInv' /\ \A c : LocksKept(c)
  BY <1>1, <1>3, <1>4, <1>5, FileWritten
<1>7. ASSUME NEW d \in Commands PROVE HeldInv(d)'
  <2>1. PICK c \in Commands : c # d
    BY DEF Commands
  <2> QED BY <1>2, <1>6, <2>1, OthersHold DEF IInv
<1> QED BY <1>2, <1>6, <1>7 DEF IInv

LEMMA InitInv == Init => IInv
<1> SUFFICES ASSUME Init PROVE IInv
  OBVIOUS
<1>1. PICK start \in Started :
        files = [p \in Inputs \cup Outputs |-> IF p \in Inputs THEN start[p] ELSE Absent]
  BY DEF Init
<1>2. \A p \in Inputs : files[p] \in DOMAIN Content[p]
  BY <1>1, SftGateAssumption
<1>3. ~Whole("seal") /\ ~Whole("report")
  BY <1>1, SftGateAssumption DEF Whole, Outputs
<1>4. FilesInv
  BY <1>1, <1>2, <1>3 DEF FilesInv
<1>5. ASSUME NEW c \in Commands PROVE HeldInv(c)
  <2>1. pc[c] = "reading" /\ held[c] = << >>
    BY DEF Init
  <2>2. DOMAIN held[c] = {} /\ IsFiniteSet({}) /\ Cardinality({}) = 0 /\ Len(Reads[c]) \in Nat
    BY <2>1, FS_EmptySet, ReadsOf
  <2>3. Reading(c)
    BY <2>2 DEF Reading, Read, Named
  <2> QED BY <2>1, <2>3 DEF HeldInv
<1> QED BY <1>4, <1>5 DEF IInv, Init

LEMMA NextInv == IInv /\ [Next]_vars => IInv'
<1> SUFFICES ASSUME IInv, [Next]_vars PROVE IInv'
  OBVIOUS
<1>1. CASE UNCHANGED vars
  <2> USE <1>1 DEF vars
  <2>1. FilesInv'
    BY DEF IInv, FilesInv, Whole, OneCandidate, Earned, NewGames, AllWon
  <2>2. ASSUME NEW d \in Commands PROVE HeldInv(d)'
    <3>1. PICK c \in Commands : c # d
      BY DEF Commands
    <3>2. LocksKept(c)
      BY DEF LocksKept, Output
    <3> QED BY <3>1, <3>2, OthersHold DEF IInv
  <2> QED BY <2>1, <2>2 DEF IInv
<1>2. CASE Edit
  BY <1>2, EditStep
<1>3. ASSUME NEW c \in Commands, Step(c) PROVE IInv'
  <2>1. CASE Capture(c)
    BY <1>3, <2>1, CaptureStep
  <2>2. CASE c = "generate" /\ BuildGenerationLock
    BY <2>2, BuildGenerationLockStep
  <2>3. CASE c = "infer" /\ (\/ PrepareInference \/ WritePrompts \/ JournalCalls
                             \/ CompileRecords \/ CompileForecasts \/ InferenceEnds)
    BY <2>3, InferStep
  <2>4. CASE c = "seal" /\ BuildSeal
    BY <2>4, BuildSealStep
  <2>5. CASE c = "gate" /\ VerifyGate
    BY <2>5, VerifyGateStep
  <2>6. CASE c \in DOMAIN Output /\ (Create(c) \/ Write(c))
    BY <2>6, CreateStep, WriteStep
  <2> QED BY <1>3, <2>1, <2>2, <2>3, <2>4, <2>5, <2>6 DEF Step
<1>4. ASSUME NEW c \in DOMAIN Output, Dies(c) PROVE IInv'
  <2>1. c \in Commands
    BY DEF Output, Commands
  <2>2. Leave(c) \/ (End(c) /\ UNCHANGED files)
    BY <1>4 DEF Dies
  <2>3. pc' = [pc EXCEPT ![c] = "reading"] /\ held' = [held EXCEPT ![c] = << >>]
    BY <1>4 DEF Dies, End
  <2>4. pc'[c] = "reading" /\ held'[c] = << >>
    BY <2>1, <2>3 DEF IInv
  <2>5. HeldInv(c)'
    BY <2>1, <2>4, NothingRead DEF HeldInv
  <2> QED BY <1>4, <2>1, <2>3, <2>5, PrivateStep DEF Dies
<1> QED BY <1>1, <1>2, <1>3, <1>4 DEF Next

\* What is captured, built and written is always as described above.
THEOREM Invariance == Spec => []IInv
<1> QED BY InitInv, NextInv, PTL DEF Spec

-----------------------------------------------------------------------------
(* The theorems.                                                            *)

\* Whatever is edited while its files are read, a forecast seal is of one candidate.
THEOREM SealsAreOfOneCandidate == Spec => []SealIsOneCandidate
<1>1. IInv => SealIsOneCandidate
  BY DEF IInv, FilesInv, SealIsOneCandidate, OneCandidate
<1> QED BY <1>1, Invariance, PTL

\* A report advances the candidate that is sealed on disk, over games and seasons that its
\* tabular gate did not see.
THEOREM ReportsAreOfNewGames == Spec => []ReportIsOfNewGames
<1>1. IInv => ReportIsOfNewGames
  BY DEF IInv, FilesInv, ReportIsOfNewGames, Earned, NewGames, AllWon
<1> QED BY <1>1, Invariance, PTL

\* A reported candidate beat both baselines in each of at least two seasons, by its own
\* inference records.
THEOREM ReportsAreEarned == Spec => []EverySeasonIsWon
<1>1. IInv => EverySeasonIsWon
  BY DEF IInv, FilesInv, EverySeasonIsWon, Earned, AllWon
<1> QED BY <1>1, Invariance, PTL

LEMMA StepKeepsLocks ==
  ASSUME IInv, [Next]_vars, NEW d \in DOMAIN Output
  PROVE  /\ Whole(Output[d]) => files'[Output[d]] = files[Output[d]]
         /\ files[Output[d]] = Torn /\ pc[d] # "writing" => files'[Output[d]] = Torn
<1> DEFINE Goal == /\ Whole(Output[d]) => files'[Output[d]] = files[Output[d]]
                   /\ files[Output[d]] = Torn /\ pc[d] # "writing" => files'[Output[d]] = Torn
<1>1. ASSUME UNCHANGED files PROVE Goal
  BY <1>1
<1>2. ASSUME NEW path, NEW value, files' = [files EXCEPT ![path] = value],
             path \notin {"generationLock", "seal", "report"}
      PROVE  Goal
  <2>1. Output[d] # path /\ Output[d] \in DOMAIN files
    BY <1>2 DEF Output, IInv, FilesInv, Outputs
  <2> QED BY <1>2, <2>1
<1>3. CASE Edit
  <2>1. PICK path \in Editable : \E value \in Replacements(path) \ {files[path]} :
          files' = [files EXCEPT ![path] = value]
    BY <1>3 DEF Edit
  <2>2. path \in {"generationLock", "seal", "report"} => path \notin Inputs
    BY SftGateAssumption
  <2>3. path \notin {"generationLock", "seal", "report"}
    BY <2>1, <2>2 DEF Replacements
  <2> QED BY <1>2, <2>1, <2>3
<1>4. ASSUME NEW c \in Commands, Step(c) PROVE Goal
  <2>1. CASE Capture(c)
    BY <1>1, <2>1 DEF Capture, Leave
  <2>2. CASE BuildGenerationLock \/ BuildSeal \/ VerifyGate \/ PrepareInference \/ InferenceEnds
    BY <1>1, <2>2 DEF BuildGenerationLock, BuildSeal, VerifyGate, PrepareInference, InferenceEnds, Leave
  <2>3. ASSUME NEW path \in {"prompts", "records", "forecasts"}, NEW value, NEW next,
               CreateOrVerify(path, value, next)
        PROVE  Goal
    BY <1>1, <1>2, <2>3 DEF CreateOrVerify, Leave
  <2>4. CASE WritePrompts \/ CompileRecords \/ CompileForecasts
    BY <2>3, <2>4 DEF WritePrompts, CompileRecords, CompileForecasts
  <2>5. CASE JournalCalls
    <3>1. Leave("infer") \/ \E records : Journaled(records)
      BY <2>5 DEF JournalCalls
    <3> QED BY <1>1, <1>2, <3>1 DEF Journaled, Leave
  <2>6. CASE c \in DOMAIN Output /\ Create(c)
    <3>1. CASE files[Output[c]] = Absent /\ files' = [files EXCEPT ![Output[c]] = Torn]
      BY <3>1 DEF Whole, IInv, FilesInv, Output, Outputs
    <3> QED BY <1>1, <2>6, <3>1 DEF Create, Leave
  <2>7. CASE c \in DOMAIN Output /\ Write(c)
    <3>1. pc[c] = "writing" /\ files' = [files EXCEPT ![Output[c]] = held[c][Output[c]]]
      BY <2>7 DEF Write
    <3>2. files[Output[c]] = Torn
      BY <2>7, <3>1 DEF IInv, HeldInv
    <3>3. CASE c = d
      BY <3>1, <3>2, <3>3 DEF Whole
    <3>4. CASE c # d
      <4>1. Output[d] # Output[c] /\ Output[d] \in DOMAIN files
        BY <2>7, <3>4 DEF Output, IInv, FilesInv, Outputs
      <4> QED BY <3>1, <4>1
    <3> QED BY <3>3, <3>4
  <2> QED BY <1>4, <2>1, <2>2, <2>4, <2>5, <2>6, <2>7 DEF Step
<1>5. CASE \E c \in DOMAIN Output : Dies(c)
  BY <1>1, <1>5 DEF Dies
<1>6. CASE UNCHANGED vars
  BY <1>1, <1>6 DEF vars
<1> QED BY <1>3, <1>4, <1>5, <1>6 DEF Next

\* Generation lock, seal and report are written once: nothing whole is touched again, and what
\* a death left torn is neither completed nor replaced.
THEOREM WrittenOnce == Spec => LocksAreFinal
<1>1. IInv /\ [Next]_vars =>
        [\A c \in DOMAIN Output :
           /\ Whole(Output[c]) => files[Output[c]]' = files[Output[c]]
           /\ files[Output[c]] = Torn /\ pc[c] # "writing" => files[Output[c]]' = Torn]_vars
  BY StepKeepsLocks
<1> QED BY <1>1, Invariance, PTL DEF Spec, LocksAreFinal
=============================================================================
