----------------------- MODULE RollingEvaluationProofs -----------------------
(***************************************************************************)
(* Proofs about RollingEvaluation, for any games, seasons and batches, any *)
(* error of the callers' clocks and any number of deaths, useless runs and *)
(* moved games.                                                            *)
(*                                                                         *)
(* Nothing here ever goes back: a file that is whole stays what it is, a   *)
(* run stays in the history, time passes (Monotone).  So what was verified *)
(* once of an aggregate or of a score is still true; what has to be shown  *)
(* is what the history of main says of the time a batch was made, and that *)
(* a league that moves its games cannot change who knew what.              *)
(***************************************************************************)
EXTENDS RollingEvaluation, WellFoundedInduction, SequenceTheorems, TLAPS

-----------------------------------------------------------------------------
(* Least and greatest elements of sets of natural numbers.                 *)

LEMMA LeastNatural ==
  ASSUME NEW S \in SUBSET Nat, S # {}
  PROVE  \E x \in S : \A y \in S : x <= y
<1>1. PICK x \in S : \A y \in S : ~(<<y, x>> \in OpToRel(<, Nat))
  BY NatLessThanWellFounded, WFMin
<1>2. ASSUME NEW y \in S PROVE x <= y
  <2>1. ~(y < x)
    BY <1>1 DEF OpToRel
  <2> QED BY <2>1
<1> QED BY <1>2

LEMMA MinNatural ==
  ASSUME NEW S \in SUBSET Nat, S # {}
  PROVE  Min(S) \in S /\ \A y \in S : Min(S) <= y
BY LeastNatural DEF Min

LEMMA MaxNatural ==
  ASSUME NEW S \in SUBSET Nat, S # {}, NEW bound \in Nat, \A y \in S : y <= bound
  PROVE  Max(S) \in S /\ \A y \in S : y <= Max(S)
<1> DEFINE T == {bound - y : y \in S}
<1>1. T \in SUBSET Nat /\ T # {}
  <2>1. \A y \in S : bound - y \in Nat
    OBVIOUS
  <2> QED BY <2>1
<1>2. PICK x \in T : \A z \in T : x <= z
  <2> HIDE DEF T
  <2> QED BY <1>1, LeastNatural
<1>3. PICK y \in S : x = bound - y
  OBVIOUS
<1>4. \A z \in S : bound - y <= bound - z
  BY <1>2, <1>3
<1>5. \A z \in S : y >= z
  BY <1>4
<1> QED BY <1>5 DEF Max

-----------------------------------------------------------------------------
(* The inductive invariant.                                                *)

AggregateUses == UNION {Uses(batches) : batches \in (SUBSET Batches) \ {{}}}
Runs == [at : Times, head : SUBSET Artifacts, usable : BOOLEAN]

RollingTypeOK ==
  /\ now \in Times /\ due \in [Games -> Nat]
  /\ DOMAIN file = Artifacts /\ file = [a \in Artifacts |-> file[a]]
  /\ file[Plan] \in {NoFile} \cup PlanRecords
  /\ \A s \in Seasons : file[s] \in {NoFile} \cup CoverageRecords(s)
  /\ \A b \in Batches : file[b] \in {NoFile} \cup BatchRecords
  /\ head \subseteq Artifacts /\ runs \in Seq(Runs)
  /\ aggregate \in [schedule : {NoFile, Torn} \cup AggregateUses,
                    forecasts : {NoFile, Torn} \cup AggregateUses,
                    seal : {NoFile, Torn} \cup AggregateUses]
  /\ score \in [inputs : {NoFile, Torn} \cup SUBSET Batches,
                seal : {NoFile, Torn} \cup ScoringRecords]

\* What main holds was there when it was pushed, and a batch was made before.
HistoryInv ==
  /\ \A b \in Batches : Whole(file[b]) => file[b].made <= now
  /\ \A a \in head : Whole(file[a])
  /\ \A k \in DOMAIN runs :
       /\ runs[k].at <= now
       /\ \A a \in runs[k].head :
            Whole(file[a]) /\ (a \in Batches => file[a].made <= runs[k].at)

\* A row's prior is what was out when its batch was made, however games are moved after that.
RowsInv ==
  \A b \in Batches : Whole(file[b]) =>
    \A g \in DOMAIN file[b].rows : file[b].rows[g].elo = Results(g, file[b].made)

AggregateInv ==
  /\ aggregate.schedule = NoFile => aggregate.seal = NoFile
  /\ Whole(aggregate.seal) =>
       /\ DisjointBatches(aggregate.seal.batches)
       /\ \A a \in {Plan} \cup Seasons \cup aggregate.seal.batches :
            Whole(file[a]) /\ aggregate.seal.receipt[a] \in DOMAIN runs
  /\ AggregatedForecastsPrecedeCutoffs
  /\ CommitmentsPrecedeInputs

\* When a score is sealed every game is over.
ScoreInv ==
  Whole(score.seal) =>
    /\ Whole(aggregate.seal)
    /\ \A b \in aggregate.seal.batches : \A g \in DOMAIN file[b].rows :
         file[b].rows[g].elo = CanonicalElo(g)
    /\ \A g \in Games : FinalAt(g) <= now

IInv == RollingTypeOK /\ HistoryInv /\ RowsInv /\ AggregateInv /\ ScoreInv

-----------------------------------------------------------------------------
(* Files and their games.                                                  *)

LEMMA MarkersAreNoContent ==
  /\ \A f \in PlanRecords \cup BatchRecords \cup ScoringRecords : Whole(f)
  /\ \A s \in Seasons : \A f \in CoverageRecords(s) : Whole(f)
  /\ \A f \in AggregateUses \cup SUBSET Batches : Whole(f)
  /\ ~Whole(NoFile) /\ ~Whole(Torn)
BY MarkersAssumption DEF Whole, AggregateUses

LEMMA WholeFiles ==
  ASSUME RollingTypeOK
  PROVE  /\ Whole(file[Plan]) => file[Plan] \in PlanRecords
         /\ \A s \in Seasons : Whole(file[s]) => file[s] \in CoverageRecords(s)
         /\ \A b \in Batches : Whole(file[b]) => file[b] \in BatchRecords
         /\ \A a \in Artifacts : ~Whole(file[a]) => file[a] = NoFile
<1>1. Artifacts = {Plan} \cup Seasons \cup Batches
  BY DEF Artifacts
<1>2. ~Whole(NoFile)
  BY MarkersAreNoContent
<1>3. \A a \in Artifacts : Whole(file[a]) \/ file[a] = NoFile
  BY <1>1, MarkersAreNoContent DEF RollingTypeOK
<1> QED BY <1>2, <1>3 DEF RollingTypeOK

LEMMA WholeAggregate ==
  ASSUME RollingTypeOK, Whole(aggregate.seal)
  PROVE  /\ aggregate.seal.batches \in (SUBSET Batches) \ {{}}
         /\ aggregate.seal \in Uses(aggregate.seal.batches)
<1>1. aggregate.seal \in AggregateUses
  BY DEF RollingTypeOK, Whole
<1>2. PICK batches \in (SUBSET Batches) \ {{}} : aggregate.seal \in Uses(batches)
  BY <1>1 DEF AggregateUses
<1>3. aggregate.seal.batches = batches
  BY <1>2 DEF Uses
<1> QED BY <1>2, <1>3

LEMMA BatchRows ==
  ASSUME NEW f \in BatchRecords
  PROVE  /\ f.made \in Times /\ f.at \in Times
         /\ DOMAIN f.rows \in (SUBSET Games) \ {{}}
         /\ \A g \in DOMAIN f.rows : f.rows[g] \in Rows
BY DEF BatchRecords

\* The schedules of all seasons are those of all games.
LEMMA AllAreScheduled ==
  ASSUME RollingTypeOK, \A s \in Seasons : Whole(file[s])
  PROVE  /\ Scheduled = Games
         /\ \A g \in Games : CommittedCutoff(g) \in Nat /\ SeasonOf[g] \in Seasons
<1>1. \A s \in Seasons : file[s] \in CoverageRecords(s)
  BY WholeFiles
<1>2. \A s \in Seasons : DOMAIN file[s].cutoffs = SeasonGames(s)
  BY <1>1 DEF CoverageRecords
<1>3. \A g \in Games : SeasonOf[g] \in Seasons /\ g \in SeasonGames(SeasonOf[g])
  BY SeasonsAssumption DEF SeasonGames
<1>4. Scheduled = Games
  BY <1>2, <1>3 DEF Scheduled, SeasonGames
<1>5. \A g \in Games : file[SeasonOf[g]].cutoffs[g] \in Nat
  BY <1>1, <1>3 DEF CoverageRecords
<1> QED BY <1>3, <1>4, <1>5 DEF CommittedCutoff

\* A game of an aggregate has one batch.
LEMMA RowOfBatch ==
  ASSUME NEW batches, DisjointBatches(batches), NEW b \in batches, NEW g \in DOMAIN file[b].rows
  PROVE  RowOf(batches, g) = file[b].rows[g]
<1>1. \A c \in batches : g \in DOMAIN file[c].rows => c = b
  BY DEF DisjointBatches
<1> QED BY <1>1 DEF RowOf

LEMMA RowBounds ==
  ASSUME NEW f \in BatchRecords, NEW g \in DOMAIN f.rows
  PROVE  /\ Earliest(f.rows) \in Nat /\ Earliest(f.rows) <= f.rows[g].cutoff
         /\ FirstInput(f.rows) \in Nat /\ FirstInput(f.rows) <= f.rows[g].input
<1>1. \A h \in DOMAIN f.rows : f.rows[h].cutoff \in Nat /\ f.rows[h].input \in Nat
  BY BatchRows DEF Rows
<1> DEFINE C == {f.rows[h].cutoff : h \in DOMAIN f.rows}
           I == {f.rows[h].input : h \in DOMAIN f.rows}
<1>2. C \in SUBSET Nat /\ f.rows[g].cutoff \in C /\ I \in SUBSET Nat /\ f.rows[g].input \in I
  BY <1>1
<1>3. Earliest(f.rows) = Min(C) /\ FirstInput(f.rows) = Min(I)
  BY DEF Earliest, FirstInput
<1> HIDE DEF C, I
<1>4. Min(C) \in C /\ Min(C) <= f.rows[g].cutoff
  BY <1>2, MinNatural
<1>5. Min(I) \in I /\ Min(I) <= f.rows[g].input
  BY <1>2, MinNatural
<1> QED BY <1>2, <1>3, <1>4, <1>5

\* A feature row built by now is a row.
LEMMA RowTypes ==
  ASSUME RollingTypeOK, NEW g \in Games
  PROVE  Row(g) \in Rows /\ Row(g).elo = Results(g, now)
<1> DEFINE S == {Input[g]} \cup {FinalAt(h) : h \in Results(g, now)}
<1>1. \A h \in Games : FinalAt(h) \in Nat
  BY CalendarAssumption DEF FinalAt, RollingTypeOK
<1>2. Results(g, now) \subseteq Games /\ \A h \in Results(g, now) : FinalAt(h) <= now
  BY DEF Results, SeasonGames
<1>3. Input[g] \in Nat /\ now \in Nat /\ due[g] \in Nat
  BY CalendarAssumption DEF RollingTypeOK, Times
<1>4. S \in SUBSET Nat /\ S # {}
  BY <1>1, <1>2, <1>3
<1>5. \A y \in S : y <= Input[g] + now
  BY <1>1, <1>2, <1>3
<1>6. Input[g] + now \in Nat
  BY <1>3
<1>7. Max(S) \in Nat
  <2> HIDE DEF S
  <2> QED BY <1>4, <1>5, <1>6, MaxNatural
<1> QED BY <1>2, <1>3, <1>7 DEF Row, Rows

LEMMA InitIInv == Init => IInv
<1> SUFFICES ASSUME Init PROVE IInv
  OBVIOUS
<1>1. now = 0 /\ 0 \in Times
  BY BoundsAssumption DEF Init, Times
<1>2. \A a \in Artifacts : file[a] = NoFile
  BY DEF Init
<1>3. RollingTypeOK
  BY <1>1, <1>2, CalendarAssumption DEF Init, RollingTypeOK, Artifacts
<1>4. ~Whole(NoFile)
  BY MarkersAreNoContent
<1>5. HistoryInv /\ RowsInv
  BY <1>2, <1>4 DEF Init, HistoryInv, RowsInv, Artifacts
<1>6. AggregateInv /\ ScoreInv
  BY <1>4 DEF Init, AggregateInv, ScoreInv, AggregatedForecastsPrecedeCutoffs, CommitmentsPrecedeInputs
<1> QED BY <1>3, <1>5, <1>6 DEF IInv

-----------------------------------------------------------------------------
(* The types.                                                              *)

LEMMA PushType ==
  ASSUME RollingTypeOK, Push
  PROVE  RollingTypeOK'
<1>1. head' \subseteq Artifacts
  BY DEF Push, RollingTypeOK
<1>2. PICK usable \in BOOLEAN : runs' = Append(runs, [at |-> now, head |-> head', usable |-> usable])
  BY DEF Push
<1>3. [at |-> now, head |-> head', usable |-> usable] \in Runs
  BY <1>1 DEF Runs, RollingTypeOK
<1>4. runs' \in Seq(Runs)
  BY <1>2, <1>3, AppendProperties DEF RollingTypeOK
<1>5. UNCHANGED <<now, due, file, aggregate, score>>
  BY DEF Push
<1> QED BY <1>1, <1>4, <1>5 DEF RollingTypeOK

LEMMA WriteOnceType ==
  ASSUME RollingTypeOK, NEW a \in Artifacts, NEW content, WriteOnce(a, content),
         a = Plan => content \in PlanRecords,
         a \in Seasons => content \in CoverageRecords(a),
         a \in Batches => content \in BatchRecords
  PROVE  RollingTypeOK'
<1>1. /\ DOMAIN file' = Artifacts /\ file' = [x \in Artifacts |-> file'[x]]
      /\ \A x \in Artifacts : file'[x] = IF x = a THEN content ELSE file[x]
  BY DEF WriteOnce, RollingTypeOK
<1>2. UNCHANGED <<now, due, head, runs, aggregate, score>>
  BY DEF WriteOnce
<1>3. /\ file'[Plan] \in {NoFile} \cup PlanRecords
      /\ \A s \in Seasons : file'[s] \in {NoFile} \cup CoverageRecords(s)
      /\ \A b \in Batches : file'[b] \in {NoFile} \cup BatchRecords
  BY <1>1 DEF RollingTypeOK, Artifacts
<1> QED BY <1>1, <1>2, <1>3 DEF RollingTypeOK

LEMMA CoverageTypes ==
  ASSUME RollingTypeOK, NEW s \in Seasons, NEW at \in Times, NEW deadline \in Deadlines
  PROVE  CoverageRecord(s, at, deadline) \in CoverageRecords(s)
BY DEF CoverageRecord, CoverageRecords, SeasonGames, RollingTypeOK

LEMMA BatchTypes ==
  ASSUME RollingTypeOK, NEW games \in (SUBSET Games) \ {{}}, NEW at \in Times
  PROVE  BatchRecord([g \in games |-> Row(g)], at) \in BatchRecords
<1>1. [g \in games |-> Row(g)] \in [games -> Rows]
  BY RowTypes
<1>2. [g \in games |-> Row(g)] \in UNION {[some -> Rows] : some \in (SUBSET Games) \ {{}}}
  BY <1>1
<1> QED BY <1>2 DEF BatchRecord, BatchRecords, RollingTypeOK

\* What is written as an aggregate has the type of one.
LEMMA WriteAggregateUses ==
  ASSUME RollingTypeOK, WriteAggregate
  PROVE  \E use \in AggregateUses :
           \/ aggregate' = [schedule |-> use, forecasts |-> use, seal |-> use]
           \/ aggregate' \in Interrupted(use)
<1>1. PICK batches \in (SUBSET Batches) \ {{}} :
        \E receipt \in Receipts({Plan} \cup Seasons \cup batches), planDeadline \in Deadlines,
           at \in Times :
          LET use == AggregateRecord(batches, receipt, planDeadline, at)
          IN \/ aggregate' = [schedule |-> use, forecasts |-> use, seal |-> use]
             \/ aggregate' \in Interrupted(use)
  BY DEF WriteAggregate, Claims
<1>2. PICK receipt \in Receipts({Plan} \cup Seasons \cup batches), planDeadline \in Deadlines,
           at \in Times :
        LET use == AggregateRecord(batches, receipt, planDeadline, at)
        IN \/ aggregate' = [schedule |-> use, forecasts |-> use, seal |-> use]
           \/ aggregate' \in Interrupted(use)
  BY <1>1
<1>3. DOMAIN runs \subseteq Nat
  BY LenProperties DEF RollingTypeOK
<1>4. AggregateRecord(batches, receipt, planDeadline, at) \in Uses(batches)
  BY <1>3 DEF AggregateRecord, Uses, Receipts
<1>5. AggregateRecord(batches, receipt, planDeadline, at) \in AggregateUses
  BY <1>4 DEF AggregateUses
<1> QED BY <1>2, <1>5

LEMMA WriteAggregateType ==
  ASSUME RollingTypeOK, WriteAggregate
  PROVE  RollingTypeOK'
<1>1. aggregate' \in [schedule : {NoFile, Torn} \cup AggregateUses,
                      forecasts : {NoFile, Torn} \cup AggregateUses,
                      seal : {NoFile, Torn} \cup AggregateUses]
  BY WriteAggregateUses DEF Interrupted
<1>2. UNCHANGED <<now, due, file, head, runs, score>>
  BY DEF WriteAggregate
<1> QED BY <1>1, <1>2 DEF RollingTypeOK

LEMMA ScoreTypes ==
  ASSUME RollingTypeOK, WriteScoringInputs \/ WriteScoringSeal
  PROVE  RollingTypeOK'
<1>1. UNCHANGED <<now, due, file, head, runs, aggregate>>
  BY DEF WriteScoringInputs, WriteScoringSeal
<1>2. CASE WriteScoringInputs
  <2>1. aggregate.seal.batches \in SUBSET Batches
    BY <1>2, WholeAggregate DEF WriteScoringInputs, Scorable
  <2>2. score' \in [inputs : {NoFile, Torn} \cup SUBSET Batches,
                    seal : {NoFile, Torn} \cup ScoringRecords]
    BY <1>2, <2>1 DEF WriteScoringInputs, RollingTypeOK
  <2> QED BY <1>1, <2>2 DEF RollingTypeOK
<1>3. CASE WriteScoringSeal
  <2>1. score.inputs \in SUBSET Batches
    BY <1>3 DEF WriteScoringSeal, RollingTypeOK, Whole
  <2>2. \A at \in Claims : ScoringRecord(at) \in ScoringRecords
    BY <2>1 DEF ScoringRecord, ScoringRecords, Claims
  <2>3. score' \in [inputs : {NoFile, Torn} \cup SUBSET Batches,
                    seal : {NoFile, Torn} \cup ScoringRecords]
    BY <1>3, <2>2 DEF WriteScoringSeal, RollingTypeOK
  <2> QED BY <1>1, <2>3 DEF RollingTypeOK
<1> QED BY <1>2, <1>3

LEMMA TypeStep == RollingTypeOK /\ [Next]_vars => RollingTypeOK'
<1> SUFFICES ASSUME RollingTypeOK, [Next]_vars PROVE RollingTypeOK'
  OBVIOUS
<1>1. CASE UNCHANGED vars \/ WriteGateReport
  BY <1>1 DEF vars, WriteGateReport, RollingTypeOK
<1>2. CASE Tick
  BY <1>2, BoundsAssumption DEF Tick, RollingTypeOK, Times
<1>3. CASE Push
  BY <1>3, PushType
<1>4. CASE WritePlan
  <2>1. PICK at \in Times : WriteOnce(Plan, PlanRecord(at))
    BY <1>4 DEF WritePlan, Claims
  <2>2. PlanRecord(at) \in PlanRecords
    BY DEF PlanRecord, PlanRecords
  <2> QED BY <2>1, <2>2, PathsAssumption, WriteOnceType DEF Artifacts
<1>5. ASSUME NEW s \in Seasons, SealCoverage(s) PROVE RollingTypeOK'
  <2>1. PICK at \in Times, deadline \in Deadlines : WriteOnce(s, CoverageRecord(s, at, deadline))
    BY <1>5 DEF SealCoverage, Claims
  <2> QED BY <2>1, CoverageTypes, PathsAssumption, WriteOnceType DEF Artifacts
<1>6. ASSUME NEW b \in Batches, SealBatch(b) PROVE RollingTypeOK'
  <2>1. PICK games \in (SUBSET Games) \ {{}}, at \in Times :
          WriteOnce(b, BatchRecord([g \in games |-> Row(g)], at))
    BY <1>6 DEF SealBatch, Claims
  <2> QED BY <2>1, BatchTypes, PathsAssumption, WriteOnceType DEF Artifacts
<1>7. CASE WriteAggregate
  BY <1>7, WriteAggregateType
<1>8. CASE WriteScoringInputs \/ WriteScoringSeal
  BY <1>8, ScoreTypes
<1>9. ASSUME NEW g \in Movable, Reschedule(g) PROVE RollingTypeOK'
  <2>1. now \in Nat /\ due[g] \in Nat /\ g \in Games
    BY CalendarAssumption DEF RollingTypeOK, Times
  <2>2. due' \in [Games -> Nat]
    BY <1>9, <2>1 DEF Reschedule, RollingTypeOK
  <2> QED BY <1>9, <2>2 DEF Reschedule, RollingTypeOK
<1> QED BY <1>1, <1>2, <1>3, <1>4, <1>5, <1>6, <1>7, <1>8, <1>9 DEF Next

-----------------------------------------------------------------------------
(* Nothing goes back.                                                      *)

LEMMA WriteOnceKeeps ==
  ASSUME RollingTypeOK, NEW a \in Artifacts, NEW content, WriteOnce(a, content)
  PROVE  \A x \in Artifacts : file'[x] = IF x = a THEN content ELSE file[x]
BY DEF WriteOnce, RollingTypeOK

\* A batch is as it was or has just been made.
LEMMA BatchStep ==
  ASSUME RollingTypeOK, [Next]_vars, NEW b \in Batches
  PROVE  \/ file'[b] = file[b]
         \/ /\ file[b] = NoFile /\ UNCHANGED <<now, due>>
            /\ \E games \in (SUBSET Games) \ {{}}, at \in Times :
                 file'[b] = BatchRecord([g \in games |-> Row(g)], at)
<1>1. CASE \/ UNCHANGED vars \/ WriteGateReport \/ Tick \/ Push \/ WriteAggregate
           \/ WriteScoringInputs \/ WriteScoringSeal \/ \E g \in Movable : Reschedule(g)
  BY <1>1 DEF vars, WriteGateReport, Tick, Push, WriteAggregate, WriteScoringInputs,
              WriteScoringSeal, Reschedule
<1>2. CASE WritePlan
  BY <1>2, PathsAssumption, WriteOnceKeeps DEF WritePlan, Artifacts
<1>3. ASSUME NEW s \in Seasons, SealCoverage(s) PROVE file'[b] = file[b]
  BY <1>3, PathsAssumption, WriteOnceKeeps DEF SealCoverage, Artifacts
<1>4. ASSUME NEW c \in Batches, SealBatch(c), c # b PROVE file'[b] = file[b]
  BY <1>4, WriteOnceKeeps DEF SealBatch, Artifacts
<1>5. CASE SealBatch(b)
  <2>1. PICK games \in (SUBSET Games) \ {{}}, at \in Times :
          WriteOnce(b, BatchRecord([g \in games |-> Row(g)], at))
    BY <1>5 DEF SealBatch, Claims
  <2>2. file'[b] = BatchRecord([g \in games |-> Row(g)], at)
    BY <2>1, WriteOnceKeeps DEF Artifacts
  <2> QED BY <2>1, <2>2 DEF WriteOnce
<1> QED BY <1>1, <1>2, <1>3, <1>4, <1>5 DEF Next

LEMMA FilesKept ==
  ASSUME RollingTypeOK, [Next]_vars, NEW a \in Artifacts, Whole(file[a])
  PROVE  file'[a] = file[a]
<1>1. CASE \/ UNCHANGED vars \/ WriteGateReport \/ Tick \/ Push \/ WriteAggregate
           \/ WriteScoringInputs \/ WriteScoringSeal \/ \E g \in Movable : Reschedule(g)
  BY <1>1 DEF vars, WriteGateReport, Tick, Push, WriteAggregate, WriteScoringInputs,
              WriteScoringSeal, Reschedule
<1>2. ASSUME NEW x \in Artifacts, NEW content, WriteOnce(x, content) PROVE file'[a] = file[a]
  BY <1>2, WriteOnceKeeps, MarkersAreNoContent DEF WriteOnce
<1> QED BY <1>1, <1>2 DEF Next, WritePlan, SealCoverage, SealBatch, Artifacts

LEMMA Monotone ==
  ASSUME IInv, [Next]_vars
  PROVE  /\ now \in Nat /\ now' \in Nat /\ now <= now'
         /\ \A k \in DOMAIN runs : k \in DOMAIN runs' /\ runs'[k] = runs[k]
         /\ Whole(aggregate.seal) => aggregate' = aggregate
         /\ Whole(score.seal) => score'.seal = score.seal
<1>1. now \in Nat /\ now' \in Nat
  BY TypeStep DEF IInv, RollingTypeOK, Times
<1>2. now <= now'
  <2>1. now' = now \/ now' = now + 1
    BY DEF Next, vars, WriteGateReport, Tick, Push, WritePlan, SealCoverage, SealBatch,
           WriteOnce, WriteAggregate, WriteScoringInputs, WriteScoringSeal, Reschedule
  <2> QED BY <1>1, <2>1
<1>3. \A k \in DOMAIN runs : k \in DOMAIN runs' /\ runs'[k] = runs[k]
  <2>1. CASE Push
    <3>1. PICK r : runs' = Append(runs, r)
      BY <2>1 DEF Push
    <3>2. runs \in Seq(Runs) /\ Len(runs) \in Nat /\ DOMAIN runs = 1 .. Len(runs)
      BY LenProperties DEF IInv, RollingTypeOK
    <3> QED BY <3>1, <3>2
  <2>2. CASE ~Push
    BY <2>2 DEF Next, vars, WriteGateReport, Tick, WritePlan, SealCoverage, SealBatch,
                WriteOnce, WriteAggregate, WriteScoringInputs, WriteScoringSeal, Reschedule
  <2> QED BY <2>1, <2>2
<1>4. Whole(aggregate.seal) => aggregate' = aggregate
  <2>1. Whole(aggregate.seal) => aggregate.schedule # NoFile
    BY MarkersAreNoContent DEF IInv, AggregateInv
  <2> QED BY <2>1 DEF Next, vars, WriteGateReport, Tick, Push, WritePlan, SealCoverage, SealBatch,
                WriteOnce, WriteAggregate, WriteScoringInputs, WriteScoringSeal, Reschedule
<1>5. Whole(score.seal) => score'.seal = score.seal
  <2>1. CASE WriteScoringInputs
    BY <2>1 DEF WriteScoringInputs, IInv, RollingTypeOK
  <2>2. CASE WriteScoringSeal
    BY <2>2, MarkersAreNoContent DEF WriteScoringSeal
  <2> QED BY <2>1, <2>2 DEF Next, vars, WriteGateReport, Tick, Push, WritePlan, SealCoverage,
                SealBatch, WriteOnce, WriteAggregate, Reschedule
<1> QED BY <1>1, <1>2, <1>3, <1>4, <1>5

\* The league moves games that are still to come, to a time still to come.
LEMMA FinalsKept ==
  ASSUME IInv, [Next]_vars, NEW h \in Games
  PROVE  /\ FinalAt(h) \in Nat /\ FinalAt(h)' \in Nat
         /\ \A t \in Nat : t <= now => (FinalAt(h) <= t <=> FinalAt(h)' <= t)
         /\ FinalAt(h) <= now => FinalAt(h)' = FinalAt(h)
<1>1. now \in Nat /\ due[h] \in Nat /\ due'[h] \in Nat /\ GameLength \in Nat
  BY TypeStep, CalendarAssumption DEF IInv, RollingTypeOK, Times
<1>2. due'[h] = due[h] \/ (now < due[h] /\ now < due'[h])
  <2>1. ASSUME NEW g \in Movable, Reschedule(g) PROVE due'[h] = due[h] \/ (now < due[h] /\ now < due'[h])
    BY <2>1 DEF Reschedule, IInv, RollingTypeOK
  <2> QED BY <2>1 DEF Next, vars, WriteGateReport, Tick, Push, WritePlan, SealCoverage, SealBatch,
                WriteOnce, WriteAggregate, WriteScoringInputs, WriteScoringSeal
<1> QED BY <1>1, <1>2 DEF FinalAt

-----------------------------------------------------------------------------
(* The history and the rows.                                               *)

LEMMA HistoryStep ==
  ASSUME IInv, [Next]_vars
  PROVE  HistoryInv'
<1>1. ASSUME NEW b \in Batches, Whole(file[b])' PROVE file'[b].made <= now'
  <2>1. CASE file'[b] = file[b]
    <3>1. file[b].made \in Nat /\ file[b].made <= now
      BY <1>1, <2>1, WholeFiles, BatchRows DEF IInv, HistoryInv, Whole, Times
    <3> QED BY <2>1, <3>1, Monotone
  <2>2. CASE /\ UNCHANGED now
             /\ \E games \in (SUBSET Games) \ {{}}, at \in Times :
                  file'[b] = BatchRecord([g \in games |-> Row(g)], at)
    BY <2>2, Monotone DEF BatchRecord
  <2> QED BY <2>1, <2>2, BatchStep DEF IInv
<1>2. \A a \in Artifacts : Whole(file[a]) => Whole(file[a])'
  BY FilesKept DEF IInv, Whole
<1>3. ASSUME NEW a \in head' PROVE Whole(file[a])'
  <2>1. CASE Push
    <3>1. a \in Artifacts /\ Whole(file[a])
      BY <2>1 DEF Push, IInv, HistoryInv, RollingTypeOK
    <3> QED BY <1>2, <3>1
  <2>2. CASE ~Push
    <3>1. head' = head
      BY <2>2 DEF Next, vars, WriteGateReport, Tick, WritePlan, SealCoverage, SealBatch,
                WriteOnce, WriteAggregate, WriteScoringInputs, WriteScoringSeal, Reschedule
    <3>2. a \in Artifacts /\ Whole(file[a])
      BY <3>1 DEF IInv, HistoryInv, RollingTypeOK
    <3> QED BY <1>2, <3>2
  <2> QED BY <2>1, <2>2
<1>4. ASSUME NEW k \in DOMAIN runs
      PROVE  /\ runs'[k].at <= now'
             /\ \A a \in runs'[k].head : Whole(file[a])' /\ (a \in Batches => file'[a].made <= runs'[k].at)
  <2>1. runs'[k] = runs[k] /\ runs[k] \in Runs
    BY Monotone, ElementOfSeq, LenProperties DEF IInv, RollingTypeOK
  <2>2. runs[k].at \in Nat /\ runs[k].at <= now /\ runs[k].head \subseteq Artifacts
    BY <2>1 DEF Runs, Times, IInv, HistoryInv
  <2>3. ASSUME NEW a \in runs[k].head PROVE Whole(file[a]) /\ file'[a] = file[a]
    BY <2>2, FilesKept DEF IInv, HistoryInv
  <2> QED BY <2>1, <2>2, <2>3, Monotone DEF IInv, HistoryInv, Whole
<1>5. ASSUME NEW k \in DOMAIN runs', k \notin DOMAIN runs
      PROVE  /\ runs'[k].at <= now'
             /\ \A a \in runs'[k].head : Whole(file[a])' /\ (a \in Batches => file'[a].made <= runs'[k].at)
  <2>1. Push
    BY <1>5 DEF Next, vars, WriteGateReport, Tick, WritePlan, SealCoverage, SealBatch,
                WriteOnce, WriteAggregate, WriteScoringInputs, WriteScoringSeal, Reschedule
  <2>2. PICK usable \in BOOLEAN : runs' = Append(runs, [at |-> now, head |-> head', usable |-> usable])
    BY <2>1 DEF Push
  <2>3. runs \in Seq(Runs) /\ Len(runs) \in Nat /\ DOMAIN runs = 1 .. Len(runs)
    BY LenProperties DEF IInv, RollingTypeOK
  <2>4. runs'[k] = [at |-> now, head |-> head', usable |-> usable]
    BY <1>5, <2>2, <2>3
  <2>5. UNCHANGED now
    BY <2>1 DEF Push
  <2> QED BY <1>1, <1>3, <2>4, <2>5, Monotone
<1> QED BY <1>1, <1>3, <1>4, <1>5 DEF HistoryInv

LEMMA RowsStep ==
  ASSUME IInv, [Next]_vars
  PROVE  RowsInv'
<1> SUFFICES ASSUME NEW b \in Batches, Whole(file[b])', NEW g \in DOMAIN file'[b].rows
             PROVE  (file[b].rows[g].elo = Results(g, file[b].made))'
  BY DEF RowsInv
<1>1. CASE file'[b] = file[b]
  <2>1. Whole(file[b]) /\ file[b] \in BatchRecords
    BY <1>1, WholeFiles DEF IInv, Whole
  <2>2. file[b].made \in Nat /\ file[b].made <= now /\ g \in Games
    BY <1>1, <2>1, BatchRows DEF IInv, HistoryInv, Times
  <2>3. file[b].rows[g].elo = Results(g, file[b].made)
    BY <1>1, <2>1 DEF IInv, RowsInv
  <2>4. \A t \in Nat : t <= now =>
          {h \in SeasonGames(SeasonOf[g]) \ {g} : FinalAt(h)' <= t} = Results(g, t)
    BY <2>2, FinalsKept DEF Results, SeasonGames
  <2>5. Results(g, file[b].made)' = {h \in SeasonGames(SeasonOf[g]) \ {g} : FinalAt(h)' <= file'[b].made}
    BY DEF Results, SeasonGames
  <2> QED BY <1>1, <2>2, <2>3, <2>4, <2>5
<1>2. CASE /\ UNCHANGED <<now, due>>
           /\ \E games \in (SUBSET Games) \ {{}}, at \in Times :
                file'[b] = BatchRecord([h \in games |-> Row(h)], at)
  <2>1. PICK games \in (SUBSET Games) \ {{}}, at \in Times :
          file'[b] = BatchRecord([h \in games |-> Row(h)], at)
    BY <1>2
  <2>2. file'[b].rows = [h \in games |-> Row(h)] /\ file'[b].made = now
    BY <2>1 DEF BatchRecord
  <2>3. g \in games /\ file'[b].rows[g].elo = Results(g, now)
    BY <2>2, RowTypes DEF IInv
  <2>4. Results(g, file[b].made)' = Results(g, now)
    BY <1>2, <2>2 DEF Results, FinalAt, SeasonGames
  <2> QED BY <2>3, <2>4
<1> QED BY <1>1, <1>2, BatchStep DEF IInv

-----------------------------------------------------------------------------
(* The aggregate.                                                          *)

\* What main's history says of the receipts that an aggregate is built of.
LEMMA AggregatePrecedes ==
  ASSUME IInv, NEW batches \in (SUBSET Batches) \ {{}}, NEW planDeadline \in Deadlines,
         NEW receipt \in Receipts({Plan} \cup Seasons \cup batches),
         Covers(batches), Committed(batches, receipt, planDeadline)
  PROVE  /\ \A g \in Scheduled :
              \E b \in batches :
                /\ g \in DOMAIN file[b].rows
                /\ file[b].made <= runs[receipt[b]].at
                /\ runs[receipt[b]].at < CommittedCutoff(g)
         /\ \A b \in batches : \A g \in DOMAIN file[b].rows :
              /\ runs[receipt[Plan]].at < file[b].rows[g].input
              /\ runs[receipt[SeasonOf[g]]].at < file[b].rows[g].input
<1>1. /\ \A s \in Seasons : Whole(file[s]) /\ file[s] \in CoverageRecords(s)
      /\ \A b \in batches : Whole(file[b]) /\ file[b] \in BatchRecords
  BY WholeFiles DEF Covers, IInv
<1>2. /\ DisjointBatches(batches) /\ ExactUnion(batches) /\ CoverageBeforeInputs(batches)
      /\ Scheduled = Games
      /\ \A g \in Games : CommittedCutoff(g) \in Nat /\ SeasonOf[g] \in Seasons
  BY <1>1, AllAreScheduled DEF Covers, IInv
<1>3. DOMAIN receipt = {Plan} \cup Seasons \cup batches
  BY DEF Receipts
<1>4. \A a \in {Plan} \cup Seasons \cup batches :
        /\ receipt[a] \in DOMAIN runs /\ a \in runs[receipt[a]].head
        /\ runs[receipt[a]].at < (IF a = Plan THEN planDeadline ELSE Deadline(a))
  BY <1>3 DEF Committed, AllLive, Accepts, RunVerified, RemoteFile, Receipts
<1>5. \A a \in {Plan} \cup Seasons \cup batches : runs[receipt[a]].at \in Nat
  <2>1. \A k \in DOMAIN runs : runs[k] \in Runs
    BY ElementOfSeq, LenProperties DEF IInv, RollingTypeOK
  <2> QED BY <1>4, <2>1 DEF Runs, Times
<1>6. \A b \in batches : b # Plan /\ b \notin Seasons /\ Deadline(b) = Earliest(file[b].rows)
  BY PathsAssumption DEF Deadline
<1>7. \A s \in Seasons : s # Plan /\ Deadline(s) = file[s].deadline /\ file[s].deadline \in Nat
  BY <1>1, PathsAssumption, BoundsAssumption DEF Deadline, CoverageRecords
<1>8. ASSUME NEW b \in batches, NEW g \in DOMAIN file[b].rows
      PROVE  /\ g \in Games /\ RowOf(batches, g) = file[b].rows[g]
             /\ file[b].rows[g].cutoff \in Nat /\ file[b].rows[g].input \in Nat
             /\ Earliest(file[b].rows) \in Nat /\ Earliest(file[b].rows) <= file[b].rows[g].cutoff
             /\ FirstInput(file[b].rows) \in Nat
             /\ FirstInput(file[b].rows) <= file[b].rows[g].input
  BY <1>1, <1>2, <1>8, RowOfBatch, BatchRows, RowBounds DEF Rows
<1>9. ASSUME NEW g \in Scheduled
      PROVE  \E b \in batches :
               /\ g \in DOMAIN file[b].rows
               /\ file[b].made <= runs[receipt[b]].at
               /\ runs[receipt[b]].at < CommittedCutoff(g)
  <2>1. PICK b \in batches : g \in DOMAIN file[b].rows
    BY <1>2 DEF ExactUnion
  <2>2. file[b].rows[g].cutoff = CommittedCutoff(g)
    BY <1>2, <1>8, <2>1 DEF ExactUnion
  <2>3. runs[receipt[b]].at < Earliest(file[b].rows)
    BY <1>4, <1>6
  <2>4. runs[receipt[b]].at < CommittedCutoff(g)
    BY <1>5, <1>8, <2>1, <2>2, <2>3
  <2>5. file[b].made <= runs[receipt[b]].at
    BY <1>4 DEF IInv, HistoryInv
  <2> QED BY <2>1, <2>4, <2>5
<1>10. ASSUME NEW b \in batches, NEW g \in DOMAIN file[b].rows
       PROVE  /\ runs[receipt[Plan]].at < file[b].rows[g].input
              /\ runs[receipt[SeasonOf[g]]].at < file[b].rows[g].input
  <2>1. planDeadline \in Nat /\ planDeadline <= FirstInput(file[b].rows)
    BY BoundsAssumption DEF Committed, BatchesVerified
  <2>2. runs[receipt[Plan]].at < planDeadline
    BY <1>4
  <2>3. runs[receipt[Plan]].at < file[b].rows[g].input
    BY <1>5, <1>8, <2>1, <2>2
  <2>4. SeasonOf[g] \in Seasons /\ file[SeasonOf[g]].deadline <= file[b].rows[g].input
    BY <1>2, <1>8 DEF CoverageBeforeInputs
  <2>5. runs[receipt[SeasonOf[g]]].at < file[SeasonOf[g]].deadline
    BY <1>4, <1>7, <2>4
  <2>6. runs[receipt[SeasonOf[g]]].at < file[b].rows[g].input
    BY <1>5, <1>7, <1>8, <2>4, <2>5
  <2> QED BY <2>3, <2>6
<1> QED BY <1>9, <1>10

\* A sealed aggregate stays what it was, over files and runs that stay what they were.
LEMMA AggregateKept ==
  ASSUME IInv, [Next]_vars, Whole(aggregate.seal)
  PROVE  AggregateInv'
<1> DEFINE used == {Plan} \cup Seasons \cup aggregate.seal.batches
<1>1. aggregate' = aggregate /\ aggregate.schedule # NoFile
  BY Monotone, MarkersAreNoContent DEF IInv, AggregateInv
<1>2. aggregate.seal.batches \subseteq Batches
  BY WholeAggregate DEF IInv
<1>3. \A a \in used : Whole(file[a]) /\ aggregate.seal.receipt[a] \in DOMAIN runs
  BY DEF IInv, AggregateInv
<1>4. \A a \in used : file'[a] = file[a]
  BY <1>2, <1>3, FilesKept DEF IInv, Artifacts
<1>5. \A k \in DOMAIN runs : k \in DOMAIN runs' /\ runs'[k] = runs[k]
  BY Monotone
<1>6. \A a \in used : CommittedAt(a)' = CommittedAt(a)
  BY <1>1, <1>3, <1>5 DEF CommittedAt
<1>7. Scheduled' = Scheduled
  BY <1>4 DEF Scheduled
<1>8. \A g \in Scheduled : SeasonOf[g] \in Seasons /\ CommittedCutoff(g)' = CommittedCutoff(g)
  BY <1>3, <1>4, AllAreScheduled DEF IInv, CommittedCutoff
<1>9. DisjointBatches(aggregate.seal.batches)'
  <2>1. DisjointBatches(aggregate.seal.batches)
    BY DEF IInv, AggregateInv
  <2> QED BY <1>1, <1>4, <2>1 DEF DisjointBatches
<1>10. AggregatedForecastsPrecedeCutoffs'
  <2>1. ASSUME NEW g \in Scheduled
        PROVE  \E b \in aggregate.seal.batches :
                 /\ g \in DOMAIN file'[b].rows
                 /\ file'[b].made <= CommittedAt(b)'
                 /\ CommittedAt(b)' < CommittedCutoff(g)'
    <3>1. PICK b \in aggregate.seal.batches :
            /\ g \in DOMAIN file[b].rows
            /\ file[b].made <= CommittedAt(b)
            /\ CommittedAt(b) < CommittedCutoff(g)
      BY DEF IInv, AggregateInv, AggregatedForecastsPrecedeCutoffs
    <3> QED BY <1>4, <1>6, <1>8, <3>1
  <2> QED BY <1>1, <1>7, <2>1 DEF AggregatedForecastsPrecedeCutoffs
<1>11. CommitmentsPrecedeInputs'
  <2>1. ASSUME NEW b \in aggregate.seal.batches, NEW g \in DOMAIN file'[b].rows
        PROVE  /\ CommittedAt(Plan)' < file'[b].rows[g].input
               /\ CommittedAt(SeasonOf[g])' < file'[b].rows[g].input
    <3>1. g \in DOMAIN file[b].rows /\ file'[b] = file[b]
      BY <1>4
    <3>2. g \in Games
      BY <1>2, <1>3, <3>1, WholeFiles, BatchRows DEF IInv
    <3>3. SeasonOf[g] \in Seasons
      BY <3>2, SeasonsAssumption
    <3> QED BY <1>6, <3>1, <3>3 DEF IInv, AggregateInv, CommitmentsPrecedeInputs
  <2> QED BY <1>1, <2>1 DEF CommitmentsPrecedeInputs
<1> QED BY <1>1, <1>3, <1>4, <1>5, <1>9, <1>10, <1>11 DEF AggregateInv

\* A new one is sealed over what was just verified.
LEMMA AggregateSealed ==
  ASSUME IInv, WriteAggregate, Whole(aggregate.seal)'
  PROVE  AggregateInv'
<1>a. PICK batches \in (SUBSET Batches) \ {{}} :
        /\ Covers(batches)
        /\ \E receipt \in Receipts({Plan} \cup Seasons \cup batches), planDeadline \in Deadlines,
              at \in Times :
             LET use == AggregateRecord(batches, receipt, planDeadline, at)
             IN /\ Committed(batches, receipt, planDeadline)
                /\ \/ aggregate' = [schedule |-> use, forecasts |-> use, seal |-> use]
                   \/ aggregate' \in Interrupted(use)
  BY DEF WriteAggregate, Claims
<1>1. PICK receipt \in Receipts({Plan} \cup Seasons \cup batches), planDeadline \in Deadlines,
           at \in Times :
        LET use == AggregateRecord(batches, receipt, planDeadline, at)
        IN /\ Committed(batches, receipt, planDeadline)
           /\ \/ aggregate' = [schedule |-> use, forecasts |-> use, seal |-> use]
              \/ aggregate' \in Interrupted(use)
  BY <1>a
<1> DEFINE use == AggregateRecord(batches, receipt, planDeadline, at)
<1>2. aggregate' = [schedule |-> use, forecasts |-> use, seal |-> use]
  BY <1>1, MarkersAreNoContent DEF Interrupted, Whole
<1>3. UNCHANGED <<file, runs>>
  BY DEF WriteAggregate
<1>4. /\ aggregate'.seal.batches = batches /\ aggregate'.seal.receipt = receipt
      /\ aggregate'.schedule = use
  BY <1>2 DEF AggregateRecord
<1>5. use # NoFile
  BY <1>2 DEF Whole
<1>6. \A a \in {Plan} \cup Seasons \cup batches : CommittedAt(a)' = runs[receipt[a]].at
  BY <1>3, <1>4 DEF CommittedAt
<1>7. Scheduled' = Scheduled /\ \A g \in Games : CommittedCutoff(g)' = CommittedCutoff(g)
  BY <1>3 DEF Scheduled, CommittedCutoff
<1>8. \A s \in Seasons : Whole(file[s])
  BY <1>a DEF Covers
<1>9. Scheduled = Games
  BY <1>8, AllAreScheduled DEF IInv
<1>10. DisjointBatches(aggregate.seal.batches)'
  BY <1>a, <1>3, <1>4 DEF Covers, DisjointBatches
<1>11. AggregatedForecastsPrecedeCutoffs'
  <2>1. \A g \in Scheduled :
          \E b \in batches :
            /\ g \in DOMAIN file[b].rows
            /\ file[b].made <= runs[receipt[b]].at
            /\ runs[receipt[b]].at < CommittedCutoff(g)
    BY <1>a, <1>1, AggregatePrecedes
  <2> QED BY <1>3, <1>4, <1>6, <1>7, <1>9, <2>1 DEF AggregatedForecastsPrecedeCutoffs
<1>12. CommitmentsPrecedeInputs'
  <2>1. \A b \in batches : \A g \in DOMAIN file[b].rows :
          /\ runs[receipt[Plan]].at < file[b].rows[g].input
          /\ runs[receipt[SeasonOf[g]]].at < file[b].rows[g].input
    BY <1>a, <1>1, AggregatePrecedes
  <2>2. \A b \in batches : \A g \in DOMAIN file[b].rows : SeasonOf[g] \in Seasons
    BY <1>a, WholeFiles, BatchRows, SeasonsAssumption DEF Covers, IInv
  <2> QED BY <1>3, <1>4, <1>6, <2>1, <2>2 DEF CommitmentsPrecedeInputs
<1>13. \A a \in {Plan} \cup Seasons \cup batches : Whole(file[a])' /\ receipt[a] \in DOMAIN runs'
  BY <1>a, <1>3 DEF Covers, Receipts, Whole
<1> QED BY <1>4, <1>5, <1>10, <1>11, <1>12, <1>13 DEF AggregateInv

LEMMA AggregateStep ==
  ASSUME IInv, [Next]_vars
  PROVE  AggregateInv'
<1>1. CASE Whole(aggregate.seal)
  BY <1>1, AggregateKept
<1>2. CASE WriteAggregate /\ Whole(aggregate.seal)'
  BY <1>2, AggregateSealed
<1>3. CASE ~Whole(aggregate.seal) /\ ~Whole(aggregate.seal)'
  <2>1. aggregate'.schedule = NoFile => aggregate'.seal = NoFile
    <3>1. CASE WriteAggregate
      <4>1. PICK use \in AggregateUses :
              \/ aggregate' = [schedule |-> use, forecasts |-> use, seal |-> use]
              \/ aggregate' \in Interrupted(use)
        BY <3>1, WriteAggregateUses DEF IInv
      <4>2. Whole(use)
        BY MarkersAreNoContent
      <4> QED BY <1>3, <4>1, <4>2 DEF Interrupted, Whole
    <3>2. CASE ~WriteAggregate
      <4>1. aggregate' = aggregate
        BY <3>2 DEF Next, vars, WriteGateReport, Tick, Push, WritePlan, SealCoverage, SealBatch,
                    WriteOnce, WriteScoringInputs, WriteScoringSeal, Reschedule
      <4> QED BY <4>1 DEF IInv, AggregateInv
    <3> QED BY <3>1, <3>2
  <2> QED BY <1>3, <2>1 DEF AggregateInv, AggregatedForecastsPrecedeCutoffs, CommitmentsPrecedeInputs
<1>4. CASE ~WriteAggregate
  <2>1. aggregate' = aggregate
    BY <1>4 DEF Next, vars, WriteGateReport, Tick, Push, WritePlan, SealCoverage, SealBatch,
                WriteOnce, WriteScoringInputs, WriteScoringSeal, Reschedule
  <2> QED BY <1>1, <1>3, <2>1 DEF Whole
<1> QED BY <1>1, <1>2, <1>3, <1>4

-----------------------------------------------------------------------------
(* The score.                                                              *)

\* A score that is sealed stays true: every game is over, so the league moves none.
LEMMA ScoreKept ==
  ASSUME IInv, [Next]_vars, Whole(score.seal)
  PROVE  ScoreInv'
<1>1. /\ Whole(aggregate.seal) /\ aggregate' = aggregate
      /\ \A g \in Games : FinalAt(g) <= now
      /\ \A b \in aggregate.seal.batches : \A g \in DOMAIN file[b].rows :
           file[b].rows[g].elo = CanonicalElo(g)
  BY Monotone DEF IInv, ScoreInv
<1>2. \A g \in Games : FinalAt(g)' = FinalAt(g)
  BY <1>1, FinalsKept
<1>3. \A g \in Games : FinalAt(g) \in Nat
  BY FinalsKept
<1>4. \A g \in Games : FinalAt(g)' <= now'
  BY <1>1, <1>2, <1>3, Monotone
<1>5. \A a \in {Plan} \cup Seasons \cup aggregate.seal.batches : Whole(file[a]) /\ a \in Artifacts
  BY <1>1, WholeAggregate DEF IInv, AggregateInv, Artifacts
<1>6. \A a \in {Plan} \cup Seasons \cup aggregate.seal.batches : file'[a] = file[a]
  BY <1>5, FilesKept DEF IInv
<1>7. Scheduled' = Scheduled /\ Scheduled = Games
  BY <1>5, <1>6, AllAreScheduled DEF IInv, Scheduled
<1>8. ASSUME NEW g \in Games PROVE CanonicalElo(g)' = CanonicalElo(g)
  <2>1. SeasonOf[g] \in Seasons
    BY SeasonsAssumption
  <2>2. CommittedCutoff(g)' = CommittedCutoff(g)
    BY <1>6, <2>1 DEF CommittedCutoff
  <2>3. SeasonGames(SeasonOf[g]) \subseteq Games
    BY DEF SeasonGames
  <2>4. \A h \in SeasonGames(SeasonOf[g]) : FinalAt(h)' <= CommittedCutoff(g)' <=> FinalAt(h) <= CommittedCutoff(g)
    BY <1>2, <2>2, <2>3
  <2>5. CanonicalElo(g) = {h \in Games : h \in SeasonGames(SeasonOf[g]) \ {g} /\ FinalAt(h) <= CommittedCutoff(g)}
    BY <1>7 DEF CanonicalElo, Results
  <2>6. CanonicalElo(g)' = {h \in Games : h \in SeasonGames(SeasonOf[g]) \ {g} /\ FinalAt(h)' <= CommittedCutoff(g)'}
    BY <1>7 DEF CanonicalElo, Results, SeasonGames
  <2> QED BY <2>4, <2>5, <2>6
<1>9. ASSUME NEW b \in aggregate.seal.batches, NEW g \in DOMAIN file'[b].rows
      PROVE  file'[b].rows[g].elo = CanonicalElo(g)'
  <2>1. file'[b] = file[b] /\ file[b] \in BatchRecords
    BY <1>1, <1>5, <1>6, WholeAggregate, WholeFiles DEF IInv
  <2>2. g \in Games
    BY <2>1, BatchRows
  <2> QED BY <1>1, <1>8, <2>1, <2>2
<1>10. Whole(aggregate.seal)'
  BY <1>1 DEF Whole
<1> QED BY <1>1, <1>4, <1>9, <1>10 DEF ScoreInv

LEMMA ScoreSealed ==
  ASSUME IInv, WriteScoringSeal
  PROVE  ScoreInv'
<1>1. PICK at \in Claims : Scorable(at)
  BY DEF WriteScoringSeal
<1>2. UNCHANGED <<now, due, file, runs, aggregate>>
  BY DEF WriteScoringSeal
<1>3. /\ Whole(aggregate.seal) /\ Covers(aggregate.seal.batches)
      /\ EloAgrees(aggregate.seal.batches) /\ \A g \in Scheduled : FinalAt(g) <= now
  BY <1>1 DEF Scorable, AggregateVerified, Resolved
<1>4. Scheduled = Games
  BY <1>3, AllAreScheduled DEF Covers, IInv
<1>5. ASSUME NEW b \in aggregate.seal.batches, NEW g \in DOMAIN file[b].rows
      PROVE  file[b].rows[g].elo = CanonicalElo(g)
  <2>1. g \in Games
    BY <1>3, WholeAggregate, WholeFiles, BatchRows DEF Covers, IInv
  <2>2. RowOf(aggregate.seal.batches, g) = file[b].rows[g]
    BY <1>3, RowOfBatch DEF Covers
  <2> QED BY <1>3, <1>4, <2>1, <2>2 DEF EloAgrees
<1>6. \A g \in Games : CanonicalElo(g)' = CanonicalElo(g) /\ FinalAt(g)' = FinalAt(g)
  BY <1>2 DEF CanonicalElo, Scheduled, Results, SeasonGames, CommittedCutoff, FinalAt
<1>7. \A b \in aggregate.seal.batches : \A g \in DOMAIN file[b].rows : g \in Games
  BY <1>3, WholeAggregate, WholeFiles, BatchRows DEF Covers, IInv
<1> QED BY <1>2, <1>3, <1>4, <1>5, <1>6, <1>7 DEF ScoreInv, Whole

LEMMA ScoreStep ==
  ASSUME IInv, [Next]_vars
  PROVE  ScoreInv'
<1>1. CASE ~WriteScoringSeal
  <2>1. score'.seal = score.seal
    <3>1. CASE WriteScoringInputs
      BY <3>1 DEF WriteScoringInputs, IInv, RollingTypeOK
    <3> QED BY <1>1, <3>1 DEF Next, vars, WriteGateReport, Tick, Push, WritePlan, SealCoverage,
                  SealBatch, WriteOnce, WriteAggregate, Reschedule
  <2> QED BY <2>1, ScoreKept DEF ScoreInv, Whole
<1> QED BY <1>1, ScoreSealed

-----------------------------------------------------------------------------
(* The theorems.                                                           *)

LEMMA NextIInv == IInv /\ [Next]_vars => IInv'
BY TypeStep, HistoryStep, RowsStep, AggregateStep, ScoreStep DEF IInv

\* The invariant holds in every reachable state.
THEOREM Invariance == Spec => []IInv
<1>1. Init => IInv
  BY InitIInv
<1>2. IInv /\ [Next]_vars => IInv'
  BY NextIInv
<1> QED BY <1>1, <1>2, PTL DEF Spec

\* Every file holds what its kind may hold: the plan, the seals, the aggregate, the score.
THEOREM TypeCorrectness == Spec => []RollingTypeOK
<1>1. IInv => RollingTypeOK
  BY DEF IInv
<1> QED BY <1>1, Invariance, PTL

\* The forecasts of a sealed aggregate were made, and public, before the cutoffs that the
\* schedule seals committed, whatever times the callers claimed.
THEOREM ForecastsPrecedeCutoffs == Spec => []AggregatedForecastsPrecedeCutoffs
<1>1. IInv => AggregatedForecastsPrecedeCutoffs
  BY DEF IInv, AggregateInv
<1> QED BY <1>1, Invariance, PTL

\* The plan and the schedule of a season were public before the first input of a game.
THEOREM CommitmentsComeFirst == Spec => []CommitmentsPrecedeInputs
<1>1. IInv => CommitmentsPrecedeInputs
  BY DEF IInv, AggregateInv
<1> QED BY <1>1, Invariance, PTL

\* The Elo baseline of a scored game knows what was out when its forecast was made.
THEOREM BaselineIsFair == Spec => []BaselineKnowsWhatForecastsKnew
<1>1. ASSUME IInv PROVE BaselineKnowsWhatForecastsKnew
  <2> SUFFICES ASSUME Whole(score.seal), NEW b \in aggregate.seal.batches,
                      NEW g \in DOMAIN file[b].rows
               PROVE  CanonicalElo(g)
                        = {h \in SeasonGames(SeasonOf[g]) \ {g} : FinalAt(h) <= file[b].made}
    BY DEF BaselineKnowsWhatForecastsKnew
  <2>1. Whole(aggregate.seal) /\ file[b].rows[g].elo = CanonicalElo(g)
    BY <1>1 DEF IInv, ScoreInv
  <2>2. b \in Batches /\ Whole(file[b])
    BY <1>1, <2>1, WholeAggregate DEF IInv, AggregateInv
  <2> QED BY <1>1, <2>1, <2>2 DEF IInv, RowsInv, Results
<1> QED BY <1>1, Invariance, PTL
=============================================================================
