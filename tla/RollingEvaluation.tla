------------------------- MODULE RollingEvaluation -------------------------
(***************************************************************************)
(* The rolling evaluation of outcome v2: a prospective plan, one schedule  *)
(* seal per planned season and any number of batch seals are created, are  *)
(* pushed to GitHub, receive a receipt that rests on a workflow run, are   *)
(* aggregated into one answer-free forecast set and, after the games, are  *)
(* scored against the canonical Elo replay.                                *)
(*                                                                         *)
(* Two kinds of time meet here.  now is real time; GitHub writes it into   *)
(* a run.  Every created_at and scored_at is what the caller says, within  *)
(* Skew of now.  One unit is the hour between a T-60 cutoff and tipoff.    *)
(* A file is compared by its bytes, so a file is its content; a created    *)
(* file never changes, and a commit holds the names of the files in it.    *)
(***************************************************************************)
EXTENDS Integers, Sequences, FiniteSets, FiniteSetsExt

CONSTANTS
  Games,
  Seasons,              \* the planned seasons, numbered
  SeasonOf,             \* the season of a game
  Input,                \* when the evidence on a game becomes available
  FirstCutoff,          \* the T-60 cutoff of a game as first scheduled
  Movable,              \* the games that the league may move
  GameLength,           \* from a cutoff to the final score's snapshot
  Batches,              \* the batch IDs
  Plan,                 \* the prospective plan
  NoFile, Torn,         \* no file, a file whose writer died inside the write
  Deadlines,            \* the deadlines a caller may ask for
  MaxTime, MaxRuns,     \* bounds: the clock, the workflow runs
  Skew,                 \* bound: how far a caller's clock is off
  MaxFaults             \* bound: deaths, failed and repeated runs, moved games

ASSUME SeasonsAssumption == Seasons \subseteq Nat /\ SeasonOf \in [Games -> Seasons]
ASSUME CalendarAssumption ==
  /\ Input \in [Games -> Nat] /\ FirstCutoff \in [Games -> Nat]
  /\ \A g \in Games : Input[g] < FirstCutoff[g]
  /\ Movable \subseteq Games
  /\ GameLength \in Nat /\ GameLength > 1
ASSUME BoundsAssumption ==
  {MaxTime, MaxRuns, Skew, MaxFaults} \subseteq Nat /\ Deadlines \subseteq Nat

VARIABLES
  now,
  due,                  \* the cutoff of each game as the league has it now
  file,                 \* the plan, the schedule seals and the batch seals
  head,                 \* what main holds under prospective/outcome_v2/rolling
  runs,                 \* the publication-timestamp workflow's runs
  aggregate,            \* the schedule, the forecasts and their seal
  score,                \* the cohort, the answers and their seal
  gate,                 \* the claimed rolling gate report
  faults

vars == <<now, due, file, head, runs, aggregate, score, gate, faults>>

\* The path of an artifact tells which kind it is.
ASSUME PathsAssumption == Plan \notin Seasons \cup Batches /\ Seasons \cap Batches = {}

Artifacts == {Plan} \cup Seasons \cup Batches
Times == 0..MaxTime
Claims == {t \in Times : now - Skew <= t /\ t <= now + Skew}

Whole(f) == f \notin {NoFile, Torn}
SeasonGames(s) == {g \in Games : SeasonOf[g] = s}

\* When the final score of a game is in a snapshot, as the league has it now.
FinalAt(g) == due[g] + GameLength

\* Games of the season whose results are out at t.
Results(g, t) == {h \in SeasonGames(SeasonOf[g]) \ {g} : FinalAt(h) <= t}

\* One feature row built now.  Its Elo prior is the caller's, and nothing compares it with
\* anything before scoring; this caller's knows the results that are out, and is
\* available when the last of them is.
Row(g) ==
  [cutoff |-> due[g],
   elo    |-> Results(g, now),
   input  |-> Max({Input[g]} \cup {FinalAt(h) : h \in Results(g, now)})]

\* What the files may say.
PlanRecords == [at : Times]
CoverageRecords(s) == [at : Times, deadline : Deadlines, cutoffs : [SeasonGames(s) -> Nat]]
Rows == [cutoff : Nat, elo : SUBSET Games, input : Nat]
BatchRecords ==
  [at : Times, rows : UNION {[games -> Rows] : games \in (SUBSET Games) \ {{}}}, made : Times]
Uses(batches) ==
  [batches : {batches}, receipt : [{Plan} \cup Seasons \cup batches -> Nat],
   planDeadline : Deadlines, at : Times]
ScoringRecords == [at : Times, inputs : SUBSET Batches]

\* No file, and one cut short, is none of these.
ASSUME MarkersAssumption ==
  \A mark \in {NoFile, Torn} :
    /\ mark \notin PlanRecords /\ mark \notin BatchRecords /\ mark \notin ScoringRecords
    /\ \A s \in Seasons : mark \notin CoverageRecords(s)
    /\ \A batches \in SUBSET Batches : mark # batches /\ mark \notin Uses(batches)

Earliest(rows) == Min({rows[g].cutoff : g \in DOMAIN rows})
FirstInput(rows) == Min({rows[g].input : g \in DOMAIN rows})
LastInput(rows) == Max({rows[g].input : g \in DOMAIN rows})

Init ==
  /\ now = 0
  /\ due = FirstCutoff
  /\ file = [a \in Artifacts |-> NoFile]
  /\ head = {}
  /\ runs = <<>>
  /\ aggregate = [schedule |-> NoFile, forecasts |-> NoFile, seal |-> NoFile]
  /\ score = [inputs |-> NoFile, seal |-> NoFile]
  /\ gate = NoFile
  /\ faults = 0

----------------------------------------------------------------------------
(* The world: the clock, the league, GitHub. *)

Fault == faults < MaxFaults /\ faults' = faults + 1

Tick ==
  /\ now < MaxTime
  /\ now' = now + 1
  /\ UNCHANGED <<due, file, head, runs, aggregate, score, gate, faults>>

\* The league moves a game that has not reached its cutoff.
Reschedule(g) ==
  /\ now < due[g]
  /\ \E t \in {due[g] - 1, due[g] + 1} : now < t /\ due' = [due EXCEPT ![g] = t]
  /\ Fault
  /\ UNCHANGED <<now, file, head, runs, aggregate, score, gate>>

\* A push to main that touches the rolling directory starts a run whose commit holds
\* the files pushed before and the new ones.  A run that fails, or is run again, is of no
\* use from then on; when that happens after its receipt was used, the later looks
\* fail, which is the step that looks not being taken.
Push ==
  /\ Len(runs) < MaxRuns
  /\ LET added == {a \in Artifacts \ head : Whole(file[a])} IN
       /\ added # {}
       /\ head' = head \cup added
       /\ \E usable \in BOOLEAN :
            /\ runs' = Append(runs, [at |-> now, head |-> head', usable |-> usable])
            /\ \/ usable /\ UNCHANGED faults
               \/ ~usable /\ Fault
  /\ UNCHANGED <<now, due, file, aggregate, score, gate>>

----------------------------------------------------------------------------
(* Receipts. *)

\* A receipt is the record of a live look at a run for one artifact; it verifies when a later
\* look gives the same record.  So it is chosen where it is used, by its run; only the plan's
\* has a deadline of its own.
Receipts(artifacts) == [artifacts -> DOMAIN runs]

\* The frozen workflow's first attempt, finished well, created in the window.
RunVerified(r, notBefore, deadline) ==
  /\ runs[r].usable
  /\ notBefore <= runs[r].at
  /\ runs[r].at < deadline

\* The artifact's bytes are at its path in the commit of the run.
RemoteFile(r, a) == a \in runs[r].head

\* Mutation: the deadline is forgotten.
AcceptsLate(r, a, notBefore, deadline) ==
  runs[r].usable /\ notBefore <= runs[r].at /\ RemoteFile(r, a)

Accepts(r, a, notBefore, deadline) ==
  RunVerified(r, notBefore, deadline) /\ RemoteFile(r, a)

\* The deadline that a seal carries.
Deadline(a) == IF a \in Seasons THEN file[a].deadline ELSE Earliest(file[a].rows)

\* The receipts in use, each over its own run, verify live.
AllLive(receipt, planDeadline) ==
  \A a \in DOMAIN receipt :
    /\ Whole(file[a])
    /\ Accepts(receipt[a], a, file[a].at, IF a = Plan THEN planDeadline ELSE Deadline(a))

----------------------------------------------------------------------------
(* The plan and the seals. *)

\* Creates file a.  A death inside the write leaves a file that nothing reads, at a path
\* the caller chose: for every other step the artifact is absent, so it is left absent.
WriteOnce(a, content) ==
  /\ file[a] = NoFile
  /\ file' = [file EXCEPT ![a] = content]
  /\ UNCHANGED <<now, due, head, runs, aggregate, score, gate, faults>>

PlanRecord(at) == [at |-> at]

WritePlan == \E at \in Claims : WriteOnce(Plan, PlanRecord(at))

\* The schedule of the season as the league has it now.
CoverageRecord(s, at, deadline) ==
  [at |-> at, deadline |-> deadline, cutoffs |-> [g \in SeasonGames(s) |-> due[g]]]

SealCoverage(s) ==
  /\ Whole(file[Plan])
  /\ \E at \in Claims, deadline \in Deadlines :
       /\ file[Plan].at <= at /\ at < deadline
       /\ \A g \in SeasonGames(s) : deadline <= due[g]
       /\ WriteOnce(s, CoverageRecord(s, at, deadline))

\* What the seal of a batch binds: the rows its forecasts were made of.
BatchRecord(rows, at) == [at |-> at, rows |-> rows, made |-> now]

\* The rows are built, forecast and sealed; made is when that was.  The times of
\* the generation lock and of the forecast seal are claims too and lie between.
SealBatch(b) ==
  /\ Whole(file[Plan]) /\ file[b] = NoFile
  /\ \E games \in (SUBSET Games) \ {{}} :
       LET rows == [g \in games |-> Row(g)] IN
       /\ \A g \in games : Input[g] <= now /\ rows[g].input <= rows[g].cutoff
       /\ \E at \in Claims :
            /\ LastInput(rows) <= at /\ at < Earliest(rows)
            /\ file[Plan].at <= at
            /\ WriteOnce(b, BatchRecord(rows, at))

----------------------------------------------------------------------------
(* Aggregation and scoring. *)

RowOf(batches, g) == file[CHOOSE b \in batches : g \in DOMAIN file[b].rows].rows[g]

Scheduled == UNION {DOMAIN file[s].cutoffs : s \in Seasons}
CommittedCutoff(g) == file[SeasonOf[g]].cutoffs[g]

DistinctRuns(receipt, as) == \A a, b \in as : receipt[a] = receipt[b] => a = b

DisjointBatches(batches) ==
  \A a, b \in batches : a # b => DOMAIN file[a].rows \cap DOMAIN file[b].rows = {}

ExactUnion(batches) ==
  /\ UNION {DOMAIN file[b].rows : b \in batches} = Scheduled
  /\ \A g \in Scheduled : RowOf(batches, g).cutoff = CommittedCutoff(g)

\* Mutation: the deadline is held against the cutoffs, as when the schedule was sealed.
CoverageBeforeCutoffs(batches) ==
  \A g \in Scheduled : file[SeasonOf[g]].deadline <= RowOf(batches, g).cutoff

CoverageBeforeInputs(batches) ==
  \A g \in Scheduled : file[SeasonOf[g]].deadline <= RowOf(batches, g).input

\* What the aggregator verifies of the seals, and of the receipts that it is given.
Covers(batches) ==
  /\ \A a \in {Plan} \cup Seasons \cup batches : Whole(file[a])
  /\ DisjointBatches(batches)
  /\ ExactUnion(batches)
  /\ CoverageBeforeInputs(batches)

SeasonsVerified(receipt) == DistinctRuns(receipt, Seasons)

\* The batches share one plan receipt, whose deadline is before their first inputs.
BatchesVerified(batches, receipt, planDeadline) ==
  /\ DistinctRuns(receipt, batches)
  /\ \A b \in batches : planDeadline <= FirstInput(file[b].rows)

Committed(batches, receipt, planDeadline) ==
  /\ AllLive(receipt, planDeadline)
  /\ SeasonsVerified(receipt)
  /\ BatchesVerified(batches, receipt, planDeadline)

FollowsReceipts(batches, receipt, at) ==
  \A a \in Seasons \cup batches : runs[receipt[a]].at <= at

\* The seal of the aggregate binds the batches and the receipts it was built of.
AggregateRecord(batches, receipt, planDeadline, at) ==
  [batches |-> batches, receipt |-> receipt, planDeadline |-> planDeadline, at |-> at]

\* Every commitment of a sealed aggregate is verified again, live.
AggregateVerified(use) ==
  /\ Covers(use.batches)
  /\ Committed(use.batches, use.receipt, use.planDeadline)
  /\ FollowsReceipts(use.batches, use.receipt, use.at)

\* The three files of the aggregate, in the order they are created; a death leaves
\* the ones before it, and a part of the one it interrupts.
Interrupted(content) ==
  {[schedule |-> Torn, forecasts |-> NoFile, seal |-> NoFile],
   [schedule |-> content, forecasts |-> NoFile, seal |-> NoFile],
   [schedule |-> content, forecasts |-> Torn, seal |-> NoFile],
   [schedule |-> content, forecasts |-> content, seal |-> NoFile],
   [schedule |-> content, forecasts |-> content, seal |-> Torn]}

WriteAggregate ==
  /\ aggregate.schedule = NoFile
  /\ \E batches \in (SUBSET Batches) \ {{}} :
       /\ Covers(batches)
       /\ \E receipt \in Receipts({Plan} \cup Seasons \cup batches), planDeadline \in Deadlines :
            /\ Committed(batches, receipt, planDeadline)
            /\ \E at \in Claims :
                 LET use == AggregateRecord(batches, receipt, planDeadline, at) IN
                 /\ FollowsReceipts(batches, receipt, at)
                 /\ \/ /\ aggregate' = [schedule |-> use, forecasts |-> use, seal |-> use]
                       /\ UNCHANGED faults
                    \/ aggregate' \in Interrupted(use) /\ Fault
  /\ UNCHANGED <<now, due, file, head, runs, score, gate>>

\* The results a replay of the committed schedule has applied by the cutoff of g.
CanonicalElo(g) == {h \in Scheduled : h \in Results(g, CommittedCutoff(g))}

\* Mutation: a row may know less than the replay, but nothing else.
EloWithinReplay(batches) ==
  \A g \in Scheduled : RowOf(batches, g).elo \subseteq CanonicalElo(g)

EloAgrees(batches) == \A g \in Scheduled : RowOf(batches, g).elo = CanonicalElo(g)

\* The final of every game is in a snapshot, after its tipoff and by the scoring time.
Resolved(at) ==
  \A g \in Scheduled :
    FinalAt(g) <= now /\ FinalAt(g) <= at /\ FinalAt(g) > CommittedCutoff(g) + 1

\* A season's first cutoff is not before the last result of the one before.
CleanSeasonBoundaries ==
  \A g, h \in Scheduled : SeasonOf[g] < SeasonOf[h] => FinalAt(g) <= CommittedCutoff(h)

\* The scorer verifies the aggregate again, live, and replays Elo.
Scorable(at) ==
  /\ Whole(aggregate.seal) /\ AggregateVerified(aggregate.seal)
  /\ Resolved(at)
  /\ CleanSeasonBoundaries
  /\ EloAgrees(aggregate.seal.batches)

WriteScoringInputs ==
  /\ score.inputs = NoFile
  /\ \E at \in Claims : Scorable(at)
  /\ \/ score' = [score EXCEPT !.inputs = aggregate.seal.batches] /\ UNCHANGED faults
     \/ score' = [score EXCEPT !.inputs = Torn] /\ Fault
  /\ UNCHANGED <<now, due, file, head, runs, aggregate, gate>>

ScoringRecord(at) == [at |-> at, inputs |-> score.inputs]

WriteScoringSeal ==
  /\ Whole(score.inputs) /\ score.seal = NoFile
  /\ \E at \in Claims :
       /\ Scorable(at)
       /\ \/ score' = [score EXCEPT !.seal = ScoringRecord(at)] /\ UNCHANGED faults
          \/ score' = [score EXCEPT !.seal = Torn] /\ Fault
  /\ UNCHANGED <<now, due, file, head, runs, aggregate, gate>>

\* The scoring seal is rebuilt live at its own time and the generic gate runs over its files,
\* which raises unless it is won.  The report binds the seal and authorizes nothing.
WriteGateReport ==
  /\ Whole(score.seal) /\ gate = NoFile
  /\ Scorable(score.seal.at)
  /\ \/ gate' = [seal |-> score.seal, authorization |-> "denied"] /\ UNCHANGED faults
     \/ gate' = Torn /\ Fault
  /\ UNCHANGED <<now, due, file, head, runs, aggregate, score>>

Next ==
  \/ WriteGateReport
  \/ Tick \/ Push \/ WritePlan \/ WriteAggregate \/ WriteScoringInputs \/ WriteScoringSeal
  \/ \E g \in Movable : Reschedule(g)
  \/ \E s \in Seasons : SealCoverage(s)
  \/ \E b \in Batches : SealBatch(b)

Spec == Init /\ [][Next]_vars

----------------------------------------------------------------------------
(* What must hold. *)

\* When the run behind an artifact's receipt in the aggregate was created.
CommittedAt(a) == runs[aggregate.seal.receipt[a]].at

\* The forecasts of a sealed aggregate are prospective in real time, whatever the callers
\* claimed: each game has one batch, which existed and was public before the cutoff that
\* the season's schedule seal committed for the game.
AggregatedForecastsPrecedeCutoffs ==
  Whole(aggregate.seal) =>
    \A g \in Scheduled :
      \E b \in aggregate.seal.batches :
        /\ g \in DOMAIN file[b].rows
        /\ file[b].made <= CommittedAt(b)
        /\ CommittedAt(b) < CommittedCutoff(g)

\* The plan and the schedule of a season were public before the first input of any game
\* that the aggregate forecasts: nothing was chosen after looking at a game.
CommitmentsPrecedeInputs ==
  Whole(aggregate.seal) =>
    \A b \in aggregate.seal.batches : \A g \in DOMAIN file[b].rows :
      /\ CommittedAt(Plan) < file[b].rows[g].input
      /\ CommittedAt(SeasonOf[g]) < file[b].rows[g].input

\* The Elo baseline of a scored game knows exactly what its forecast could know: every
\* result that the replay applies was out when the forecast was made, and no result was
\* out then that the replay withholds.
BaselineKnowsWhatForecastsKnew ==
  Whole(score.seal) =>
    \A b \in aggregate.seal.batches : \A g \in DOMAIN file[b].rows :
      CanonicalElo(g) = {h \in SeasonGames(SeasonOf[g]) \ {g} : FinalAt(h) <= file[b].made}
=============================================================================
