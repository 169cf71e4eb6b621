------------------------- MODULE OutcomeV2Training -------------------------
(***************************************************************************)
(* The paid outcome-v2 SFT run: the fail-closed preflight over the sealed   *)
(* artifacts, the create-only run lock, the paid batches and the experiment *)
(* seal, while the operator edits files, reseals the manifest, changes and  *)
(* publishes code, starts a second invocation, and invocations die.         *)
(*                                                                          *)
(*   src/examples/train_tinker_outcome_v2_sft.py                            *)
(*   src/examples/tinker_outcome_v2_runtime.py                              *)
(*   src/forecastfm/outcome_v2_preflight.py                                 *)
(*   src/forecastfm/outcome_v2_run.py   src/forecastfm/outcome_v2_experiment.py *)
(*                                                                          *)
(* A file is named by the build of the dataset that wrote it, and its bytes *)
(* are what Dataset says of that build; a digest is the content. A build is *)
(* honest or makes one mistake, which everything made from it then carries. *)
(***************************************************************************)
EXTENDS TrainingEvidence

CONSTANTS
  Invocations,
  Builds, Honest,       \* builds of the dataset, and those without a mistake
  Dataset,              \* what each build writes into each artifact, and its claims
  ActionTimes,          \* what the clock may show when the rights are checked
  Minimum,              \* the policy's least games and calendar blocks of a season
  Batches,              \* MAX_STEPS
  Reviews,              \* what may come of reviewing the external proofs; in the code, FALSE
  Absent, Torn,         \* no file, a file whose writer died inside the write
  Editable,             \* bound: the artifacts that are edited
  MaxFaults             \* bound: edits of a file or of the code, and deaths

ASSUME TrainingAssumption ==
  /\ Honest \subseteq Builds /\ Reviews \subseteq BOOLEAN
  /\ Batches \in Nat \ {0} /\ MaxFaults \in Nat
  /\ ActionTimes \subseteq Nat /\ Minimum \in Policies

\* A file of rows is read as a list, with integer times and seasons.
ASSUME DatasetAssumption ==
  \A b \in Builds :
    /\ \A a \in {"replay", "rows", "evalRows"} : Dataset[b][a] \in Seq(ToSet(Dataset[b][a]))
    /\ \A row \in ToSet(Dataset[b]["replay"]) : row.cutoff \in Int
    /\ \A r \in ToSet(Dataset[b]["resolutions"]) :
         r.resolvedAt \in Int /\ r.source.available \in Int
    /\ \A row \in ToSet(Dataset[b]["rows"]) \cup ToSet(Dataset[b]["evalRows"]) : row.season \in Int

VARIABLES
  files,                \* the build each artifact on disk is of
  manifest,             \* the builds whose digests it seals, and whose claims it makes
  code, head,           \* the versions of the code files in the tree, and as published
  inv,                  \* the invocations
  runLock, experiment,  \* the two create-only files
  clients,              \* what each invocation's paid client was given and did
  faults                \* how many edits and deaths so far

vars == <<files, manifest, code, head, inv, runLock, experiment, clients, faults>>

Sealed == {"training", "rows", "pack", "bundles", "states", "replay", "seasons", "resolutions",
           "rights", "evalRows", "evalReplay", "evalStates", "evalResolutions", "cohort",
           "answers", "forecasts", "calibration", "model", "forecastLock", "report"}
\* The agreement is bound by the rights lock alone.
Artifacts == Sealed \cup {"agreement"}

\* Of the builds that write the same bytes into an artifact, one stands for the digest.
Written == [a \in Artifacts \cup {"claims"} |-> [b \in Builds |-> Dataset[b][a]]]
Digest == [a \in Artifacts |->
             [b \in Builds |-> CHOOSE c \in Builds : Written[a][c] = Written[a][b]]]
SameBytes(from, to, names) == \A a \in names : from[a] = to[a]
Read(from) == [a \in DOMAIN from |-> Written[a][from[a]]]
Claims(m) == Written["claims"][m.claims]

\* An idle invocation, and a client not created.
Idle == [pc |-> "start", revision |-> Absent, manifest |-> Absent, seen |-> Absent, at |-> 0,
         rows |-> Absent, lock |-> Absent, runtime |-> Absent]
NoClient == [lock |-> Absent, training |-> Absent, runtime |-> Absent, batches |-> 0, saved |-> {}]

\* The run lock lists the files whose digests it binds; the paid run imports three others.
CodeFiles == {"listed", "other"}
LockedCode(tree) == tree["listed"]

Revisions == [CodeFiles -> Nat]

\* What a run lock may say: no file, and one cut short, are none of these.
RunLocks ==
  [revision : Revisions, code : Nat, at : ActionTimes, created : ActionTimes,
   training : Builds, sealed : [Artifacts -> Builds],
   preflight : [at : ActionTimes, training : Builds,
                seasons : {Dataset[b]["claims"].untouched : b \in Builds},
                rows : {Len(Dataset[b]["training"]) : b \in Builds},
                pairs : {Len(Dataset[b]["claims"].ids) : b \in Builds}]]

ASSUME MarkersAssumption == Absent # Torn /\ {Absent, Torn} \cap RunLocks = {}

Init ==
  /\ \E b \in Builds :
       /\ files = [a \in Artifacts |-> Digest[a][b]]
       /\ manifest = [outputs |-> [a \in Sealed |-> Digest[a][b]], claims |-> b]
  /\ code = [f \in CodeFiles |-> 0] /\ head = code
  /\ inv = [i \in Invocations |-> Idle]
  /\ runLock = Absent /\ experiment = Absent
  /\ clients = [i \in Invocations |-> NoClient]
  /\ faults = 0

\* A record with some of its fields changed.
Updated(record, changes) ==
  [f \in DOMAIN record |-> IF f \in DOMAIN changes THEN changes[f] ELSE record[f]]

Advance(i, changes) == inv' = [inv EXCEPT ![i] = Updated(@, changes)]
Refuse(i) == Advance(i, [pc |-> "refused"])
\* The invocation goes on if the condition holds and raises otherwise.
Require(i, condition, changes) ==
  IF condition THEN Advance(i, changes) ELSE Refuse(i)

World == <<files, manifest, code, head>>
Outputs == <<runLock, experiment, clients>>

-----------------------------------------------------------------------------
(* Preflight.                                                               *)

\* Neither output may exist when main begins.
RequireUnused(i) ==
  /\ inv[i].pc = "start"
  /\ Require(i, runLock = Absent /\ experiment = Absent, [pc |-> "unused"])
  /\ UNCHANGED <<World, Outputs, faults>>

RequirePublishedHead(i) ==
  /\ inv[i].pc = "unused"
  /\ Require(i, code = head, [pc |-> "published", revision |-> head])
  /\ UNCHANGED <<World, Outputs, faults>>

Ready(claims) ==
  /\ claims.ready
  /\ Len(claims.untouched) >= 2 /\ IsInjective(claims.untouched)

ReadManifest(i) ==
  /\ inv[i].pc = "published"
  /\ Require(i, Ready(Claims(manifest)), [pc |-> "manifest", manifest |-> manifest])
  /\ UNCHANGED <<World, Outputs, faults>>

\* Training bytes are captured here for good; everything else is only hashed.
HashArtifacts(i) ==
  /\ inv[i].pc = "manifest"
  /\ Require(i, SameBytes(files, inv[i].manifest.outputs, Sealed),
             [pc |-> "hashed", seen |-> files])
  /\ UNCHANGED <<World, Outputs, faults>>

Training(i) == Written["training"][inv[i].seen.training]

RightsAllowUpload(claims, lock, agreement) ==
  /\ ReviewedRights(lock, agreement)
  /\ ~claims.health /\ claims.permission = lock.permission

NoHealthText(training) == \A k \in DOMAIN training : HealthFree(training[k].prompt.evidence)

\* Rows and seasons are read by path and kept, the training rows come from the capture.
TrainingRowsBound(training, rows, seasons, claims) ==
  /\ FeatureRows(rows)
  /\ TrainingLoads(training)
  /\ NoHealthText(training)
  /\ ExactPairs(training)
  /\ OriginalIds(training) = claims.ids
  /\ PromptsMatchRows(training, rows)
  /\ Ids(seasons) = OriginalIds(training)
  /\ SeasonsOf(seasons) \cap ToSet(claims.untouched) = {}

CheckTrainingRows(i) ==
  /\ inv[i].pc = "hashed"
  /\ \E at \in ActionTimes, now \in {Read(files)}, claims \in {Claims(inv[i].manifest)} :
       Require(i, /\ RightsAllowUpload(claims, now.rights, now.agreement)
                  /\ TrainingRowsBound(Training(i), now.rows, now.seasons, claims),
               [pc |-> "rows", at |-> at, rows |-> files])
  /\ UNCHANGED <<World, Outputs, faults>>

TrainingProven(now, training, rows, seasons, rights, at) ==
  /\ SnapshotPack(now.pack) /\ RightsCover(now.pack, rights, at)
  /\ BundlesBound(now.bundles, now.pack)
  /\ RowsFromBundles(now.bundles, rows, seasons, at)
  /\ ReplayMatchesTraining(now.replay, now.bundles, seasons)
  /\ StatesMatchRows(now.states, rows, at)
  /\ ResolutionsBound(now.resolutions, now.pack)
  /\ ReplayAccepted(now.replay, now.resolutions, now.states)
  /\ LabelsFromScores(training, now.bundles, now.resolutions, at)
  /\ CanFit(rows, now.resolutions) /\ now.model = FitBaseline(rows, now.resolutions)
  /\ CalibrationFromTraining(now.calibration, now.replay, now.states, now.resolutions, seasons)

EvaluationProven(now, untouched, at) ==
  /\ SetToSortSeq(SeasonsOf(now.cohort), <) = untouched
  /\ ResolutionsBound(now.evalResolutions, now.pack)
  /\ ReplayAccepted(now.evalReplay, now.evalResolutions, now.evalStates)
  /\ FeatureRows(now.evalRows)
  /\ StatesMatchRows(now.evalStates, now.evalRows, at)
  /\ EvaluationAligned(now.cohort, now.evalReplay, now.evalStates, now.evalRows,
                       now.evalResolutions, now.answers, at)
  /\ ForecastsReplayed(now.model, now.evalRows, now.forecasts, now.forecastLock)

TabularGate(now) ==
  /\ GatePasses(now.cohort, now.answers, now.forecasts, now.calibration, Minimum)
  /\ now.report = GateReport(now.cohort, now.answers, now.forecasts, now.calibration)

\* Everything is read by path again; an edit between two of these reads is caught where one
\* between two steps is, by the second hashes. The rights are those loaded before.
CompleteProvenance(i) ==
  /\ inv[i].pc = "rows"
  /\ \E now \in {Read(files)}, kept \in {Read(inv[i].rows)}, at \in {inv[i].at} :
       Require(i, /\ TrainingProven(now, Training(i), kept.rows, kept.seasons, kept.rights, at)
                  /\ EvaluationProven(now, Claims(inv[i].manifest).untouched, at)
                  /\ TabularGate(now)
                  /\ SameBytes(files, inv[i].seen, {"cohort", "answers", "forecasts",
                                                    "calibration", "report"}),
               [pc |-> "proven"])
  /\ UNCHANGED <<World, Outputs, faults>>

\* The connector and the receipts have no reviewed verifier yet: the code raises here, always.
RequireReviewed(i) ==
  /\ inv[i].pc = "proven"
  /\ \E reviewed \in Reviews :
       Advance(i, [pc |-> IF reviewed THEN "reviewed" ELSE "unreviewed"])
  /\ UNCHANGED <<World, Outputs, faults>>

\* Artifacts, manifest, training path and agreement are still what was hashed and read.
UnchangedSince(i) ==
  /\ SameBytes(files, inv[i].seen, Sealed)
  /\ manifest = inv[i].manifest
  /\ SameBytes(files, inv[i].rows, {"agreement"})

HashAgain(i) ==
  /\ inv[i].pc = "reviewed"
  /\ Require(i, UnchangedSince(i), [pc |-> "prepared"])
  /\ UNCHANGED <<World, Outputs, faults>>

-----------------------------------------------------------------------------
(* Run lock, paid run and experiment.                                       *)

\* The commitment rebuilt from the prepared run, the head it began at and the present code.
RunLock(i) ==
  [revision |-> inv[i].revision, code |-> LockedCode(code), at |-> inv[i].at,
   created |-> inv[i].at, training |-> inv[i].seen.training, sealed |-> inv[i].seen,
   preflight |-> [at |-> inv[i].at, training |-> inv[i].manifest.outputs.training,
                  seasons |-> Claims(inv[i].manifest).untouched,
                  rows |-> Len(Training(i)), pairs |-> Len(Claims(inv[i].manifest).ids)]]

\* What a lock must say to be read as one.
RunLockRecord(lock) ==
  /\ lock # Torn
  /\ lock.created = lock.at /\ lock.preflight.at = lock.at
  /\ lock.preflight.training = lock.training
  /\ Len(lock.preflight.seasons) >= 2 /\ IsInjective(lock.preflight.seasons)
  /\ lock.preflight.rows = 2 * lock.preflight.pairs

\* Read from disk, the lock is the one built anew.
LockVerified(i) == RunLockRecord(runLock) /\ runLock = RunLock(i)

\* Mutation: an existing lock is replaced.
CreateLockAnew(i) ==
  /\ inv[i].pc = "prepared"
  /\ runLock' = Torn
  /\ Advance(i, [pc |-> "locking", lock |-> RunLock(i)])
  /\ UNCHANGED <<World, experiment, clients, faults>>

\* Opened "xb": whoever comes second raises.
CreateLock(i) ==
  /\ inv[i].pc = "prepared"
  /\ IF RunLockRecord(RunLock(i)) /\ runLock = Absent
     THEN runLock' = Torn /\ Advance(i, [pc |-> "locking", lock |-> RunLock(i)])
     ELSE Refuse(i) /\ UNCHANGED runLock
  /\ UNCHANGED <<World, experiment, clients, faults>>

WriteLock(i) ==
  /\ inv[i].pc = "locking"
  /\ runLock' = inv[i].lock
  /\ Advance(i, [pc |-> "locked"])
  /\ UNCHANGED <<World, experiment, clients, faults>>

VerifyLock(i) ==
  /\ inv[i].pc = "locked"
  /\ Require(i, LockVerified(i), [pc |-> "verified"])
  /\ UNCHANGED <<World, Outputs, faults>>

LoadRuntime(i) ==
  /\ inv[i].pc = "verified"
  /\ Advance(i, [pc |-> "loaded", runtime |-> code])
  /\ UNCHANGED <<World, Outputs, faults>>

VerifyUnchanged(i) ==
  /\ inv[i].pc = "loaded"
  /\ Require(i, LockVerified(i), [pc |-> "ready"])
  /\ UNCHANGED <<World, Outputs, faults>>

\* Every batch is rendered from the captured bytes before the client is created.
CreateClient(i) ==
  /\ inv[i].pc = "ready"
  /\ clients' = [clients EXCEPT ![i] = [@ EXCEPT !.lock = inv[i].lock,
                                                !.training = inv[i].seen.training,
                                                !.runtime = inv[i].runtime]]
  /\ Advance(i, [pc |-> "training"])
  /\ UNCHANGED <<World, runLock, experiment, faults>>

\* A batch's forward, backward and optimizer step, both awaited.
TrainBatch(i) ==
  /\ inv[i].pc = "training" /\ clients[i].batches < Batches
  /\ clients' = [clients EXCEPT ![i].batches = @ + 1]
  /\ UNCHANGED <<World, inv, runLock, experiment, faults>>

SaveFinalPaths(i) ==
  /\ inv[i].pc = "training" /\ clients[i].batches = Batches
  /\ clients' = [clients EXCEPT ![i].saved = IF @ = {} THEN {"state"} ELSE {"state", "sampler"}]
  /\ IF clients[i].saved = {} THEN UNCHANGED inv ELSE Advance(i, [pc |-> "trained"])
  /\ UNCHANGED <<World, runLock, experiment, faults>>

\* The permanent paths that a paid run returns.
Result(i) == [state |-> <<i, "state">>, sampler |-> <<i, "sampler">>]

\* The seal binds the run lock as it is read back from disk.
Experiment(i, lock) == [lock |-> lock, state |-> Result(i).state, sampler |-> Result(i).sampler]
ExperimentRecord(seal) == seal # Torn /\ seal.state # seal.sampler

CreateExperiment(i) ==
  /\ inv[i].pc = "trained"
  /\ IF RunLockRecord(runLock) /\ ExperimentRecord(Experiment(i, runLock)) /\ experiment = Absent
     THEN /\ experiment' = Torn
          /\ Advance(i, [pc |-> "sealing", lock |-> runLock])
     ELSE Refuse(i) /\ UNCHANGED experiment
  /\ UNCHANGED <<World, runLock, clients, faults>>

WriteExperiment(i) ==
  /\ inv[i].pc = "sealing"
  /\ experiment' = Experiment(i, inv[i].lock)
  /\ Advance(i, [pc |-> "sealed"])
  /\ UNCHANGED <<World, runLock, clients, faults>>

VerifyExperiment(i) ==
  /\ inv[i].pc = "sealed"
  /\ Require(i, /\ ExperimentRecord(experiment) /\ RunLockRecord(runLock)
                /\ runLock = experiment.lock, [pc |-> "done"])
  /\ UNCHANGED <<World, Outputs, faults>>

-----------------------------------------------------------------------------
(* The operator, and deaths.                                                *)

\* One file of an honest dataset is replaced by another build's, or mended by an honest one's.
EditFile ==
  /\ faults < MaxFaults
  /\ \E a \in Editable, b \in Builds :
       /\ b \in Honest \/ \E h \in Honest : files[a] = Digest[a][h]
       /\ Digest[a][b] # files[a]
       /\ files' = [files EXCEPT ![a] = Digest[a][b]]
  /\ faults' = faults + 1
  /\ UNCHANGED <<manifest, code, head, inv, Outputs>>

\* The dataset's digests are written anew over the files as they are.
Reseal ==
  /\ manifest.outputs # [a \in Sealed |-> files[a]]
  /\ manifest' = [manifest EXCEPT !.outputs = [a \in Sealed |-> files[a]]]
  /\ UNCHANGED <<files, code, head, inv, Outputs, faults>>

EditCode ==
  /\ faults < MaxFaults
  /\ \E f \in CodeFiles : code' = [code EXCEPT ![f] = @ + 1]
  /\ faults' = faults + 1
  /\ UNCHANGED <<files, manifest, head, inv, Outputs>>

PublishCode ==
  /\ head # code
  /\ head' = code
  /\ UNCHANGED <<files, manifest, code, inv, Outputs, faults>>

Ended == {"start", "refused", "unreviewed", "dead", "done"}

\* Death, or any exception: a provider's error during the paid run is one.
Dies(i) ==
  /\ faults < MaxFaults
  /\ inv[i].pc \notin Ended
  /\ Advance(i, [pc |-> "dead"])
  /\ faults' = faults + 1
  /\ UNCHANGED <<World, Outputs>>

Step(i) ==
  \/ RequireUnused(i) \/ RequirePublishedHead(i) \/ ReadManifest(i) \/ HashArtifacts(i)
  \/ CheckTrainingRows(i) \/ CompleteProvenance(i) \/ RequireReviewed(i) \/ HashAgain(i)
  \/ CreateLock(i) \/ WriteLock(i) \/ VerifyLock(i) \/ LoadRuntime(i) \/ VerifyUnchanged(i)
  \/ CreateClient(i) \/ TrainBatch(i) \/ SaveFinalPaths(i)
  \/ CreateExperiment(i) \/ WriteExperiment(i) \/ VerifyExperiment(i)

Next ==
  \/ \E i \in Invocations : Step(i) \/ Dies(i)
  \/ EditFile \/ Reseal \/ EditCode \/ PublishCode

\* An invocation once begun is a process that keeps running; nobody has to begin one. This is
\* weak fairness of Step(i) written out: an invocation that has not ended has a step, since a
\* check that fails is one too, and i's steps are those that change i or its client.
KeepsRunning(i) == []<>(inv[i].pc \in Ended) \/ []<><<TRUE>>_<<inv[i], clients[i]>>

Spec == Init /\ [][Next]_vars /\ \A i \in Invocations : KeepsRunning(i)

-----------------------------------------------------------------------------
(* Properties.                                                              *)

Paid == {i \in Invocations : clients[i].lock # Absent}
\* The dataset that a paid run's lock seals.
Locked(i) == Read(clients[i].lock.sealed)

\* Every result that moved the prior of a trained row is claimed by a sealed resolution
\* whose snapshot was available at the row's cutoff.
PriorsKnown(sealed, row) ==
  \A result \in row.prior.results : \E r \in ToSet(sealed.resolutions) :
    /\ r.id = result.id /\ TeamWon(r) = result.won
    /\ r.source \in sealed.pack /\ r.source.available <= row.cutoff

\* The evidence of a trained row is the latest of its source that was available at the cutoff.
EvidenceCurrent(sealed, row) ==
  \A source \in row.bundle.sources :
    /\ source \in sealed.pack /\ source.available <= row.cutoff
    /\ \A s \in sealed.pack :
         s.source = source.source /\ s.available <= row.cutoff => ~KnownLater(s, source)

\* No paid run trains on hindsight: in the dataset that its lock seals, whatever was edited
\* and resealed meanwhile, prior and evidence of every row were known at its cutoff, the
\* prompts are those of the rows, and the labels are the sealed results.
NoHindsightIsTrained ==
  \A i \in Paid : \A sealed \in {Locked(i)} :
    LET trained == Written["training"][clients[i].training]
    IN /\ trained = sealed.training
       /\ \A k \in DOMAIN sealed.rows :
            LET row == sealed.rows[k]
            IN /\ PriorsKnown(sealed, row) /\ EvidenceCurrent(sealed, row)
               /\ trained[2 * k - 1].prompt = Prompt(row, FALSE)
               /\ trained[2 * k - 1].label = Label(TeamWon(sealed.resolutions[k]))
               /\ sealed.resolutions[k].resolvedAt > row.tipoff

\* A paid run is admitted by seasons the baseline never saw: the sealed forecasts come from
\* a model of exactly the trained rows and their results, every evaluated season is later
\* than every trained one, and each of at least two is won.
EvaluationIsUntouched ==
  \A i \in Paid : \A sealed \in {Locked(i)} :
    /\ Cardinality(SeasonsOf(sealed.cohort)) >= 2
    /\ \A early \in SeasonsOf(sealed.rows), late \in SeasonsOf(sealed.cohort) : early < late
    /\ \A k \in DOMAIN sealed.forecasts :
         /\ sealed.forecasts[k].by = FitBaseline(sealed.rows, sealed.resolutions).pairs
         /\ sealed.forecasts[k].value = sealed.evalRows[k].signal
         /\ sealed.forecasts[k].id = sealed.answers[k].id
    /\ \A season \in SeasonsOf(sealed.cohort), baseline \in Baselines :
         SeasonWon(sealed.forecasts, sealed.cohort, season, baseline)

\* What a paid run sends away is covered by the reviewed rights that its own lock seals:
\* every snapshot in scope, of these rights and retrieved by the action time, permission
\* granted under the agreement on file, and no health evidence among the rows. The code does
\* not keep it if a file is mended between the two passes of hashes and then put back.
RightsCoverWhatIsTrained ==
  \A i \in Paid : \A sealed \in {Locked(i)} :
    /\ sealed.rights.permission = "allowed"
    /\ RightsCover(sealed.pack, sealed.rights, clients[i].lock.at)
    /\ \A k \in DOMAIN sealed.rows : HealthFree(sealed.rows[k].bundle)

\* Only one paid run is ever started, under the lock that is on disk, by the code it lists;
\* and an experiment seal names that lock, after all batches were trained, and both paths.
PaidOnce ==
  /\ Cardinality(Paid) <= 1
  /\ \A i \in Paid : runLock = clients[i].lock /\ LockedCode(clients[i].runtime) = runLock.code
  /\ experiment \notin {Absent, Torn} => \E i \in Paid :
       /\ experiment.lock = clients[i].lock
       /\ experiment.sampler = Result(i).sampler
       /\ clients[i].batches = Batches /\ clients[i].saved = {"state", "sampler"}

\* The files on disk are those of an honest build, and nothing has happened to them.
Undisturbed == manifest.claims \in Honest /\ faults = 0

\* The review is all that stops honest evidence: once an invocation over it has passed the
\* publication check it stands unreviewed, or else the paid run is sealed, by it or by the
\* other, however the two overlap, unless a file or the code is changed or one of them dies.
HonestEvidenceReachesReview ==
  \A i \in Invocations : (Undisturbed /\ inv[i].pc = "published")
    ~> (inv[i].pc = "unreviewed" \/ experiment \notin {Absent, Torn} \/ ~Undisturbed)
=============================================================================
