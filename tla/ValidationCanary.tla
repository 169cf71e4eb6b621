-------------------------- MODULE ValidationCanary --------------------------
(***************************************************************************)
(* The legacy study from its training lock to the scores of its second      *)
(* validation canary: lock, trained sampler, experiment, canary v1, the     *)
(* format smoke, the v2 protocol that pins both, canary v2 and its answers. *)
(* Commands overlap and die; the operator commits, pushes and edits.        *)
(*                                                                          *)
(*   src/forecastfm/run_lock.py, checkpoints.py, canary.py,                 *)
(*   canary_history.py                                                      *)
(*   examples/freeze_training_lock.py, train_tinker_sft.py,                 *)
(*   freeze_experiment.py, build_validation_canary(_v2).py,                 *)
(*   run_tinker_canary(_v2).py, run_tinker_format_smoke.py,                 *)
(*   score_validation_canary(_v2).py                                        *)
(*                                                                          *)
(* A file is its content, so a hash is the content it is of. A command's    *)
(* checks before its first write or call are one look at the files; an      *)
(* invocation that fails them changes nothing and is not a step.            *)
(***************************************************************************)
EXTENDS Naturals, FiniteSets, SequencesExt, TLC

CONSTANTS
  Procs,                \* invocations that may be at work at once
  Source,               \* the validation question ids in lexicographic order
  CohortSize,           \* games in a canary
  Versions,             \* what a source may come to hold, in the order it does so, from 0 on
  Listed,               \* the versions of the training data some dataset manifest lists
  Responses,            \* how a sampling call may end
  Edits,                \* bound: the paths the operator edits
  Absent, Torn, Edited, \* no file, one whose writer died inside the write, one changed later
  MaxTrained,           \* bound: completed training runs
  MaxFaults             \* bound: deaths, edits and calls that end badly

Cohorts == {"v1", "v2"}
Runs == Cohorts \cup {"smoke"}
Arms == <<"base", "adapter">>

\* What a call returns: a response the renderer parses, whose prediction is valid or not; one it
\* raises on, with tokens or without any; or nothing at all.
Parsed == {"valid", "invalid"}
Unread == {"garbled", "empty"}

All(kind) == <<kind, "all">>
Raw == {"marker", "base", "adapter", "seal"}
Paths ==
  {All(k) : k \in {"data", "core", "protocol", "source", "answers",
                   "trainingLock", "checkpoints", "experiment"}}
    \cup ({"manifest", "prompts"} \X Cohorts) \cup ((Raw \cup {"result"}) \X Runs)

\* The inputs of the study that are not written by its commands.
Sources == {All(k) : k \in {"data", "core", "source", "answers"}}

\* .gitignore keeps the data, the answers and Tinker's own logs out of the repository.
Tracked == Paths \ {All(k) : k \in {"data", "source", "answers", "checkpoints"}}

ASSUME CanaryAssumption ==
  /\ Source \in Seq(ToSet(Source)) /\ IsInjective(Source)
  /\ CohortSize \in Nat \ {0} /\ Len(Source) >= 2 * CohortSize
  /\ 0 \in Versions /\ Versions \subseteq Nat
  /\ Edits \subseteq Paths
  /\ "valid" \in Responses /\ Responses \subseteq Parsed \cup Unread \cup {"nothing"}
  /\ MaxTrained \in Nat /\ MaxFaults \in Nat

\* The base model is no sampler of any training run.
BaseModel == [data |-> 0, core |-> 0, run |-> 0]

\* What the files may hold: the records that the commands parse, and the marks.
Marks == {Absent, Torn, Edited}
Texts == ({"row0"} \cup ToSet(Source)) \X {"original", "side_swap"}
Locks == [data : Versions, core : Versions]
Samplers == [data : Versions, core : Versions, run : Nat \ {0}]
Experiments == [lock : Locks, sampler : Samplers]
Records ==
  [prompt : Texts, model : {BaseModel} \cup Samplers,
   status : {"completed", "error", "renderer_error"}, response : Responses]
Manifests(protocols, commitments) ==
  [games : Seq(ToSet(Source)), prompts : Seq(Texts), lock : Locks, experiment : Experiments,
   revision : Versions \X protocols, commitments : commitments]
FirstManifests == Manifests(Marks, {Absent})
SmokeMarkers == [lock : Locks, experiment : Experiments]
SmokeSeals ==
  [marker : Marks \cup SmokeMarkers, base : Marks \cup Seq(Records), adapter : Marks \cup Seq(Records)]
SmokeResults == [passed : BOOLEAN, seal : SmokeSeals]
Protocols == [retired : FirstManifests, seal : SmokeSeals, result : SmokeResults]
SecondManifests == Manifests(Marks \cup Protocols, Protocols)
CanaryMarkers == [manifest : FirstManifests \cup SecondManifests, prompts : Seq(Texts)]

ASSUME MarksAssumption ==
  /\ Absent \notin {Torn, Edited}
  /\ \A mark \in Marks :
       mark \notin Versions \cup Locks \cup Seq(Samplers) \cup Seq(Texts) \cup Seq(Records)
                  \cup SmokeMarkers \cup CanaryMarkers \cup SmokeSeals

VARIABLES
  files,                \* the working tree
  head, pushed,         \* the last commit of it, and whether that is origin/main
  public,               \* the artifacts that are, as created, in some pushed commit
  job, at, held,        \* of each invocation: its command, where it stands, what it holds
  calls,                \* how often each run put each prompt to each arm
  opened,               \* the answer openings: of which cohort, with what public
  faults

git == <<head, pushed, public>>
vars == <<files, git, job, at, held, calls, opened, faults>>

Idle == [cmd |-> "none", of |-> "all"]

Init ==
  /\ files = [p \in Paths |->
       IF p \in {All("data"), All("core"), All("source"), All("answers")} THEN 0
       ELSE IF p = All("checkpoints") THEN << >> ELSE Absent]
  /\ head = [p \in Tracked |-> files[p]] /\ pushed = TRUE /\ public = {}
  /\ job = [i \in Procs |-> Idle] /\ at = [i \in Procs |-> "idle"] /\ held = [i \in Procs |-> << >>]
  /\ calls = [r \in Runs |-> << >>]
  /\ opened = {} /\ faults = 0

Whole(path) == files[path] \notin Marks

\* git status, without and with untracked files.
TrackedClean == \A p \in Tracked : head[p] # Absent => files[p] = head[p]
TreeClean == \A p \in Tracked : files[p] = head[p]

-----------------------------------------------------------------------------
(* Steps every command is made of.                                          *)

Begin(i, cmd, of, next, memory) ==
  /\ job[i] = Idle
  /\ job' = [job EXCEPT ![i] = [cmd |-> cmd, of |-> of]]
  /\ at' = [at EXCEPT ![i] = next]
  /\ held' = [held EXCEPT ![i] = memory]

End(i) ==
  /\ job' = [job EXCEPT ![i] = Idle]
  /\ at' = [at EXCEPT ![i] = "idle"]
  /\ held' = [held EXCEPT ![i] = << >>]

Goes(i, next, memory) ==
  /\ at' = [at EXCEPT ![i] = next]
  /\ held' = [held EXCEPT ![i] = memory]
  /\ UNCHANGED job

\* An invocation whose only output exists raises in the end and changes nothing: not a step.
Useful(path) == files[path] = Absent

Stands(i, cmd, place) == job[i].cmd = cmd /\ at[i] = place

Put(path, value) == files' = [files EXCEPT ![path] = value] /\ UNCHANGED git

\* Mutation: an existing file is replaced.
CreateAnew(i, path, value, next, memory) ==
  /\ Put(path, value)
  /\ IF next = "end" THEN End(i) ELSE Goes(i, next, memory)

\* Opened "x": the invocation that comes second raises.
Create(i, path, value, next, memory) ==
  IF files[path] = Absent
  THEN /\ Put(path, value)
       /\ IF next = "end" THEN End(i) ELSE Goes(i, next, memory)
  ELSE End(i) /\ UNCHANGED <<files, git>>

-----------------------------------------------------------------------------
(* Training lock, training, experiment.                                     *)

\* Every input and setting of training; refused if the manifest does not list the data.
TrainingLock == [data |-> files[All("data")], core |-> files[All("core")]]
LockBuildable == files[All("data")] \in Listed
LockVerified == LockBuildable /\ files[All("trainingLock")] = TrainingLock

FreezeTrainingLock(i) ==
  \/ /\ TrackedClean /\ LockBuildable /\ Useful(All("trainingLock"))
     /\ Begin(i, "lock", "all", "writing", TrainingLock)
     /\ UNCHANGED <<files, git, calls, opened, faults>>
  \/ /\ Stands(i, "lock", "writing")
     /\ Create(i, All("trainingLock"), held[i], "end", << >>)
     /\ UNCHANGED <<calls, opened, faults>>

\* The lock is verified first; the remote trainer reads the data file afterwards. Checkpoints
\* are read for the experiment only: what training records after it is left out.
Train(i) ==
  \/ /\ LockVerified /\ Len(files[All("checkpoints")]) < MaxTrained
     /\ Useful(All("experiment"))
     /\ Begin(i, "train", "all", "reading", files[All("core")])
     /\ UNCHANGED <<files, git, calls, opened, faults>>
  \/ /\ Stands(i, "train", "reading")
     /\ Goes(i, "training", [data |-> files[All("data")], core |-> held[i]])
     /\ UNCHANGED <<files, git, calls, opened, faults>>
  \/ /\ Stands(i, "train", "training")
     /\ Len(files[All("checkpoints")]) < MaxTrained /\ Useful(All("experiment"))
     /\ Put(All("checkpoints"),
            Append(files[All("checkpoints")],
                   [data |-> held[i].data, core |-> held[i].core,
                    run |-> Len(files[All("checkpoints")]) + 1]))
     /\ End(i) /\ UNCHANGED <<calls, opened, faults>>
  \/ /\ Stands(i, "train", "training") /\ ~Useful(All("experiment"))
     /\ End(i) /\ UNCHANGED <<files, git, calls, opened, faults>>

\* Mutation: the lock is bound as it is, without comparing it with the files again.
ExperimentBuildableUnverified ==
  Whole(All("trainingLock")) /\ Len(files[All("checkpoints")]) = 1

\* One final record, and the lock still that of the working files.
ExperimentBuildable == LockVerified /\ Len(files[All("checkpoints")]) = 1

FreezeExperiment(i) ==
  \/ /\ ExperimentBuildable /\ Useful(All("experiment"))
     /\ Begin(i, "experiment", "all", "writing",
              [lock |-> files[All("trainingLock")], sampler |-> files[All("checkpoints")][1]])
     /\ UNCHANGED <<files, git, calls, opened, faults>>
  \/ /\ Stands(i, "experiment", "writing")
     /\ Create(i, All("experiment"), held[i], "end", << >>)
     /\ UNCHANGED <<calls, opened, faults>>

\* What every later command asks first.
LocksVerified ==
  /\ LockVerified
  /\ Whole(All("experiment")) /\ files[All("experiment")].lock = files[All("trainingLock")]

-----------------------------------------------------------------------------
(* The frozen canaries.                                                     *)

\* The first or the second CohortSize ids; original and side swap of each.
CohortGames(c) ==
  SubSeq(Source, IF c = "v1" THEN 1 ELSE CohortSize + 1,
         IF c = "v1" THEN CohortSize ELSE 2 * CohortSize)
PairedPrompts(games) ==
  [n \in 1 .. 2 * Len(games) |->
     <<games[(n + 1) \div 2], IF n % 2 = 1 THEN "original" ELSE "side_swap">>]

\* The operator writes the v2 protocol, its commitments those of the retired canary and the
\* smoke as they are then.
WriteProtocol ==
  /\ files[All("protocol")] = Absent
  /\ Whole(<<"manifest", "v1">>) /\ Whole(<<"seal", "smoke">>) /\ Whole(<<"result", "smoke">>)
  /\ Put(All("protocol"),
         [retired |-> files[<<"manifest", "v1">>], seal |-> files[<<"seal", "smoke">>],
          result |-> files[<<"result", "smoke">>]])
  /\ UNCHANGED <<job, at, held, calls, opened, faults>>

Protocol == files[All("protocol")]
RevisionOf(tree) == <<tree[All("core")], tree[All("protocol")]>>

\* Mutation: that the smoke was run and sealed is enough.
SmokeVerifiedAsSealed ==
  /\ files[<<"result", "smoke">>] = Protocol.result /\ files[<<"seal", "smoke">>] = Protocol.seal
  /\ Protocol.result.seal = Protocol.seal

SmokeVerified ==
  /\ files[<<"result", "smoke">>] = Protocol.result /\ files[<<"seal", "smoke">>] = Protocol.seal
  /\ Protocol.result.passed /\ Protocol.result.seal = Protocol.seal

CommitmentsVerified ==
  /\ Whole(All("protocol"))
  /\ files[<<"manifest", "v1">>] = Protocol.retired
  /\ SmokeVerified
  /\ files[All("source")] = 0
  /\ ToSet(CohortGames("v2")) \cap ToSet(Protocol.retired.games) = {}

CanBuild(c) ==
  /\ TrackedClean /\ LocksVerified
  /\ c = "v2" => pushed /\ CommitmentsVerified
  /\ files[All("source")] = 0
  /\ files[<<"prompts", c>>] = Absent /\ files[<<"manifest", c>>] = Absent

Manifest(c) ==
  [games |-> CohortGames(c), prompts |-> PairedPrompts(CohortGames(c)),
   lock |-> files[All("trainingLock")], experiment |-> files[All("experiment")],
   revision |-> RevisionOf(head), commitments |-> IF c = "v2" THEN Protocol ELSE Absent]

\* Prompts first, manifest second, each created exclusively.
BuildCanary(i) ==
  \/ \E c \in Cohorts :
       /\ CanBuild(c)
       /\ Begin(i, "build", c, "prompts", Manifest(c))
       /\ UNCHANGED <<files, git, calls, opened, faults>>
  \/ /\ Stands(i, "build", "prompts")
     /\ Create(i, <<"prompts", job[i].of>>, held[i].prompts, "manifest", held[i])
     /\ UNCHANGED <<calls, opened, faults>>
  \/ /\ Stands(i, "build", "manifest")
     /\ Create(i, <<"manifest", job[i].of>>, held[i], "end", << >>)
     /\ UNCHANGED <<calls, opened, faults>>

InSourceOrder(games) == games = SelectSeq(Source, LAMBDA q : q \in ToSet(games))

\* A whole cohort in lexicographic order; the second canary's has commitments, the first has
\* none.
ManifestLoads(c) ==
  /\ Whole(<<"manifest", c>>)
  /\ LET m == files[<<"manifest", c>>]
     IN /\ Len(m.games) = CohortSize
        /\ InSourceOrder(m.games)
        /\ (m.commitments = Absent) = (c = "v1")

\* Original and then side swap of each listed game, and nothing else.
FrozenPrompts(prompts, games) ==
  /\ Len(prompts) = 2 * CohortSize
  /\ \A n \in DOMAIN games :
       prompts[2 * n - 1] = <<games[n], "original">> /\ prompts[2 * n] = <<games[n], "side_swap">>

CanaryLoads(c) ==
  /\ ManifestLoads(c)
  /\ files[<<"prompts", c>>] = files[<<"manifest", c>>].prompts
  /\ FrozenPrompts(files[<<"prompts", c>>], files[<<"manifest", c>>].games)

-----------------------------------------------------------------------------
(* The two arms.                                                            *)

ManifestBound(c) ==
  /\ files[<<"manifest", c>>].lock = files[All("trainingLock")]
  /\ files[<<"manifest", c>>].experiment = files[All("experiment")]

\* The cohort, its prompts and its commitments, derived and read once more.
SecondManifestBound ==
  LET m == files[<<"manifest", "v2">>]
  IN /\ m.games = CohortGames("v2") /\ m.prompts = PairedPrompts(m.games)
     /\ m.commitments = Protocol

\* Clean, the named paths committed, the protocol as it was when the cohort was frozen, and
\* HEAD at origin/main.
RevisionPublished(c, required) ==
  /\ TreeClean /\ \A k \in required : head[<<k, c>>] # Absent
  /\ RevisionOf(head) = files[<<"manifest", c>>].revision
  /\ pushed

CanRun(r) ==
  /\ LocksVerified
  /\ IF r = "smoke"
     THEN TrackedClean /\ pushed /\ files[All("data")] \in Listed
     ELSE CanaryLoads(r) /\ ManifestBound(r)
  /\ r = "v2" => CommitmentsVerified /\ SecondManifestBound
                /\ RevisionPublished("v2", {"manifest", "prompts"})
  /\ \A k \in Raw : files[<<k, r>>] = Absent
  /\ r = "smoke" => files[<<"result", r>>] = Absent

SmokePrompts == << <<"row0", "original">> >>

\* What a run captures before it marks its attempt.
RunInputs(r) ==
  [prompts |-> IF r = "smoke" THEN SmokePrompts ELSE files[<<"prompts", r>>],
   sampler |-> files[All("experiment")].sampler, records |-> << >>]

Marker(r) ==
  IF r = "smoke"
  THEN [lock |-> files[All("trainingLock")], experiment |-> files[All("experiment")]]
  ELSE [manifest |-> files[<<"manifest", r>>], prompts |-> files[<<"prompts", r>>]]

BeginRun(i) ==
  \E r \in Runs :
    /\ CanRun(r)
    /\ Begin(i, "run", r, "marking", RunInputs(r))
    /\ UNCHANGED <<files, git, calls, opened, faults>>

\* The canary is loaded again, and the attempt is marked before any client exists.
MarkAttempt(i) ==
  /\ Stands(i, "run", "marking")
  /\ LET r == job[i].of
     IN IF r = "smoke" \/ CanaryLoads(r)
        THEN Create(i, <<"marker", r>>, Marker(r), "base", held[i])
        ELSE End(i) /\ UNCHANGED <<files, git>>
  /\ UNCHANGED <<calls, opened, faults>>

Model(arm, sampler) == IF arm = "base" THEN BaseModel ELSE sampler

Completed(prompt, model, response) ==
  [prompt |-> prompt, model |-> model, status |-> "completed", response |-> response]

\* The provider raised, or did not return one sequence: nothing of it is kept.
Failed(prompt, model) ==
  [prompt |-> prompt, model |-> model, status |-> "error", response |-> "nothing"]

\* The response was paid for and is kept, although it could not be rendered.
RendererFailed(prompt, model, response) ==
  [prompt |-> prompt, model |-> model, status |-> "renderer_error", response |-> response]

RecordOf(prompt, model, response) ==
  CASE response \in Parsed -> Completed(prompt, model, response)
    [] response \in Unread -> RendererFailed(prompt, model, response)
    [] response = "nothing" -> Failed(prompt, model)

\* Exactly one call; whatever comes back, or an exception, is recorded and never retried.
Sample(i) ==
  \E arm \in ToSet(Arms), response \in Responses :
    /\ Stands(i, "run", arm)
    /\ Len(held[i].records) < Len(held[i].prompts)
    /\ response # "valid" => faults < MaxFaults
    /\ LET prompt == held[i].prompts[Len(held[i].records) + 1]
           record == RecordOf(prompt, Model(arm, held[i].sampler), response)
       IN /\ Goes(i, arm, [held[i] EXCEPT !.records = Append(@, record)])
          /\ calls' = [calls EXCEPT ![job[i].of] = Append(@, record)]
    /\ faults' = IF response = "valid" THEN faults ELSE faults + 1
    /\ UNCHANGED <<files, git, opened>>

Consistent(record) ==
  \/ record.status = "completed" /\ record.response \in Parsed
  \/ record.status = "error" /\ record.response = "nothing"
  \/ record.status = "renderer_error" /\ record.response \in Unread

\* One record for each prompt, in order, failed ones included.
Covers(records, prompts) ==
  /\ \A n \in DOMAIN records : Consistent(records[n])
  /\ [n \in DOMAIN records |-> records[n].prompt] = prompts

\* The smoke writes no record of a response without tokens that did not render: it was paid
\* for, and the run ends without it.
SmokeRecordable(record) ==
  Consistent(record) /\ ~(record.status = "renderer_error" /\ record.response = "empty")

\* An arm's file is created once the whole arm is done.
WriteArm(i) ==
  \E n \in DOMAIN Arms :
    /\ Stands(i, "run", Arms[n])
    /\ Covers(held[i].records, held[i].prompts)
    /\ IF job[i].of # "smoke" \/ SmokeRecordable(held[i].records[1])
       THEN Create(i, <<Arms[n], job[i].of>>, held[i].records,
                   IF n = 1 THEN "adapter" ELSE "sealing",
                   [held[i] EXCEPT !.records = << >>])
       ELSE End(i) /\ UNCHANGED <<files, git>>
    /\ UNCHANGED <<calls, opened, faults>>

\* The smoke seals the files as they are; it does not read them back.
SmokeSeal ==
  [k \in {"marker", "base", "adapter"} |-> files[<<k, "smoke">>]]

GenerationSeal(c) ==
  [k \in {"manifest", "prompts", "marker", "base", "adapter"} |-> files[<<k, c>>]]

SealOf(r) == IF r = "smoke" THEN SmokeSeal ELSE GenerationSeal(r)

\* Mutation: outputs are sealed whatever the marker and the frozen prompts say.
CanSealAnything(r) == \A arm \in ToSet(Arms) : Whole(<<arm, r>>)

GenerationsLoad(arm, c) ==
  Whole(<<arm, c>>) /\ Covers(files[<<arm, c>>], files[<<"prompts", c>>])

\* Read back from disk: both arms cover the frozen prompts, and the marker is of this canary.
CanSeal(r) ==
  r # "smoke" =>
    /\ CanaryLoads(r) /\ \A arm \in ToSet(Arms) : GenerationsLoad(arm, r)
    /\ files[<<"marker", r>>] = Marker(r)

SealOutputs(i) ==
  /\ Stands(i, "run", "sealing")
  /\ LET r == job[i].of
     IN IF CanSeal(r)
        THEN Create(i, <<"seal", r>>, SealOf(r), IF r = "smoke" THEN "gating" ELSE "end", held[i])
        ELSE End(i) /\ UNCHANGED <<files, git>>
  /\ UNCHANGED <<calls, opened, faults>>

Gated(records) ==
  \A n \in DOMAIN records : records[n].status = "completed" /\ records[n].response = "valid"

\* The smoke's files are compared with its seal once more, then both arms are gated.
GateSmoke(i) ==
  /\ Stands(i, "run", "gating")
  /\ LET seal == SealOf("smoke")
     IN IF files[<<"seal", "smoke">>] = seal
        THEN Create(i, <<"result", "smoke">>,
                    [passed |-> Gated(seal.base) /\ Gated(seal.adapter), seal |-> seal],
                    "end", << >>)
        ELSE End(i) /\ UNCHANGED <<files, git>>
  /\ UNCHANGED <<calls, opened, faults>>

-----------------------------------------------------------------------------
(* Scoring.                                                                 *)

SealedPaths == {"manifest", "prompts"} \cup Raw

\* Mutation: the raw outputs are there, committed or not.
OutputsProvedPresent(c) == \A k \in SealedPaths : Whole(<<k, c>>)

\* The v2 scorer proves the six artifacts public; the v1 scorer proves nothing.
OutputsProved(c) ==
  c = "v2" => /\ files[<<"result", c>>] = Absent /\ CanaryLoads(c)
              /\ RevisionPublished(c, SealedPaths)

SealVerified(c) == Whole(<<"seal", c>>) /\ files[<<"seal", c>>] = SealOf(c)

\* The five hashes of the seal, then canary and records loaded and covered.
SealedLoads(c) ==
  SealVerified(c) /\ CanaryLoads(c) /\ \A arm \in ToSet(Arms) : GenerationsLoad(arm, c)

LoadedPair(c) == [base |-> files[<<"base", c>>], adapter |-> files[<<"adapter", c>>]]

\* Whether a record gives a probability; it is never repaired.
Usable(record) == record.status = "completed" /\ record.response = "valid"

\* The errors run over every game; without a usable record it is the worst there is.
PrimaryMetrics(records) ==
  LET original == {n \in 1..CohortSize : Usable(records[2 * n - 1])}
      swapped == {n \in 1..CohortSize : Usable(records[2 * n])}
  IN [games |-> CohortSize, original |-> original, swapped |-> swapped,
      pairs |-> original \cap swapped]

HistoricalMetrics(records) ==
  [n \in 1..CohortSize |-> IF Usable(records[2 * n - 1]) THEN "answer" ELSE "worst"]

\* The report names seal and manifest by what they are when it is written.
Report(c, pair) ==
  [seal |-> files[<<"seal", c>>], manifest |-> files[<<"manifest", c>>],
   primary |-> [arm \in ToSet(Arms) |-> PrimaryMetrics(pair[arm])],
   historical |-> [arm \in ToSet(Arms) |-> HistoricalMetrics(pair[arm])]]

\* The answers are those of the dataset manifest, and hold every game.
AnswersLoad == files[All("answers")] = 0

\* Answers are opened only with a verified seal in hand.
ScoreCanary(i) ==
  \/ \E c \in Cohorts :
       /\ OutputsProved(c)
       /\ Begin(i, "score", c, "loading", << >>)
       /\ UNCHANGED <<files, git, calls, opened, faults>>
  \/ /\ Stands(i, "score", "loading")
     /\ IF SealedLoads(job[i].of)
        THEN Goes(i, "opening", LoadedPair(job[i].of))
        ELSE End(i)
     /\ UNCHANGED <<files, git, calls, opened, faults>>
  \/ /\ Stands(i, "score", "opening")
     /\ IF AnswersLoad
        THEN /\ Goes(i, "writing", held[i])
             /\ opened' = opened \cup
                  {[of |-> job[i].of, public |-> \A k \in Raw : <<k, job[i].of>> \in public]}
        ELSE End(i) /\ UNCHANGED opened
     /\ UNCHANGED <<files, git, calls, faults>>
  \/ /\ Stands(i, "score", "writing")
     /\ Create(i, <<"result", job[i].of>>, Report(job[i].of, held[i]), "end", << >>)
     /\ UNCHANGED <<calls, opened, faults>>

-----------------------------------------------------------------------------
(* Git, edits and deaths.                                                   *)

\* Bound: the operator commits while no command is at work; pushes come at any time.
Commit ==
  /\ ~TreeClean /\ \A i \in Procs : at[i] = "idle"
  /\ head' = [p \in Tracked |-> files[p]] /\ pushed' = FALSE
  /\ UNCHANGED <<files, public, job, at, held, calls, opened, faults>>

Push ==
  /\ ~pushed /\ pushed' = TRUE
  /\ public' = public \cup {p \in Tracked : head[p] \notin Marks}
  /\ UNCHANGED <<files, head, job, at, held, calls, opened, faults>>

\* Sources, manifests and prompts may change at any time, raw outputs once they are sealed. No
\* source is ever again what it was before: hashes cannot see such an edit.
Edit ==
  /\ faults < MaxFaults
  /\ \E p \in Edits :
       \/ /\ p \in Sources
          /\ \E v \in Versions : v > files[p] /\ Put(p, v)
       \/ /\ p[2] # "all" /\ Whole(p)
          /\ p[1] \in {"manifest", "prompts"} \/ Whole(<<"seal", p[2]>>)
          /\ Put(p, Edited)
  /\ faults' = faults + 1
  /\ UNCHANGED <<job, at, held, calls, opened>>

Target(i) ==
  CASE Stands(i, "lock", "writing") -> All("trainingLock")
    [] Stands(i, "experiment", "writing") -> All("experiment")
    [] Stands(i, "build", at[i]) -> <<at[i], job[i].of>>
    [] Stands(i, "run", "marking") -> <<"marker", job[i].of>>
    [] Stands(i, "run", "sealing") -> <<"seal", job[i].of>>
    [] Stands(i, "run", "gating") \/ Stands(i, "score", "writing") -> <<"result", job[i].of>>
    [] OTHER -> IF at[i] \in {"base", "adapter"} THEN <<at[i], job[i].of>> ELSE All("core")

\* A death, possibly inside the write the invocation was about to make.
Die(i) ==
  /\ job[i] # Idle /\ faults < MaxFaults
  /\ End(i)
  /\ \/ UNCHANGED <<files, git>>
     \/ files[Target(i)] = Absent /\ Put(Target(i), Torn)
  /\ faults' = faults + 1
  /\ UNCHANGED <<calls, opened>>

Step(i) ==
  \/ FreezeTrainingLock(i) \/ Train(i) \/ FreezeExperiment(i)
  \/ BuildCanary(i)
  \/ BeginRun(i) \/ MarkAttempt(i) \/ Sample(i) \/ WriteArm(i) \/ SealOutputs(i) \/ GateSmoke(i)
  \/ ScoreCanary(i)

Next == Commit \/ Push \/ WriteProtocol \/ Edit \/ \E i \in Procs : Step(i) \/ Die(i)

Spec == Init /\ [][Next]_vars

-----------------------------------------------------------------------------
(* Properties.                                                              *)

\* A run puts each frozen prompt to each arm at most once, ever: not again after a death, and
\* not by a second invocation that found the outputs unused too.
CalledOnce ==
  \A r \in Runs : \A m, n \in DOMAIN calls[r] :
    m # n => <<calls[r][m].prompt, calls[r][m].model>> # <<calls[r][n].prompt, calls[r][n].model>>

\* What is sealed is everything the one marked attempt got, in order and with its failures:
\* the base arm and then the adapter arm, every frozen prompt in each, the adapter that of
\* the experiment the marker or the manifest binds.
SealedIsTheAttempt ==
  \A r \in Runs : Whole(<<"seal", r>>) =>
    LET s == files[<<"seal", r>>]
        experiment == IF r = "smoke" THEN s.marker.experiment ELSE s.manifest.experiment
    IN /\ s.base \o s.adapter = calls[r]
       /\ \A n \in DOMAIN s.adapter : s.adapter[n].model = experiment.sampler
       /\ IF r = "smoke"
          THEN Covers(s.base, SmokePrompts) /\ Covers(s.adapter, SmokePrompts)
          ELSE /\ s.marker = [manifest |-> s.manifest, prompts |-> s.prompts]
               /\ s.prompts = s.manifest.prompts
               /\ Covers(s.base, s.prompts) /\ Covers(s.adapter, s.prompts)

\* The adapter every run calls is the one sampler that was trained on the data and the code
\* of the training lock, although training reads both after it verified the lock.
SamplerIsLocked ==
  /\ Whole(All("experiment")) =>
       LET e == files[All("experiment")]
       IN <<e.sampler.data, e.sampler.core>> = <<e.lock.data, e.lock.core>>
  /\ \A r \in Runs : \A n \in DOMAIN calls[r] :
       calls[r][n].model \in {BaseModel, files[All("experiment")].sampler}

\* No call of the second canary is paid for before both arms of the smoke answered validly
\* and its cohort, its protocol and the retired one are public; and it has none of the games
\* of the retired canary.
SecondFollowsSmoke ==
  calls["v2"] # << >> =>
    /\ Len(calls["smoke"]) = 2 /\ Gated(calls["smoke"])
    /\ {All("protocol"), <<"manifest", "v1">>, <<"manifest", "v2">>, <<"prompts", "v2">>} \subseteq public
    /\ \A m \in DOMAIN calls["v1"], n \in DOMAIN calls["v2"] :
         calls["v1"][m].prompt[1] # calls["v2"][n].prompt[1]

\* The n-th call the run of cohort c made to an arm.
CallTo(c, arm, n) == calls[c][IF arm = "base" THEN n ELSE 2 * CohortSize + n]

\* Every scored canary is the whole of its run: all its games count, exactly those whose call
\* did not return a valid prediction as the worst there is. The answers of the second were not
\* opened before its raw outputs were public.
ScoresAreTheSealedRun ==
  /\ \A c \in Cohorts : Whole(<<"result", c>>) =>
       /\ Len(calls[c]) = 4 * CohortSize
       /\ \A arm \in ToSet(Arms), n \in 1..CohortSize :
            LET primary == files[<<"result", c>>].primary[arm]
                historical == files[<<"result", c>>].historical[arm]
                valid(m) == CallTo(c, arm, m).response = "valid"
            IN /\ (n \in primary.original) = valid(2 * n - 1)
               /\ (n \in primary.pairs) = (valid(2 * n - 1) /\ valid(2 * n))
               /\ (historical[n] = "worst") = ~valid(2 * n - 1)
  /\ \A o \in opened : o.of = "v2" => o.public
=============================================================================
