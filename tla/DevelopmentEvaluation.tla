------------------------ MODULE DevelopmentEvaluation ------------------------
(***************************************************************************)
(* The whole outcome-v1 development evaluation: the builder that freezes    *)
(* prompts, manifest and attempt commitment, the operator who commits and   *)
(* pushes, the runner (DevelopmentRun), and the scorer, the only part that  *)
(* may open the answer file.                                                *)
(*                                                                          *)
(*   examples/build_outcome_development_evaluation.py   Freeze...           *)
(*   src/forecastfm/publication.py                      AtHead, CleanTree   *)
(*   examples/score_outcome_development.py              Scorer actions      *)
(***************************************************************************)
EXTENDS DevelopmentRun

CONSTANT Scorers        \* invocations of the scorer that may overlap

VARIABLES
  frozen,               \* how many of prompts, manifest, attempt are written
  building,             \* a builder is between its first check and its end
  head,                 \* the evidence as committed and pushed to origin/main
  scorerPc,             \* where each scorer stands
  loaded,               \* the sealed records each scorer has verified
  answersOpened,        \* history: some process has read the answer file
  scores                \* scores.json

evidenceVars == <<frozen, building, head, scorerPc, loaded, answersOpened, scores>>
evaluationVars == <<vars, evidenceVars>>

FrozenFiles == 3        \* prompts.jsonl, manifest.json, attempt.json, in that order

\* The tracked and untracked evidence in the working tree.
Tree == [frozen |-> frozen, journal |-> journal, exists |-> exists, torn |-> torn,
         compiled |-> compiled, seal |-> seal, scores |-> scores]
CleanTree == head = Tree
CommitmentAtHead == head.frozen = FrozenFiles
RawOutputsAtHead ==
  /\ CommitmentAtHead
  /\ head.exists /\ head.journal = journal /\ head.torn = torn
  /\ head.compiled = compiled /\ \A role \in Roles : compiled[role] # None
  /\ head.seal = seal /\ seal # None

EvaluationInit ==
  /\ Init
  /\ frozen = 0
  /\ building = FALSE
  /\ scorerPc = [s \in Scorers |-> "idle"]
  /\ loaded = [s \in Scorers |-> {}]
  /\ answersOpened = FALSE
  /\ scores = None
  /\ head = Tree

-----------------------------------------------------------------------------
(* Builder and operator.                                                   *)

\* Every write is exclusive, so only a build that finds no prompts gets anywhere.
StartBuild ==
  /\ ~building /\ CleanTree /\ frozen = 0
  /\ building' = TRUE
  /\ UNCHANGED <<vars, frozen, head, scorerPc, loaded, answersOpened, scores>>

FreezeNext ==
  /\ building
  /\ frozen' = frozen + 1
  /\ building' = (frozen' # FrozenFiles)
  /\ UNCHANGED <<vars, head, scorerPc, loaded, answersOpened, scores>>

\* A builder or a scorer dies; the runner's own deaths are DevelopmentRun's Crash.
DiesElsewhere ==
  /\ crashes < MaxCrashes
  /\ crashes' = crashes + 1
  /\ UNCHANGED <<journal, exists, torn, compiled, seal, lock, pc, view, event, calls, failures>>

BuilderDies ==
  /\ building
  /\ building' = FALSE
  /\ DiesElsewhere
  /\ UNCHANGED <<frozen, head, scorerPc, loaded, answersOpened, scores>>

\* The operator commits the evidence as it stands and pushes it.
Publish ==
  /\ ~CleanTree
  /\ head' = Tree
  /\ UNCHANGED <<vars, frozen, building, scorerPc, loaded, answersOpened, scores>>

-----------------------------------------------------------------------------
(* The runner, whose lock file is the attempt commitment and whose inputs  *)
(* must be published.                                                      *)

RefuseUnpublished(r) ==
  /\ pc[r] = "inputs"
  /\ ~CommitmentAtHead
  /\ Leave(r)
  /\ UNCHANGED <<fileVars, compiled, seal, calls, crashes>>

RunnerStep(r) ==
  /\ pc[r] = "idle" => frozen = FrozenFiles
  /\ \/ Step(r) /\ (pc[r] = "inputs" => CommitmentAtHead)
     \/ RefuseUnpublished(r)
  /\ UNCHANGED evidenceVars

RunnerDies(r) == Crash(r) /\ UNCHANGED evidenceVars

-----------------------------------------------------------------------------
(* Scorer.                                                                 *)

ScorerAt(s, from, to) ==
  /\ scorerPc[s] = from
  /\ scorerPc' = [scorerPc EXCEPT ![s] = to]

\* Mutation: the local files are enough.
ProvePresent(s) ==
  /\ ScorerAt(s, "idle", "published")
  /\ scores = None
  /\ UNCHANGED <<vars, frozen, building, head, loaded, answersOpened, scores>>

ProvePublished(s) ==
  /\ ScorerAt(s, "idle", "published")
  /\ scores = None
  /\ CleanTree
  /\ RawOutputsAtHead
  /\ UNCHANGED <<vars, frozen, building, head, loaded, answersOpened, scores>>

\* load_sealed_evaluation, then require_journal_matches over the same records.
SealMatchesFiles ==
  /\ seal # None
  /\ seal = SealContent
  /\ JournalMatches(seal.base \cup seal.adapter)

\* Mutation: games whose arm failed are dropped.
LoadCompletedOnly(s) ==
  /\ SealMatchesFiles
  /\ ScorerAt(s, "published", "loaded")
  /\ loaded' = [loaded EXCEPT ![s] = {rec \in seal.base \cup seal.adapter : rec.status = "completed"}]
  /\ UNCHANGED <<vars, frozen, building, head, answersOpened, scores>>

LoadSealed(s) ==
  /\ \/ /\ SealMatchesFiles
        /\ ScorerAt(s, "published", "loaded")
        /\ loaded' = [loaded EXCEPT ![s] = seal.base \cup seal.adapter]
     \/ /\ ~SealMatchesFiles
        /\ ScorerAt(s, "published", "idle")
        /\ UNCHANGED loaded
  /\ UNCHANGED <<vars, frozen, building, head, answersOpened, scores>>

\* Mutation: the answers are read first, the seal verified afterwards.
OpenAnswersFirst(s) ==
  /\ ScorerAt(s, "idle", "opened")
  /\ answersOpened' = TRUE
  /\ UNCHANGED <<vars, frozen, building, head, loaded, scores>>

OpenAnswers(s) ==
  /\ ScorerAt(s, "loaded", "opened")
  /\ answersOpened' = TRUE
  /\ UNCHANGED <<vars, frozen, building, head, loaded, scores>>

WriteScores(s) ==
  /\ ScorerAt(s, "opened", "idle")
  /\ scores' = IF scores = None THEN loaded[s] ELSE scores
  /\ loaded' = [loaded EXCEPT ![s] = {}]
  /\ UNCHANGED <<vars, frozen, building, head, answersOpened>>

ScorerStep(s) == ProvePublished(s) \/ LoadSealed(s) \/ OpenAnswers(s) \/ WriteScores(s)

ScorerDies(s) ==
  /\ scorerPc[s] # "idle"
  /\ DiesElsewhere
  /\ scorerPc' = [scorerPc EXCEPT ![s] = "idle"]
  /\ loaded' = [loaded EXCEPT ![s] = {}]
  /\ UNCHANGED <<frozen, building, head, answersOpened, scores>>

-----------------------------------------------------------------------------
Progress ==
  \/ StartBuild \/ FreezeNext
  \/ \E r \in Runners : RunnerStep(r)
  \/ \E s \in Scorers : ScorerStep(s)

EvaluationNext ==
  \/ Progress \/ BuilderDies \/ Publish
  \/ \E r \in Runners : RunnerDies(r)
  \/ \E s \in Scorers : ScorerDies(s)

EvaluationSpec == EvaluationInit /\ [][EvaluationNext]_evaluationVars

\* The operator keeps invoking the runner, and the provider answers or fails. Nobody has to
\* build, publish or score.
FairEvaluationSpec == EvaluationSpec /\ WF_evaluationVars(\E r \in Runners : RunnerStep(r))

-----------------------------------------------------------------------------
\* README: only after the exact sealed files are on origin/main are the answers
\* opened -- and they stay the sealed files from then on.
AnswersOpenedAfterPublishedSeal ==
  answersOpened => /\ head.seal # None
                   /\ head.seal = seal
                   /\ head.journal = journal
                   /\ head.compiled = compiled

\* Once any process has read the answers, no arm is ever put to the provider and
\* no verdict is added: generation is finished before scoring can begin.
NoGenerationAfterAnswers == [][answersOpened => UNCHANGED <<calls, journal>>]_evaluationVars

\* Whatever died in between, the scores are those of the sealed run: every arm
\* with its journaled verdict, failed arms included.
ScoresCoverTheSealedRun ==
  scores # None => /\ scores = TerminalRecords(journal)
                   /\ UnitsOf(scores) = Units

\* Once the attempt commitment is published, the evaluation is sealed: the runner is invoked as
\* often as it takes, and no death, torn tail, overlap, push or scorer blocks it for good.
PublishedIsSealed == CommitmentAtHead ~> seal # None
=============================================================================
