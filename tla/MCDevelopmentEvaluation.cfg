\* Two games, two overlapping runners and scorers, two deaths, publication at any time.
SPECIFICATION FairEvaluationSpec
CONSTANTS
  GameCount = 2
  r1 = r1
  r2 = r2
  s1 = s1
  s2 = s2
  Runners <- MCRunners
  Scorers <- MCScorers
  None = None
  MaxCrashes = 2
INVARIANTS
  AtMostOneAttempt
  JournalStaysReadable
  SealedOutputsAreTheJournal
  AnswersOpenedAfterPublishedSeal
  ScoresCoverTheSealedRun
PROPERTIES
  SingleAttemptSpec
  NoGenerationAfterAnswers
  PublishedIsSealed
\* An abandoned build, and a scored evaluation that is published, are the end.
CHECK_DEADLOCK FALSE
