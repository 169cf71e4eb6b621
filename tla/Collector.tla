----------------------------- MODULE Collector -----------------------------
(***************************************************************************)
(* The prospective capture collector (examples/collect_prospective.py): a  *)
(* cron job that each day freezes the schedule it polls, and captures each *)
(* scheduled game's scoreboard and injury report at each of its cutoffs.   *)
(*                                                                         *)
(* Three kinds of file outlive an invocation: payload files, created once  *)
(* and never replaced, but written in place; the chained capture ledger;   *)
(* and schedule.json, an index that an invocation loads when it begins and *)
(* saves when it ends.  One invocation runs at a time; it may die, or a    *)
(* fetch may raise, at any step, while ESPN changes its schedule and time  *)
(* passes.                                                                 *)
(*                                                                         *)
(* A payload's bytes are the time they were fetched (of a polled           *)
(* scoreboard, the games it lists); the hash of an event is its place in   *)
(* the ledger.                                                             *)
(***************************************************************************)
EXTENDS Integers, FiniteSets, Sequences, SequencesExt

CONSTANTS
  GameIds,              \* ESPN event ids
  Tipoffs,              \* the times ESPN may schedule a game for
  CUTOFFS,              \* how long before tipoff each named cutoff lies
  CUTOFF_WINDOW,        \* how far from its cutoff a capture may lie
  POLL_HORIZON_DAYS,    \* days that a poll covers
  Slots,                \* injury-report candidates of a cutoff, newest first
  DayLength,            \* instants in a day
  None,                 \* not scheduled, no report, no poll yet
  MaxTime,              \* bound: the last instant
  MaxChanges,           \* bound: changes of ESPN's schedule
  MaxCrashes            \* bound: invocations that die

ASSUME ScheduleAssumption == IsFiniteSet(GameIds)
ASSUME TimesAssumption ==
  /\ Tipoffs \subseteq Nat /\ DayLength \in Nat \ {0}
  /\ CUTOFFS \in [DOMAIN CUTOFFS -> Nat] /\ CUTOFF_WINDOW \in Nat
  /\ POLL_HORIZON_DAYS \in Nat \ {0} /\ Slots \in Nat
ASSUME CollectorBoundsAssumption == MaxTime \in Nat /\ MaxChanges \in Nat /\ MaxCrashes \in Nat

VARIABLES
  clock,                \* UTC
  listed,               \* ESPN: the tipoff of each upcoming game
  files,                \* payload and sidecar files
  ledger,               \* capture-ledger.jsonl
  saved,                \* schedule.json
  pc,                   \* where the invocation stands
  run,                  \* what it holds in memory
  changes,              \* history: changes of the schedule
  crashes               \* history: invocations that died

vars == <<clock, listed, files, ledger, saved, pc, run, changes, crashes>>

Day(t) == t \div DayLength
Days == 0..(MaxTime \div DayLength + POLL_HORIZON_DAYS)
CutoffNames == DOMAIN CUTOFFS

Dates == {Day(tipoff) : tipoff \in Tipoffs}
ReportTimes ==
  {tipoff - CUTOFFS[cutoff] - step : tipoff \in Tipoffs, cutoff \in CutoffNames, step \in 0..Slots}

\* The files of a capture lie in the directory of its game's date.
PollFile(polled, day) == <<"poll", polled, day>>
ReportFile(date, id, cutoff, at) == <<"report", date, id, cutoff, at>>
ScoreboardFile(date, id, cutoff) == <<"scoreboard", date, id, cutoff>>
SidecarFile(date, id, cutoff) == <<"sidecar", date, id, cutoff>>
FileNames ==
  {PollFile(polled, day) : polled \in Days, day \in Days}
  \cup {ReportFile(date, id, cutoff, at) :
          date \in Dates, id \in GameIds, cutoff \in CutoffNames, at \in ReportTimes}
  \cup {ScoreboardFile(date, id, cutoff) : date \in Dates, id \in GameIds, cutoff \in CutoffNames}
  \cup {SidecarFile(date, id, cutoff) : date \in Dates, id \in GameIds, cutoff \in CutoffNames}

Absent == [state |-> "absent", content |-> None]
Partial == [state |-> "partial", content |-> None]
Whole(content) == [state |-> "whole", content |-> content]

\* A game that the index knows; its date never changes.
NewGame(id, tipoff) ==
  [id |-> id, date |-> Day(tipoff), tipoff |-> tipoff, removed |-> FALSE, captures |-> {}]
EmptyState == [lastPoll |-> None, games |-> <<>>]

\* run: the loaded state, context.now, the day of the poll in hand and what the days
\* before it listed, the amendments to append and their recorded_at, the captures due,
\* the capture in hand, and the bytes being written to a file.
NoRun == [state |-> EmptyState, now |-> 0, offset |-> 0, references |-> <<>>,
          amendments |-> <<>>, recordedAt |-> 0, due |-> {}, capture |-> None, held |-> None]

Init ==
  /\ clock = 0
  /\ listed \in [GameIds -> Tipoffs \cup {None}]
  /\ files = [name \in FileNames |-> Absent]
  /\ ledger = <<>>
  /\ saved = EmptyState
  /\ pc = "idle"
  /\ run = NoRun
  /\ changes = 0 /\ crashes = 0

-----------------------------------------------------------------------------
(* The world outside.                                                      *)

Tick ==
  /\ clock < MaxTime
  /\ clock' = clock + 1
  /\ UNCHANGED <<listed, files, ledger, saved, pc, run, changes, crashes>>

\* ESPN moves a game, drops it, or lists it again.
ChangeSchedule ==
  /\ changes < MaxChanges
  /\ changes' = changes + 1
  /\ \E id \in GameIds, tipoff \in Tipoffs \cup {None} :
       listed[id] # tipoff /\ listed' = [listed EXCEPT ![id] = tipoff]
  /\ UNCHANGED <<clock, files, ledger, saved, pc, run, crashes>>

-----------------------------------------------------------------------------
(* Invocations.                                                            *)

End == pc' = "idle" /\ run' = NoRun
World == <<clock, listed, changes>>

\* _cmd_run, up to the poll that is due once a day.
Begin ==
  /\ pc = "idle"
  /\ pc' = IF saved.lastPoll = Day(clock) THEN "due" ELSE "poll"
  /\ run' = [NoRun EXCEPT !.state = saved, !.now = clock]
  /\ UNCHANGED <<World, files, ledger, saved, crashes>>

\* parse_upcoming_scoreboard of the day's document, as [id, tipoff] references.
Scoreboard(day) ==
  SetToSeq({[id |-> id, tipoff |-> listed[id]] :
              id \in {g \in GameIds : listed[g] # None /\ Day(listed[g]) = day}})

PollName == PollFile(Day(run.now), Day(run.now) + run.offset)

\* A document that an earlier invocation wrote is used, whatever was just fetched; one
\* that it did not finish cannot be parsed.
ReusePoll ==
  /\ pc = "poll" /\ run.offset < POLL_HORIZON_DAYS
  /\ files[PollName] # Absent
  /\ \/ /\ files[PollName].state = "whole"
        /\ run' = [run EXCEPT !.references = @ \o files[PollName].content, !.offset = @ + 1]
        /\ UNCHANGED pc
     \/ files[PollName] = Partial /\ End
  /\ UNCHANGED <<World, files, ledger, saved, crashes>>

FetchPoll ==
  /\ pc = "poll" /\ run.offset < POLL_HORIZON_DAYS
  /\ files[PollName] = Absent
  /\ files' = [files EXCEPT ![PollName] = Partial]
  /\ run' = [run EXCEPT !.held = Scoreboard(Day(run.now) + run.offset)]
  /\ pc' = "pollWrite"
  /\ UNCHANGED <<World, ledger, saved, crashes>>

WritePoll ==
  /\ pc = "pollWrite"
  /\ files' = [files EXCEPT ![PollName] = Whole(run.held)]
  /\ run' = [run EXCEPT !.references = @ \o run.held, !.offset = @ + 1, !.held = None]
  /\ pc' = "poll"
  /\ UNCHANGED <<World, ledger, saved, crashes>>

Amendment(game, amended) ==
  [id |-> game.id, previous |-> game.tipoff, amended |-> amended]

\* _reconcile_game.  "known" maps an id to the last game of the loaded index that has it.
ReconcileGame(known, acc, reference) ==
  LET same == {k \in DOMAIN known : known[k].id = reference.id}
      last == CHOOSE k \in same : \A j \in same : j <= k
  IN IF same = {}
     THEN [acc EXCEPT !.games = Append(@, NewGame(reference.id, reference.tipoff))]
     ELSE IF acc.games[last].tipoff = reference.tipoff THEN acc
     ELSE [games |-> [acc.games EXCEPT ![last].tipoff = reference.tipoff],
           amendments |-> Append(acc.amendments, Amendment(acc.games[last], reference.tipoff))]

\* The rest of _reconcile: a game of the window that no document lists is removed.
RemoveUnseen(seen, first, acc, k) ==
  LET game == acc.games[k] IN
  IF ~game.removed /\ game.id \notin seen /\ game.date \in first..(first + POLL_HORIZON_DAYS - 1)
  THEN [games |-> [acc.games EXCEPT ![k].removed = TRUE],
        amendments |-> Append(acc.amendments, Amendment(game, None))]
  ELSE acc

\* The index and the amendments after each reference, then after each game looked at.
AfterReferences(games, references) ==
  LET after[n \in 0..Len(references)] ==
        IF n = 0 THEN [games |-> games, amendments |-> <<>>]
        ELSE ReconcileGame(games, after[n - 1], references[n])
  IN after

AfterRemovals(seen, first, reconciled) ==
  LET after[n \in 0..Len(reconciled.games)] ==
        IF n = 0 THEN reconciled ELSE RemoveUnseen(seen, first, after[n - 1], n)
  IN after

\* _reconcile, of the loaded index and everything the poll listed.
Reconciled(games, references, first) ==
  LET reconciled == AfterReferences(games, references)[Len(references)]
      seen == {references[i].id : i \in DOMAIN references}
  IN AfterRemovals(seen, first, reconciled)[Len(reconciled.games)]

Reconcile ==
  /\ pc = "poll" /\ run.offset = POLL_HORIZON_DAYS
  /\ LET result == Reconciled(run.state.games, run.references, Day(run.now)) IN
       run' = [run EXCEPT !.state.games = result.games, !.amendments = result.amendments,
                          !.recordedAt = clock]
  /\ pc' = "amend"
  /\ UNCHANGED <<World, files, ledger, saved, crashes>>

\* _append_event: the chain may not go back in time; the file is replaced atomically.
Regresses(recordedAt) == ledger # <<>> /\ recordedAt < Last(ledger).recordedAt
AppendEvent(event) == ~Regresses(event.recordedAt) /\ ledger' = Append(ledger, event)

AppendAmendment ==
  /\ pc = "amend" /\ run.amendments # <<>>
  /\ AppendEvent([type |-> "schedule_amendment", recordedAt |-> run.recordedAt,
                  payload |-> Head(run.amendments)])
  /\ run' = [run EXCEPT !.amendments = Tail(@)]
  /\ UNCHANGED <<World, files, saved, pc, crashes>>

\* Mutation: the event lists the games that are new.
AppendPollOfNewGames ==
  /\ pc = "amend" /\ run.amendments = <<>>
  /\ AppendEvent([type |-> "schedule_poll", recordedAt |-> run.recordedAt,
                  payload |-> [date |-> Day(run.now),
                               games |-> SelectSeq(run.references, LAMBDA reference :
                                 \A k \in DOMAIN saved.games : saved.games[k].id # reference.id)]])
  /\ run' = [run EXCEPT !.state.lastPoll = Day(run.now)]
  /\ pc' = "due"
  /\ UNCHANGED <<World, files, saved, crashes>>

AppendPoll ==
  /\ pc = "amend" /\ run.amendments = <<>>
  /\ AppendEvent([type |-> "schedule_poll", recordedAt |-> run.recordedAt,
                  payload |-> [date |-> Day(run.now), games |-> run.references]])
  /\ run' = [run EXCEPT !.state.lastPoll = Day(run.now)]
  /\ pc' = "due"
  /\ UNCHANGED <<World, files, saved, crashes>>

-----------------------------------------------------------------------------
(* Captures.                                                               *)

CutoffOf(item) == run.state.games[item[1]].tipoff - CUTOFFS[item[2]]

\* Mutation: cutoffs that were captured stay due.
DueAgain ==
  {item \in (DOMAIN run.state.games) \X CutoffNames :
     LET game == run.state.games[item[1]] IN
       /\ ~game.removed /\ run.now < game.tipoff
       /\ CutoffOf(item) <= run.now + CUTOFF_WINDOW}

\* _due_captures, of the time the invocation began.
Due ==
  {item \in (DOMAIN run.state.games) \X CutoffNames :
     LET game == run.state.games[item[1]] IN
       /\ ~game.removed /\ run.now < game.tipoff
       /\ item[2] \notin game.captures
       /\ CutoffOf(item) <= run.now + CUTOFF_WINDOW}

FindDue ==
  /\ pc = "due"
  /\ run' = [run EXCEPT !.due = Due]
  /\ pc' = "capture"
  /\ UNCHANGED <<World, files, ledger, saved, crashes>>

\* retrieved_at is the time before the first fetch.
BeginCapture ==
  /\ pc = "capture"
  /\ \E item \in run.due :
       /\ \A other \in run.due : CutoffOf(item) <= CutoffOf(other)
       /\ run' = [run EXCEPT !.capture = [item |-> item, retrievedAt |-> clock, slot |-> 1,
                                          report |-> None, scoreboard |-> None]]
  /\ pc' = "report"
  /\ UNCHANGED <<World, files, ledger, saved, crashes>>

CapturedGame == run.state.games[run.capture.item[1]]
CapturedCutoff == run.capture.item[2]

\* Mutation: an existing file is fetched and written again.
CreateAnew(name, content, label) ==
  /\ files' = [files EXCEPT ![name] = Partial]
  /\ run' = [run EXCEPT !.held = content]
  /\ pc' = label

\* _write_create_only begins.
Create(name, content, label) ==
  /\ files[name] = Absent
  /\ files' = [files EXCEPT ![name] = Partial]
  /\ run' = [run EXCEPT !.held = content]
  /\ pc' = label

\* Candidates go back in equal steps from the cutoff.
ReportName == ReportFile(CapturedGame.date, CapturedGame.id, CapturedCutoff,
                         CutoffOf(run.capture.item) - (run.capture.slot - 1))

\* The first candidate that is on disk, or that the server has; none is no error.
ReuseReport ==
  /\ pc = "report" /\ run.capture.slot <= Slots
  /\ files[ReportName] # Absent
  /\ run' = [run EXCEPT !.capture.report = files[ReportName]]
  /\ pc' = "scoreboard"
  /\ UNCHANGED <<World, files, ledger, saved, crashes>>

FetchReport ==
  /\ pc = "report" /\ run.capture.slot <= Slots
  /\ Create(ReportName, clock, "reportWrite")
  /\ UNCHANGED <<World, ledger, saved, crashes>>

SkipReport ==
  /\ pc = "report"
  /\ \/ /\ run.capture.slot <= Slots /\ files[ReportName] = Absent
        /\ run' = [run EXCEPT !.capture.slot = @ + 1]
        /\ UNCHANGED pc
     \/ /\ run.capture.slot > Slots
        /\ pc' = "scoreboard"
        /\ UNCHANGED run
  /\ UNCHANGED <<World, files, ledger, saved, crashes>>

WriteReport ==
  /\ pc = "reportWrite"
  /\ files' = [files EXCEPT ![ReportName] = Whole(run.held)]
  /\ run' = [run EXCEPT !.capture.report = Whole(run.held), !.held = None]
  /\ pc' = "scoreboard"
  /\ UNCHANGED <<World, ledger, saved, crashes>>

ScoreboardName == ScoreboardFile(CapturedGame.date, CapturedGame.id, CapturedCutoff)

ReuseScoreboard ==
  /\ pc = "scoreboard"
  /\ files[ScoreboardName] # Absent
  /\ run' = [run EXCEPT !.capture.scoreboard = files[ScoreboardName]]
  /\ pc' = "appendCapture"
  /\ UNCHANGED <<World, files, ledger, saved, crashes>>

FetchScoreboard ==
  /\ pc = "scoreboard"
  /\ Create(ScoreboardName, clock, "scoreboardWrite")
  /\ UNCHANGED <<World, ledger, saved, crashes>>

WriteScoreboard ==
  /\ pc = "scoreboardWrite"
  /\ files' = [files EXCEPT ![ScoreboardName] = Whole(run.held)]
  /\ run' = [run EXCEPT !.capture.scoreboard = Whole(run.held), !.held = None]
  /\ pc' = "appendCapture"
  /\ UNCHANGED <<World, ledger, saved, crashes>>

CaptureEvent ==
  [type |-> "capture", recordedAt |-> run.capture.retrievedAt,
   payload |-> [date |-> CapturedGame.date, id |-> CapturedGame.id,
                cutoffType |-> CapturedCutoff, tipoff |-> CapturedGame.tipoff,
                cutoff |-> CutoffOf(run.capture.item), retrievedAt |-> run.capture.retrievedAt,
                report |-> run.capture.report, scoreboard |-> run.capture.scoreboard]]

\* Mutation: the event is left to the sidecar.
AppendCaptureForgotten ==
  /\ pc = "appendCapture"
  /\ pc' = "sidecar"
  /\ UNCHANGED <<World, files, ledger, saved, run, crashes>>

AppendCapture ==
  /\ pc = "appendCapture"
  /\ AppendEvent(CaptureEvent)
  /\ pc' = "sidecar"
  /\ UNCHANGED <<World, files, saved, run, crashes>>

SidecarName == SidecarFile(CapturedGame.date, CapturedGame.id, CapturedCutoff)
FinishCapture ==
  /\ pc' = "capture"
  /\ run' = [run EXCEPT !.state.games[run.capture.item[1]].captures = @ \cup {CapturedCutoff},
                        !.due = @ \ {run.capture.item}, !.capture = None, !.held = None]

\* Payload and hash go to the sidecar, unless an earlier invocation left one.
KeepSidecar ==
  /\ pc = "sidecar"
  /\ files[SidecarName] # Absent
  /\ FinishCapture
  /\ UNCHANGED <<World, files, ledger, saved, crashes>>

CreateSidecar ==
  /\ pc = "sidecar"
  /\ Create(SidecarName, [payload |-> CaptureEvent.payload, line |-> Len(ledger)], "sidecarWrite")
  /\ UNCHANGED <<World, ledger, saved, crashes>>

WriteSidecar ==
  /\ pc = "sidecarWrite"
  /\ files' = [files EXCEPT ![SidecarName] = Whole(run.held)]
  /\ FinishCapture
  /\ UNCHANGED <<World, ledger, saved, crashes>>

SaveState ==
  /\ pc = "capture" /\ run.due = {}
  /\ saved' = run.state
  /\ End
  /\ UNCHANGED <<World, files, ledger, crashes>>

\* Mutation: the state is saved however the invocation ends.
CrashSaving ==
  /\ pc # "idle"
  /\ crashes < MaxCrashes
  /\ crashes' = crashes + 1
  /\ saved' = run.state
  /\ End
  /\ UNCHANGED <<World, files, ledger>>

\* The process dies, a fetch raises after its last attempt, or an append is refused.
Crash ==
  /\ pc # "idle"
  /\ crashes < MaxCrashes
  /\ crashes' = crashes + 1
  /\ End
  /\ UNCHANGED <<World, files, ledger, saved>>

Poll == ReusePoll \/ FetchPoll \/ WritePoll \/ Reconcile \/ AppendAmendment \/ AppendPoll
Capture ==
  \/ FindDue \/ BeginCapture \/ ReuseReport \/ FetchReport \/ SkipReport \/ WriteReport
  \/ ReuseScoreboard \/ FetchScoreboard \/ WriteScoreboard \/ AppendCapture
  \/ KeepSidecar \/ CreateSidecar \/ WriteSidecar

Next == Tick \/ ChangeSchedule \/ Begin \/ Poll \/ Capture \/ SaveState \/ Crash

Spec == Init /\ [][Next]_vars

-----------------------------------------------------------------------------
(* What the collector promises.                                            *)

EventsOf(type) == {i \in DOMAIN ledger : ledger[i].type = type}
Listed(i, id, tipoff) ==
  \E k \in DOMAIN ledger[i].payload.games :
    ledger[i].payload.games[k] = [id |-> id, tipoff |-> tipoff]

\* schedule.json never knows more than the chain: its poll, its captures, its removals and
\* every tipoff it goes by are on the ledger, whatever died in between.
IndexFollowsLedger ==
  /\ saved.lastPoll # None =>
       \E i \in EventsOf("schedule_poll") : ledger[i].payload.date = saved.lastPoll
  /\ \A k \in DOMAIN saved.games : LET game == saved.games[k] IN
       /\ \E i \in EventsOf("schedule_poll") : Listed(i, game.id, game.tipoff)
       /\ \A cutoff \in game.captures : \E i \in EventsOf("capture") :
            ledger[i].payload.id = game.id /\ ledger[i].payload.cutoffType = cutoff
       /\ game.removed => \E i \in EventsOf("schedule_amendment") :
            ledger[i].payload.id = game.id /\ ledger[i].payload.amended = None

\* A capture is of a game at a tipoff that a frozen, chained poll listed before it.
CapturesFollowTheFrozenSchedule ==
  \A i \in EventsOf("capture") : \E k \in EventsOf("schedule_poll") :
    k < i /\ Listed(k, ledger[i].payload.id, ledger[i].payload.tipoff)

\* A finished sidecar is a ledger event's payload with that event's hash.
SidecarsAreEvents ==
  \A date \in Dates, id \in GameIds, cutoff \in CutoffNames :
    LET sidecar == files[SidecarFile(date, id, cutoff)] IN
      sidecar.state = "whole" =>
        /\ sidecar.content.line \in EventsOf("capture")
        /\ ledger[sidecar.content.line].payload = sidecar.content.payload
        /\ sidecar.content.payload.date = date /\ sidecar.content.payload.id = id
        /\ sidecar.content.payload.cutoffType = cutoff

\* What an invocation has saved is not done again: no second poll of that day, and no
\* capture of a game whose every record has that cutoff.
SavedIsNotRepeated ==
  [][ledger' # ledger =>
       LET event == Last(ledger') IN
         /\ event.type = "schedule_poll" => event.payload.date # saved.lastPoll
         /\ event.type = "capture" =>
              LET same == {k \in DOMAIN saved.games : saved.games[k].id = event.payload.id} IN
                same # {} => \E k \in same : event.payload.cutoffType \notin saved.games[k].captures]_vars

\* COLLECTOR.md:96: a run that dies between a download and the ledger append is retried with
\* the earlier bytes.  What a death left half-written is taken for those bytes.
EvidenceIsWhole ==
  \A i \in EventsOf("capture") : LET payload == ledger[i].payload IN
    payload.scoreboard.state = "whole" /\ (payload.report # None => payload.report.state = "whole")

=============================================================================
