-------------------------- MODULE InferenceRuntime --------------------------
(***************************************************************************)
(* The answer-blind inference of outcome-v2                                *)
(* (examples/tinker_outcome_v2_inference_runtime.py).  An invocation first *)
(* creates or verifies the prompt file, with no lock; then, holding a lock *)
(* on the journal itself, it cuts a torn tail, closes interrupted games,   *)
(* asks about every remaining game once, whether or not games fail, and    *)
(* compiles the records and the forecasts derived from them.               *)
(*                                                                         *)
(* Unlike the v1 runner's, no output is created atomically: a process that *)
(* dies while it writes leaves part of a file that no later invocation     *)
(* replaces.  A record is its game and its outcome.                        *)
(***************************************************************************)
EXTENDS Naturals, Sequences

CONSTANTS
  GameCount,            \* games of the generation lock
  Runners,              \* invocations that may overlap
  None,                 \* no lock owner, no event
  MaxCrashes            \* bound: invocations that die, or that something they call ends

ASSUME GameCountAssumption == GameCount \in Nat \ {0}
ASSUME MaxCrashesAssumption == MaxCrashes \in Nat
ASSUME NoneAssumption == None \notin Runners

Games == 0..(GameCount - 1)
First(games) == {g \in games : \A h \in games : g <= h}

\* Every failure_reason, interrupted_after_start among them, is one outcome.
Outcomes == {"completed", "failed"}
Record(g, s) == [game |-> g, status |-> s]
Records == [game : Games, status : Outcomes]
GamesOf(records) == {rec.game : rec \in records}

Started(g) == [kind |-> "started", game |-> g, status |-> "none"]
Terminal(g, s) == [kind |-> "terminal", game |-> g, status |-> s]
Events == {Started(g) : g \in Games} \cup {Terminal(g, s) : g \in Games, s \in Outcomes}

\* A file that is created in place: absent, then partial, then whole.
Absent == [state |-> "absent", content |-> {}]
Partial == [state |-> "partial", content |-> {}]
Whole(content) == [state |-> "whole", content |-> content]

VARIABLES
  prompts,              \* the prompt pairs
  journal,              \* the complete lines of the journal
  torn,                 \* bytes follow its last newline
  records,              \* the compiled inference records
  forecasts,            \* the compiled forecasts
  lock,                 \* the invocation that holds the journal's lock
  pc,                   \* where each invocation stands
  view,                 \* its _JournalState
  event,                \* the event it is appending
  calls,                \* history: times each game was put to the provider
  crashes               \* history: invocations that ended early

fileVars == <<prompts, journal, torn, records, forecasts>>
vars == <<prompts, journal, torn, records, forecasts, lock, pc, view, event, calls, crashes>>

EmptyView == [started |-> {}, terminal |-> {}]

Init ==
  /\ prompts = Absent /\ records = Absent /\ forecasts = Absent
  /\ journal = <<>> /\ torn = FALSE
  /\ lock = None
  /\ pc = [r \in Runners |-> "idle"]
  /\ view = [r \in Runners |-> EmptyView]
  /\ event = [r \in Runners |-> None]
  /\ calls = [g \in Games |-> 0]
  /\ crashes = 0

-----------------------------------------------------------------------------
(* Reading the journal.                                                    *)

StartedGames(j) == {j[i].game : i \in {k \in DOMAIN j : j[k].kind = "started"}}
TerminalRecords(j) ==
  {Record(j[i].game, j[i].status) : i \in {k \in DOMAIN j : j[k].kind = "terminal"}}

Earlier(j, i, kind) == {k \in 1..(i - 1) : j[k].kind = kind /\ j[k].game = j[i].game}

\* _accept_started, _accept_terminal: one start, then at most one end.
EventAccepted(j, i) ==
  /\ j[i].kind = "started" => Earlier(j, i, "started") = {} /\ Earlier(j, i, "terminal") = {}
  /\ j[i].kind = "terminal" => Earlier(j, i, "started") # {} /\ Earlier(j, i, "terminal") = {}

Readable(j) == \A i \in DOMAIN j : EventAccepted(j, i)

-----------------------------------------------------------------------------
(* One invocation.                                                         *)

Goto(r, label) == pc' = [pc EXCEPT ![r] = label]

\* It ends, by returning or by raising; closing the journal frees the lock.
Leave(r) ==
  /\ Goto(r, "idle")
  /\ lock' = IF lock = r THEN None ELSE lock
  /\ view' = [view EXCEPT ![r] = EmptyView]
  /\ event' = [event EXCEPT ![r] = None]

Continue(r, label) == Goto(r, label) /\ UNCHANGED <<lock, view, event>>

\* prepare_outcome_v2_inference verifies the generation lock and renders every prompt.
Prepare(r) ==
  /\ pc[r] = "idle"
  /\ Continue(r, "prompts")
  /\ UNCHANGED <<fileVars, calls, crashes>>

\* Mutation: a file that exists is taken for the right one.
VerifyPromptsPresent(r) ==
  /\ pc[r] = "prompts"
  /\ prompts # Absent
  /\ Continue(r, "open")
  /\ UNCHANGED <<fileVars, calls, crashes>>

\* A prompt file that exists must have the locked bytes.
VerifyPrompts(r) ==
  /\ pc[r] = "prompts"
  /\ prompts # Absent
  /\ \/ prompts = Whole(Games) /\ Continue(r, "open")
     \/ prompts # Whole(Games) /\ Leave(r)
  /\ UNCHANGED <<fileVars, calls, crashes>>

CreatePrompts(r) ==
  /\ pc[r] = "prompts"
  /\ prompts = Absent
  /\ prompts' = Partial
  /\ Continue(r, "promptsPartial")
  /\ UNCHANGED <<journal, torn, records, forecasts, calls, crashes>>

FinishPrompts(r) ==
  /\ pc[r] = "promptsPartial"
  /\ prompts' = Whole(Games)
  /\ Continue(r, "open")
  /\ UNCHANGED <<journal, torn, records, forecasts, calls, crashes>>

\* After the precommit check; another active runner ends this one.
OpenJournal(r) ==
  /\ pc[r] = "open"
  /\ \/ /\ lock = None
        /\ lock' = r
        /\ Goto(r, "read")
        /\ UNCHANGED <<view, event>>
     \/ lock # None /\ Leave(r)
  /\ UNCHANGED <<fileVars, calls, crashes>>

\* Mutation: a torn tail is an invalid journal.
RefuseTail(r) ==
  /\ pc[r] = "read"
  /\ torn
  /\ Leave(r)
  /\ UNCHANGED <<fileVars, calls, crashes>>

RecoverPartialTail(r) ==
  /\ pc[r] = "read"
  /\ torn
  /\ torn' = FALSE
  /\ UNCHANGED <<prompts, journal, records, forecasts, lock, pc, view, event, calls, crashes>>

ReadJournal(r) ==
  /\ pc[r] = "read"
  /\ ~torn
  /\ \/ /\ Readable(journal)
        /\ view' = [view EXCEPT ![r] = [started |-> StartedGames(journal),
                                        terminal |-> TerminalRecords(journal)]]
        /\ Goto(r, "terminalize")
        /\ UNCHANGED <<lock, event>>
     \/ ~Readable(journal) /\ Leave(r)
  /\ UNCHANGED <<fileVars, calls, crashes>>

\* The line is being written; FinishAppend makes it durable.
BeginAppend(r, e) ==
  /\ event' = [event EXCEPT ![r] = e]
  /\ Goto(r, "append")
  /\ UNCHANGED <<fileVars, lock, view, calls, crashes>>

\* Mutation: interrupted games are left to _run_pending.
InterruptedIgnored(r) == {}
Interrupted(r) == view[r].started \ GamesOf(view[r].terminal)

TerminalizeInterrupted(r) ==
  /\ pc[r] = "terminalize"
  /\ \E g \in First(Interrupted(r)) : BeginAppend(r, Terminal(g, "failed"))

Pending(r) == Games \ GamesOf(view[r].terminal)

\* Under the loop of _terminalize_interrupted, and again after every game.
NextGame(r) ==
  /\ pc[r] = "terminalize" /\ Interrupted(r) = {}
  /\ \E g \in First(Pending(r)) : BeginAppend(r, Started(g))

FinishAppend(r) ==
  /\ pc[r] = "append"
  /\ journal' = Append(journal, event[r])
  /\ torn' = FALSE
  /\ LET e == event[r] IN
       \/ /\ e.kind = "started"
          /\ view' = [view EXCEPT ![r].started = @ \cup {e.game}]
          /\ Goto(r, "call")
       \/ /\ e.kind = "terminal"
          /\ view' = [view EXCEPT ![r].terminal = @ \cup {Record(e.game, e.status)}]
          /\ Goto(r, "terminalize")
  /\ UNCHANGED <<prompts, records, forecasts, lock, event, calls, crashes>>

\* The four candidate calls of a game, gathered.
CallProvider(r) ==
  /\ pc[r] = "call"
  /\ calls' = [calls EXCEPT ![event[r].game] = @ + 1]
  /\ Continue(r, "await")
  /\ UNCHANGED <<fileVars, crashes>>

\* A remote error or an invalid response fails the game, and the loop goes on.
ScoreGame(r) ==
  /\ pc[r] = "await"
  /\ \E s \in Outcomes : BeginAppend(r, Terminal(event[r].game, s))

-----------------------------------------------------------------------------
(* Compiling.                                                              *)

\* Mutation: a forecast that failed is left out.
ForecastsOfCompleted(recs) ==
  {[game |-> rec.game, failed |-> FALSE] : rec \in {x \in recs : x.status = "completed"}}

\* binary_forecasts_from_inference_records: a probability or a failure for each game.
ForecastsOf(recs) == {[game |-> rec.game, failed |-> rec.status = "failed"] : rec \in recs}

\* Every game has its terminal record in memory.
BeginCompile(r) ==
  /\ pc[r] = "terminalize" /\ Interrupted(r) = {} /\ Pending(r) = {}
  /\ Continue(r, "records")
  /\ UNCHANGED <<fileVars, calls, crashes>>

CreateRecords(r) ==
  /\ pc[r] = "records"
  /\ records = Absent
  /\ records' = Partial
  /\ Continue(r, "recordsPartial")
  /\ UNCHANGED <<prompts, journal, torn, forecasts, calls, crashes>>

FinishRecords(r) ==
  /\ pc[r] = "recordsPartial"
  /\ records' = Whole(view[r].terminal)
  /\ Continue(r, "forecasts")
  /\ UNCHANGED <<prompts, journal, torn, forecasts, calls, crashes>>

VerifyRecords(r) ==
  /\ pc[r] = "records"
  /\ records # Absent
  /\ \/ records = Whole(view[r].terminal) /\ Continue(r, "forecasts")
     \/ records # Whole(view[r].terminal) /\ Leave(r)
  /\ UNCHANGED <<fileVars, calls, crashes>>

CreateForecasts(r) ==
  /\ pc[r] = "forecasts"
  /\ forecasts = Absent
  /\ forecasts' = Partial
  /\ Continue(r, "forecastsPartial")
  /\ UNCHANGED <<prompts, journal, torn, records, calls, crashes>>

FinishForecasts(r) ==
  /\ pc[r] = "forecastsPartial"
  /\ forecasts' = Whole(ForecastsOf(view[r].terminal))
  /\ Leave(r)
  /\ UNCHANGED <<prompts, journal, torn, records, calls, crashes>>

\* Agreeing or not, this is the end of the invocation.
VerifyForecasts(r) ==
  /\ pc[r] = "forecasts"
  /\ forecasts # Absent
  /\ Leave(r)
  /\ UNCHANGED <<fileVars, calls, crashes>>

\* The process dies, or a write, the precommit check or the client's creation raises.
Crash(r) ==
  /\ pc[r] # "idle"
  /\ crashes < MaxCrashes
  /\ crashes' = crashes + 1
  /\ torn' \in IF pc[r] = "append" THEN BOOLEAN ELSE {torn}
  /\ Leave(r)
  /\ UNCHANGED <<prompts, journal, records, forecasts, calls>>

Step(r) ==
  \/ Prepare(r) \/ VerifyPrompts(r) \/ CreatePrompts(r) \/ FinishPrompts(r)
  \/ OpenJournal(r) \/ RecoverPartialTail(r) \/ ReadJournal(r)
  \/ TerminalizeInterrupted(r) \/ NextGame(r) \/ FinishAppend(r)
  \/ CallProvider(r) \/ ScoreGame(r)
  \/ BeginCompile(r) \/ CreateRecords(r) \/ FinishRecords(r) \/ VerifyRecords(r)
  \/ CreateForecasts(r) \/ FinishForecasts(r) \/ VerifyForecasts(r)

Next == \E r \in Runners : Step(r) \/ Crash(r)

Spec == Init /\ [][Next]_vars

\* Every process runs, the operator invokes the runtime again, the provider ends each call.
FairSpec == Spec /\ \A r \in Runners : WF_vars(Step(r))

-----------------------------------------------------------------------------
(* Properties.                                                             *)

Labels == {"idle", "prompts", "promptsPartial", "open", "read", "terminalize", "append", "call",
           "await", "records", "recordsPartial", "forecasts", "forecastsPartial"}

\* README: every prompt is rendered and on disk, and the start is durable, before any call.
CallsFollowPrompts ==
  \A g \in Games : calls[g] > 0 => prompts = Whole(Games) /\ g \in StartedGames(journal)

\* The compiled records are the journal's, one for every game, and the forecasts are exactly
\* the ones derived from them, failures retained.
CompiledOutputsAgree ==
  /\ records.state = "whole" =>
       records.content = TerminalRecords(journal) /\ GamesOf(records.content) = Games
  /\ forecasts.state # "absent" => records.state = "whole"
  /\ forecasts.state = "whole" =>
       \A g \in Games : [game |-> g, failed |-> Record(g, "failed") \in records.content]
                          \in forecasts.content

\* Something died between creating a file and finishing it.
LeftPartial ==
  \/ prompts = Partial /\ \A r \in Runners : pc[r] # "promptsPartial"
  \/ records = Partial /\ \A r \in Runners : pc[r] # "recordsPartial"
  \/ forecasts = Partial /\ \A r \in Runners : pc[r] # "forecastsPartial"

\* Invoked again as often as it takes, the runtime compiles its forecasts -- unless a death
\* left part of a file, which no later invocation repairs.
EventuallyCompiled == <>(forecasts.state = "whole" \/ LeftPartial)

\* The runtime implements the single-attempt promise, a unit being a game.
VerdictOf(g) ==
  IF Record(g, "completed") \in TerminalRecords(journal) THEN "completed"
  ELSE IF g \in GamesOf(TerminalRecords(journal)) THEN "failed" ELSE "none"
Abs == INSTANCE SingleAttempt
         WITH Units <- Games, verdict <- [g \in Games |-> VerdictOf(g)],
              sealed <- forecasts.state = "whole"
RuntimeSingleAttempt == Abs!AbsSpec
=============================================================================
