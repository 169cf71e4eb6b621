--------------------------- MODULE DevelopmentRun ---------------------------
(***************************************************************************)
(* The runner of the outcome-v1 development evaluation                     *)
(* (examples/run_tinker_outcome_development.py and the artifact writers of *)
(* forecastfm/outcome_evaluation.py): under a process lock it reads an     *)
(* append-only journal, repairs a torn tail, turns interrupted arms into   *)
(* failures, puts each remaining arm to the provider once, compiles the    *)
(* two arms' records and seals them.  A process may stop at any step, and  *)
(* the operator may invoke the runner again, also while another is active. *)
(*                                                                         *)
(* A record is its unit and its outcome: log-probabilities, prompt tokens  *)
(* and digests are functions of them that no decision here depends on.     *)
(***************************************************************************)
EXTENDS Naturals, Sequences, FiniteSets

CONSTANTS
  GameCount,            \* games of the frozen cohort
  Runners,              \* invocations of the runner that may overlap
  None,                 \* no file, no owner, no event
  MaxCrashes            \* bound: how many times a process may die

ASSUME GameCountAssumption == GameCount \in Nat \ {0}
ASSUME MaxCrashesAssumption == MaxCrashes \in Nat
ASSUME NoneAssumption == None \notin Runners

Roles == {"base", "adapter"}
Units == (0..(GameCount - 1)) \X Roles

\* The order in which the arms run and interrupted arms are closed.
Rank(u) == IF u[2] = "base" THEN u[1] ELSE GameCount + u[1]
First(units) == {u \in units : \A v \in units : Rank(u) <= Rank(v)}

\* "interrupted" is a failed record whose error is indeterminate_interrupted.
Outcomes == {"completed", "failed", "interrupted"}
Record(u, s) == [unit |-> u, status |-> s]
Records == [unit : Units, status : Outcomes]
UnitsOf(records) == {rec.unit : rec \in records}

Started(u) == [kind |-> "started", unit |-> u, status |-> "none"]
Completed(u, s) == [kind |-> "completed", unit |-> u, status |-> s]
Recovered == [kind |-> "recovered_partial_tail", unit |-> None, status |-> "none"]
Events == {Started(u) : u \in Units}
          \cup {Completed(u, s) : u \in Units, s \in Outcomes}
          \cup {Recovered}

VARIABLES
  journal,              \* the complete lines of journal.jsonl
  exists,               \* journal.jsonl has been created
  torn,                 \* bytes follow its last newline
  compiled,             \* base.jsonl and adapter.jsonl
  seal,                 \* raw/manifest.json
  lock,                 \* the runner that holds the attempt file lock
  pc,                   \* where each invocation stands
  view,                 \* the started and completed maps it holds in memory
  event,                \* the journal event it is working on
  calls,                \* history: times each arm was put to the provider
  failures,             \* history: failures journaled by this invocation
  crashes               \* history: processes that died

fileVars == <<journal, exists, torn>>
vars == <<journal, exists, torn, compiled, seal, lock, pc, view, event, calls,
          failures, crashes>>

EmptyView == [started |-> {}, completed |-> {}]

Init ==
  /\ journal = <<>> /\ exists = FALSE /\ torn = FALSE
  /\ compiled = [role \in Roles |-> None]
  /\ seal = None
  /\ lock = None
  /\ pc = [r \in Runners |-> "idle"]
  /\ view = [r \in Runners |-> EmptyView]
  /\ event = [r \in Runners |-> None]
  /\ calls = [u \in Units |-> 0]
  /\ failures = [r \in Runners |-> {}]
  /\ crashes = 0

-----------------------------------------------------------------------------
(* Reading the journal.                                                    *)

StartedUnits(j) == {j[i].unit : i \in {k \in DOMAIN j : j[k].kind = "started"}}
TerminalRecords(j) ==
  {Record(j[i].unit, j[i].status) : i \in {k \in DOMAIN j : j[k].kind = "completed"}}

StartsBefore(j, i) == {k \in 1..(i - 1) : j[k].kind = "started"}
EndsBefore(j, i, u) == {k \in 1..(i - 1) : j[k].kind = "completed" /\ j[k].unit = u}

\* Mutation: any earlier start counts as an active arm.
StartAcceptedOnce(j, i) == StartsBefore(j, i) = {}

\* _read_started_event: no second start, and no other arm still active.
StartAccepted(j, i) ==
  \A k \in StartsBefore(j, i) :
    j[k].unit # j[i].unit /\ EndsBefore(j, i, j[k].unit) # {}

\* _read_completed_event: exactly one start and no earlier end.
EndAccepted(j, i) ==
  /\ \E k \in StartsBefore(j, i) : j[k].unit = j[i].unit
  /\ EndsBefore(j, i, j[i].unit) = {}

Readable(j) ==
  \A i \in DOMAIN j : /\ j[i].kind = "started" => StartAccepted(j, i)
                      /\ j[i].kind = "completed" => EndAccepted(j, i)

\* A journal that is empty or does not end in a newline is repaired first.
NeedsRecovery == exists /\ (torn \/ journal = <<>>)

-----------------------------------------------------------------------------
(* One invocation.                                                         *)

Goto(r, label) == pc' = [pc EXCEPT ![r] = label]

\* The invocation ends, by returning or by raising; the lock is released.
Leave(r) ==
  /\ Goto(r, "idle")
  /\ lock' = IF lock = r THEN None ELSE lock
  /\ view' = [view EXCEPT ![r] = EmptyView]
  /\ event' = [event EXCEPT ![r] = None]
  /\ failures' = [failures EXCEPT ![r] = {}]

\* Mutation: the runner does not take the attempt file lock.
AcquireUnlocked(r) ==
  /\ pc[r] = "idle"
  /\ Goto(r, "inputs")
  /\ UNCHANGED <<fileVars, compiled, seal, lock, view, event, calls, failures, crashes>>

Acquire(r) ==
  /\ pc[r] = "idle"
  /\ lock = None
  /\ lock' = r
  /\ Goto(r, "inputs")
  /\ UNCHANGED <<fileVars, compiled, seal, view, event, calls, failures, crashes>>

\* Published inputs are checked; an evaluation that is sealed is not run again.
RequireInputs(r) ==
  /\ pc[r] = "inputs"
  /\ \/ seal = None /\ Goto(r, "journal") /\ UNCHANGED <<lock, view, event, failures>>
     \/ seal # None /\ Leave(r)
  /\ UNCHANGED <<fileVars, compiled, seal, calls, crashes>>

TruncateTail(r) ==
  /\ pc[r] = "journal"
  /\ NeedsRecovery
  /\ torn' = FALSE
  /\ Goto(r, "recovery")
  /\ UNCHANGED <<journal, exists, compiled, seal, lock, view, event, calls, failures, crashes>>

\* The file is opened (and so created); the line reaches it in FinishAppend.
OpenAppend(r, e) ==
  /\ exists' = TRUE
  /\ event' = [event EXCEPT ![r] = e]
  /\ Goto(r, "append")
  /\ UNCHANGED <<journal, torn, compiled, seal, lock, view, calls, failures, crashes>>

RecordRecovery(r) == pc[r] = "recovery" /\ OpenAppend(r, Recovered)

\* What the invocation does once its event is durable, and what it remembers.
Remembered(v, e) ==
  CASE e.kind = "started" -> [v EXCEPT !.started = @ \cup {e.unit}]
    [] e.kind = "completed" -> [v EXCEPT !.completed = @ \cup {Record(e.unit, e.status)}]
    [] OTHER -> v
AfterAppend(e) ==
  CASE e.kind = "started" -> "call"
    [] e.kind = "completed" /\ e.status = "interrupted" -> "terminalize"
    [] e.kind = "completed" /\ e.status # "interrupted" -> "pending"
    [] OTHER -> "journal"
StopsRun(e) == e.kind = "completed" /\ e.status = "failed"

FinishAppend(r) ==
  /\ pc[r] = "append"
  /\ journal' = Append(journal, event[r])
  /\ torn' = FALSE
  /\ \/ StopsRun(event[r]) /\ Leave(r)
     \/ /\ ~StopsRun(event[r])
        /\ Goto(r, AfterAppend(event[r]))
        /\ view' = [view EXCEPT ![r] = Remembered(@, event[r])]
        /\ failures' = [failures EXCEPT ![r] = @ \cup ({event[r].status} \cap {"failed", "interrupted"})]
        /\ UNCHANGED <<lock, event>>
  /\ UNCHANGED <<exists, compiled, seal, calls, crashes>>

ReadJournal(r) ==
  /\ pc[r] = "journal"
  /\ ~NeedsRecovery
  /\ \/ /\ Readable(journal)
        /\ view' = [view EXCEPT ![r] = [started |-> StartedUnits(journal),
                                        completed |-> TerminalRecords(journal)]]
        /\ Goto(r, "terminalize")
        /\ UNCHANGED <<lock, event, failures>>
     \/ ~Readable(journal) /\ Leave(r)
  /\ UNCHANGED <<fileVars, compiled, seal, calls, crashes>>

\* Mutation: an arm with a start and no end is simply asked again.
InterruptedIgnored(r) == {}
Interrupted(r) == view[r].started \ UnitsOf(view[r].completed)

Terminalize(r) ==
  /\ pc[r] = "terminalize"
  /\ \E u \in First(Interrupted(r)) : OpenAppend(r, Completed(u, "interrupted"))

Expected(r, role) == {rec \in view[r].completed : rec.unit[2] = role}
Covered(r, role) == \A u \in Units : u[2] = role => u \in UnitsOf(view[r].completed)
Agrees(r, role) == Covered(r, role) /\ compiled[role] = Expected(r, role)

ValidateCompiled(r) ==
  /\ pc[r] = "terminalize"
  /\ Interrupted(r) = {}
  /\ \/ /\ \A role \in Roles : compiled[role] = None \/ Agrees(r, role)
        /\ Goto(r, "pending")
        /\ UNCHANGED <<lock, view, event, failures>>
     \/ /\ \E role \in Roles : compiled[role] # None /\ ~Agrees(r, role)
        /\ Leave(r)
  /\ UNCHANGED <<fileVars, compiled, seal, calls, crashes>>

Pending(r) == Units \ UnitsOf(view[r].completed)

StartArm(r) ==
  /\ pc[r] = "pending"
  /\ \E u \in First(Pending(r)) : OpenAppend(r, Started(u))

\* The four candidate calls of one arm, drained together.
CallProvider(r) ==
  /\ pc[r] = "call"
  /\ calls' = [calls EXCEPT ![event[r].unit] = @ + 1]
  /\ Goto(r, "await")
  /\ UNCHANGED <<fileVars, compiled, seal, lock, view, event, failures, crashes>>

\* Mutation: a failed call is retried.
ScoreArmRetrying(r) ==
  /\ pc[r] = "await"
  /\ \/ \E s \in {"completed", "failed"} : OpenAppend(r, Completed(event[r].unit, s))
     \/ /\ Goto(r, "call")
        /\ UNCHANGED <<fileVars, compiled, seal, lock, view, event, calls, failures, crashes>>

ScoreArm(r) ==
  /\ pc[r] = "await"
  /\ \E s \in {"completed", "failed"} : OpenAppend(r, Completed(event[r].unit, s))

NextRole == [base |-> "adapter", adapter |-> "match"]

\* Mutation: compilation does not wait for the last arm.
BeginCompileEarly(r) ==
  /\ pc[r] = "pending"
  /\ Goto(r, "base")
  /\ UNCHANGED <<fileVars, compiled, seal, lock, view, event, calls, failures, crashes>>

BeginCompile(r) ==
  /\ pc[r] = "pending"
  /\ Pending(r) = {}
  /\ Goto(r, "base")
  /\ UNCHANGED <<fileVars, compiled, seal, lock, view, event, calls, failures, crashes>>

\* Created whole (os.link of a finished temporary), or compared when present.
CompileArm(r) ==
  /\ pc[r] \in Roles
  /\ LET role == pc[r] IN
       \/ /\ compiled[role] \in {None, Expected(r, role)}
          /\ compiled' = [compiled EXCEPT ![role] = Expected(r, role)]
          /\ Goto(r, NextRole[role])
          /\ UNCHANGED <<lock, view, event, failures>>
       \/ /\ compiled[role] \notin {None, Expected(r, role)}
          /\ Leave(r)
          /\ UNCHANGED compiled
  /\ UNCHANGED <<fileVars, seal, calls, crashes>>

JournalMatches(records) ==
  /\ ~torn
  /\ Readable(journal)
  /\ TerminalRecords(journal) = records
  /\ StartedUnits(journal) = UnitsOf(records)

RequireJournalMatches(r) ==
  /\ pc[r] = "match"
  /\ LET records == Expected(r, "base") \cup Expected(r, "adapter") IN
       \/ JournalMatches(records) /\ Goto(r, "seal") /\ UNCHANGED <<lock, view, event, failures>>
       \/ ~JournalMatches(records) /\ Leave(r)
  /\ UNCHANGED <<fileVars, compiled, seal, calls, crashes>>

SealContent == [base |-> compiled["base"], adapter |-> compiled["adapter"], journal |-> journal]

SealOutputs(r) ==
  /\ pc[r] = "seal"
  /\ seal' = IF seal = None THEN SealContent ELSE seal
  /\ Leave(r)
  /\ UNCHANGED <<fileVars, compiled, calls, crashes>>

\* The process dies or raises. A half-written line stays behind the last newline.
Crash(r) ==
  /\ pc[r] # "idle"
  /\ crashes < MaxCrashes
  /\ crashes' = crashes + 1
  /\ torn' \in IF pc[r] = "append" THEN BOOLEAN ELSE {torn}
  /\ Leave(r)
  /\ UNCHANGED <<journal, exists, compiled, seal, calls>>

Step(r) ==
  \/ Acquire(r) \/ RequireInputs(r) \/ TruncateTail(r) \/ RecordRecovery(r)
  \/ FinishAppend(r) \/ ReadJournal(r) \/ Terminalize(r) \/ ValidateCompiled(r)
  \/ StartArm(r) \/ CallProvider(r) \/ ScoreArm(r)
  \/ BeginCompile(r) \/ CompileArm(r) \/ RequireJournalMatches(r) \/ SealOutputs(r)

Next == \E r \in Runners : Step(r) \/ Crash(r)

Spec == Init /\ [][Next]_vars

-----------------------------------------------------------------------------
(* What the runner promises.                                               *)

Labels == {"idle", "inputs", "journal", "recovery", "append", "terminalize",
           "pending", "call", "await", "base", "adapter", "match", "seal"}

\* The variables hold what their comments say.
TypeOK ==
  /\ journal \in Seq(Events)
  /\ exists \in BOOLEAN /\ torn \in BOOLEAN
  /\ compiled \in [Roles -> {None} \cup SUBSET Records]
  /\ seal = None \/ seal \in [base : SUBSET Records, adapter : SUBSET Records,
                             journal : Seq(Events)]
  /\ lock \in Runners \cup {None}
  /\ pc \in [Runners -> Labels]
  /\ view \in [Runners -> [started : SUBSET Units, completed : SUBSET Records]]
  /\ event \in [Runners -> Events \cup {None}]
  /\ calls \in [Units -> Nat]
  /\ failures \in [Runners -> SUBSET {"failed", "interrupted"}]
  /\ crashes \in 0..MaxCrashes

\* No arm is put to the provider twice, whatever dies or overlaps: the paid
\* attempt is never repeated (score_arm's one terminal attempt).
AtMostOneAttempt == \A u \in Units : calls[u] <= 1

\* Whatever a dead invocation left, the strict reader of the next one accepts it:
\* the evaluation can never be blocked by its own journal.
JournalStaysReadable == Readable(journal)

\* The sealed files say exactly what the journal says, for every arm, and the
\* journal they are sealed with is still the journal on disk.
SealedOutputsAreTheJournal ==
  seal # None =>
    /\ seal.journal = journal
    /\ ~torn
    /\ seal.base \cup seal.adapter = TerminalRecords(journal)
    /\ \A role \in Roles : compiled[role] = {rec \in TerminalRecords(journal) : rec.unit[2] = role}
    /\ UnitsOf(TerminalRecords(journal)) = Units

\* After the provider fails an arm, the same invocation asks about no other arm.
StopsAfterProviderFailure ==
  \A r \in Runners : pc[r] \in {"call", "await"} => "failed" \notin failures[r]

\* Nothing on disk changes once the outputs are sealed.
SealIsFinal == [][seal # None => UNCHANGED <<journal, torn, compiled, seal, calls>>]_vars

\* The runner implements the single-attempt promise.
VerdictOf(u) ==
  IF Record(u, "completed") \in TerminalRecords(journal) THEN "completed"
  ELSE IF u \in UnitsOf(TerminalRecords(journal)) THEN "failed" ELSE "none"
Abs == INSTANCE SingleAttempt
         WITH verdict <- [u \in Units |-> VerdictOf(u)], sealed <- seal # None
SingleAttemptSpec == Abs!AbsSpec
=============================================================================
