--------------------------- MODULE CollectorProofs ---------------------------
(***************************************************************************)
(* Proofs about Collector, for any games, cutoffs and times, any changes   *)
(* of ESPN's schedule and any number of deaths.                            *)
(*                                                                         *)
(* What an invocation holds in memory runs ahead of the chain while it     *)
(* reconciles a poll, and has been overtaken by it when the poll's event   *)
(* is appended; from then on it may be saved.  The invariant says, for     *)
(* each place an invocation can stand at, what of its index is on the      *)
(* chain and what the amendments and references in hand still owe it.      *)
(***************************************************************************)
EXTENDS Collector, FiniteSetTheorems, WellFoundedInduction, TLAPS

-----------------------------------------------------------------------------
(* Types.                                                                  *)

References == Seq([id : GameIds, tipoff : Tipoffs])
Games == [id : GameIds, date : Dates, tipoff : Tipoffs, removed : BOOLEAN,
          captures : SUBSET CutoffNames]
Indexes == [lastPoll : Nat \cup {None}, games : Seq(Games)]
Amendments == [id : GameIds, previous : Tipoffs, amended : Tipoffs \cup {None}]
Accumulations == [games : Seq(Games), amendments : Seq(Amendments)]

FilesOf(contents) == {Absent, Partial} \cup [state : {"whole"}, content : contents]
Fetched == FilesOf(Nat)
Payloads == [date : Dates, id : GameIds, cutoffType : CutoffNames, tipoff : Tipoffs, cutoff : Int,
             retrievedAt : Nat, report : Fetched \cup {None}, scoreboard : Fetched \cup {None}]
Sidecars == [payload : Payloads, line : Nat]

PollEvents == [type : {"schedule_poll"}, recordedAt : Nat,
               payload : [date : Nat, games : References]]
AmendmentEvents == [type : {"schedule_amendment"}, recordedAt : Nat, payload : Amendments]
CaptureEvents == [type : {"capture"}, recordedAt : Nat, payload : Payloads]
Events == PollEvents \cup AmendmentEvents \cup CaptureEvents

Items == Nat \X CutoffNames
CapturesInHand == [item : Items, retrievedAt : Nat, slot : Nat, report : Fetched \cup {None},
                   scoreboard : Fetched \cup {None}]
Runs == [state : Indexes, now : 0..MaxTime, offset : Nat, references : References,
         amendments : Seq(Amendments), recordedAt : Nat, due : SUBSET Items,
         capture : CapturesInHand \cup {None}, held : References \cup Nat \cup Sidecars \cup {None}]

Polling == {"poll", "pollWrite"}
Capturing == {"report", "reportWrite", "scoreboard", "scoreboardWrite", "appendCapture",
              "sidecar", "sidecarWrite"}
Chained == {"due", "capture"} \cup Capturing

FilesTyped(stored) ==
  /\ stored \in [FileNames -> FilesOf(References \cup Nat \cup Sidecars)]
  /\ \A polled, day \in Days : stored[PollFile(polled, day)] \in FilesOf(References)
  /\ \A date \in Dates, id \in GameIds, cutoff \in CutoffNames :
       /\ \A at \in ReportTimes : stored[ReportFile(date, id, cutoff, at)] \in Fetched
       /\ stored[ScoreboardFile(date, id, cutoff)] \in Fetched
       /\ stored[SidecarFile(date, id, cutoff)] \in FilesOf(Sidecars)

\* Every variable has its type, and what is held while a file is written is of its kind.
CollectorTypeOK ==
  /\ clock \in 0..MaxTime
  /\ listed \in [GameIds -> Tipoffs \cup {None}]
  /\ FilesTyped(files)
  /\ ledger \in Seq(Events)
  /\ saved \in Indexes
  /\ pc \in {"idle", "amend"} \cup Polling \cup Chained
  /\ run \in Runs
  /\ pc = "pollWrite" => run.held \in References
  /\ pc \in {"reportWrite", "scoreboardWrite"} => run.held \in Nat
  /\ pc \in Capturing => run.capture \in CapturesInHand

-----------------------------------------------------------------------------
(* The inductive invariant, in terms of the lines of the chain.            *)

PolledOn(lines, date) ==
  \E i \in DOMAIN lines : lines[i].type = "schedule_poll" /\ lines[i].payload.date = date
Lists(references, id, tipoff) ==
  \E k \in DOMAIN references : references[k] = [id |-> id, tipoff |-> tipoff]
ListedOn(lines, id, tipoff) ==
  \E i \in DOMAIN lines :
    lines[i].type = "schedule_poll" /\ Lists(lines[i].payload.games, id, tipoff)
CapturedOn(lines, id, cutoff) ==
  \E i \in DOMAIN lines :
    lines[i].type = "capture" /\ lines[i].payload.id = id /\ lines[i].payload.cutoffType = cutoff
RemovedOn(lines, id) ==
  \E i \in DOMAIN lines :
    /\ lines[i].type = "schedule_amendment"
    /\ lines[i].payload.id = id /\ lines[i].payload.amended = None
Removes(amendments, id) ==
  \E a \in DOMAIN amendments : amendments[a].id = id /\ amendments[a].amended = None

GameOn(lines, game) ==
  /\ ListedOn(lines, game.id, game.tipoff)
  /\ \A cutoff \in game.captures : CapturedOn(lines, game.id, cutoff)
  /\ game.removed => RemovedOn(lines, game.id)
IndexOn(lines, index) ==
  /\ index.lastPoll # None => PolledOn(lines, index.lastPoll)
  /\ \A k \in DOMAIN index.games : GameOn(lines, index.games[k])

\* A game of an index that a poll in hand was reconciled into.
GameOwed(lines, references, amendments, game) ==
  /\ Lists(references, game.id, game.tipoff) \/ ListedOn(lines, game.id, game.tipoff)
  /\ \A cutoff \in game.captures : CapturedOn(lines, game.id, cutoff)
  /\ game.removed => Removes(amendments, game.id) \/ RemovedOn(lines, game.id)

\* Games keep their place and their captures; new ones are of ids not known before.
Extends(games, more) ==
  /\ Len(games) <= Len(more)
  /\ \A k \in 1..Len(games) :
       more[k].id = games[k].id /\ games[k].captures \subseteq more[k].captures
  /\ \A k \in (Len(games) + 1)..Len(more), j \in 1..Len(games) : more[k].id # games[j].id

SidecarsOn(lines, stored) ==
  \A date \in Dates, id \in GameIds, cutoff \in CutoffNames :
    LET sidecar == stored[SidecarFile(date, id, cutoff)] IN
      sidecar.state = "whole" =>
        /\ sidecar.content.line \in DOMAIN lines
        /\ lines[sidecar.content.line].type = "capture"
        /\ lines[sidecar.content.line].payload = sidecar.content.payload
        /\ sidecar.content.payload.date = date /\ sidecar.content.payload.id = id
        /\ sidecar.content.payload.cutoffType = cutoff

CapturesOn(lines) ==
  \A i \in DOMAIN lines : lines[i].type = "capture" =>
    \E k \in DOMAIN lines :
      /\ lines[k].type = "schedule_poll" /\ k < i
      /\ Lists(lines[k].payload.games, lines[i].payload.id, lines[i].payload.tipoff)

\* The saved index, the captures and the sidecars are on the chain.
Recorded ==
  /\ IndexOn(ledger, saved)
  /\ CapturesOn(ledger)
  /\ SidecarsOn(ledger, files)

\* Where an invocation that polls stands towards the chain and the saved index.
PollsOnce ==
  /\ pc \in Polling \cup {"amend"} => saved.lastPoll # Day(run.now)
  /\ pc \in Polling => run.state = saved
  /\ pc = "pollWrite" => run.offset < POLL_HORIZON_DAYS
  /\ pc = "amend" => \A k \in DOMAIN run.state.games :
       GameOwed(ledger, run.references, run.amendments, run.state.games[k])

IndexGrows ==
  /\ pc # "idle" => Extends(saved.games, run.state.games)
  /\ pc \in Chained => IndexOn(ledger, run.state)

\* What is due has not been captured, and the capture in hand is due.
DueIsOpen ==
  /\ pc \in {"capture"} \cup Capturing => \A item \in run.due :
       /\ item[1] \in DOMAIN run.state.games
       /\ item[2] \notin run.state.games[item[1]].captures
  /\ pc \in Capturing => run.capture.item \in run.due
  /\ pc = "report" => run.capture.slot \in 1..(Slots + 1)

\* The last event is that of the capture whose sidecar is being written.
CaptureIsLast ==
  /\ pc \in {"sidecar", "sidecarWrite"} =>
       /\ Len(ledger) > 0 /\ ledger[Len(ledger)].type = "capture"
       /\ ledger[Len(ledger)].payload = CaptureEvent.payload
  /\ pc = "sidecarWrite" => run.held = [payload |-> CaptureEvent.payload, line |-> Len(ledger)]

CInv == CollectorTypeOK /\ Recorded /\ PollsOnce /\ IndexGrows /\ DueIsOpen /\ CaptureIsLast

-----------------------------------------------------------------------------
(* Numbers, sequences and files.                                           *)

LEMMA LeastNatural ==
  ASSUME NEW S \in SUBSET Nat, S # {}
  PROVE  \E x \in S : \A y \in S : x <= y
<1>1. PICK x \in S : \A y \in S : ~(<<y, x>> \in OpToRel(<, Nat))
  BY NatLessThanWellFounded, WFMin
<1>2. ASSUME NEW y \in S PROVE x <= y
  <2>1. ~(y < x)
    BY <1>1 DEF OpToRel
  <2> QED BY <2>1
<1> QED BY <1>2

LEMMA GreatestIndex ==
  ASSUME NEW n \in Nat, NEW S \in SUBSET (1..n), S # {}
  PROVE  (CHOOSE k \in S : \A j \in S : j <= k) \in S
<1> DEFINE T == {n - k : k \in S}
<1>1. T \in SUBSET Nat /\ T # {}
  <2>1. \A k \in S : n - k \in Nat
    OBVIOUS
  <2> QED BY <2>1
<1>2. PICK x \in T : \A y \in T : x <= y
  <2> HIDE DEF T
  <2> QED BY <1>1, LeastNatural
<1>3. PICK k \in S : x = n - k
  OBVIOUS
<1>4. \A j \in S : n - k <= n - j
  BY <1>2, <1>3
<1>5. \A j \in S : j <= k
  BY <1>4
<1> QED BY <1>5

\* A longer span of time covers no fewer days.
LEMMA DayMonotone ==
  ASSUME NEW s \in Nat, NEW t \in Nat, s <= t
  PROVE  Day(s) \in Nat /\ Day(t) \in Nat /\ Day(s) <= Day(t)
BY TimesAssumption DEF Day

LEMMA Appended ==
  ASSUME NEW S, NEW lines \in Seq(S), NEW event \in S
  PROVE  /\ Append(lines, event) \in Seq(S)
         /\ Len(lines) \in Nat /\ DOMAIN lines = 1..Len(lines)
         /\ Len(Append(lines, event)) = Len(lines) + 1
         /\ DOMAIN Append(lines, event) = 1..(Len(lines) + 1)
         /\ Append(lines, event)[Len(lines) + 1] = event
         /\ \A i \in 1..Len(lines) : Append(lines, event)[i] = lines[i] /\ lines[i] \in S
OBVIOUS

LEMMA ElementOf ==
  ASSUME NEW S, NEW s \in Seq(S), NEW n \in 1..Len(s)
  PROVE  n \in DOMAIN s /\ s[n] \in S
OBVIOUS

LEMMA FunctionIsSequence ==
  ASSUME NEW S, NEW n \in Nat, NEW f \in [1..n -> S]
  PROVE  f \in Seq(S)
OBVIOUS

\* The scoreboard of a day is a finite sequence of references.
LEMMA ScoreboardType ==
  ASSUME listed \in [GameIds -> Tipoffs \cup {None}], NEW day
  PROVE  Scoreboard(day) \in References
<1> DEFINE Ids == {g \in GameIds : listed[g] # None /\ Day(listed[g]) = day}
           S == {[id |-> id, tipoff |-> listed[id]] : id \in Ids}
<1>1. IsFiniteSet(S)
  <2>1. IsFiniteSet(Ids)
    BY ScheduleAssumption, FS_Subset
  <2> DEFINE F == [id \in Ids |-> [id |-> id, tipoff |-> listed[id]]]
  <2>2. F \in Surjection(Ids, S)
    BY DEF Surjection
  <2> QED BY <2>1, <2>2, FS_Surjection
<1>2. S \subseteq [id : GameIds, tipoff : Tipoffs]
  OBVIOUS
<1> HIDE DEF S
<1>3. SetToSeq(S) \in [1..Cardinality(S) -> S]
  <2>1. PICK f : f \in Bijection(1..Cardinality(S), S)
    BY <1>1, FS_CardinalityType DEF ExistsBijection
  <2>2. f \in [1..Cardinality(S) -> S] /\ IsInjective(f)
    BY <2>1 DEF Bijection, Injection
  <2> QED BY <2>2 DEF SetToSeq
<1>4. Cardinality(S) \in Nat
  BY <1>1, FS_CardinalityType
<1>5. SetToSeq(S) \in [1..Cardinality(S) -> [id : GameIds, tipoff : Tipoffs]]
  BY <1>2, <1>3
<1>6. SetToSeq(S) \in References
  BY <1>4, <1>5, FunctionIsSequence DEF References
<1>7. Scoreboard(day) = SetToSeq(S)
  BY DEF Scoreboard, S
<1> QED BY <1>6, <1>7

LEMMA WholeFile ==
  ASSUME NEW contents, NEW file \in FilesOf(contents)
  PROVE  /\ file.state = "whole" => file.content \in contents /\ file = Whole(file.content)
         /\ file.state = "whole" => file \notin {Absent, Partial}
BY DEF FilesOf, Absent, Partial, Whole

LEMMA FileKinds ==
  ASSUME NEW contents
  PROVE  /\ Absent \in FilesOf(contents) /\ Partial \in FilesOf(contents)
         /\ \A content \in contents : Whole(content) \in FilesOf(contents)
         /\ \A content : Whole(content).state = "whole" /\ Whole(content).content = content
         /\ Partial.state # "whole" /\ Absent.state # "whole"
BY DEF FilesOf, Absent, Partial, Whole

LEMMA FilesOfLarger ==
  ASSUME NEW contents, NEW more, contents \subseteq more
  PROVE  FilesOf(contents) \subseteq FilesOf(more)
BY DEF FilesOf

-----------------------------------------------------------------------------
(* Reconciling a poll.  Each step, of a reference or of a game, keeps what *)
(* is said here of the games and the amendments so far.                    *)

\* A game that was known keeps its id and captures; its tipoff, and a game that is new, are
\* of a reference; a removal is old or amended.
Known(games, references, amendments, k, game) ==
  /\ k <= Len(games) =>
       /\ game.id = games[k].id /\ game.captures = games[k].captures
       /\ game.tipoff = games[k].tipoff \/ Lists(references, game.id, game.tipoff)
       /\ game.removed => games[k].removed \/ Removes(amendments, game.id)
  /\ k > Len(games) =>
       /\ game.captures = {}
       /\ \A j \in 1..Len(games) : games[j].id # game.id
       /\ Lists(references, game.id, game.tipoff)
       /\ game.removed => Removes(amendments, game.id)

Accumulated(games, references, acc) ==
  /\ acc \in Accumulations
  /\ Len(games) <= Len(acc.games)
  /\ \A k \in 1..Len(acc.games) : Known(games, references, acc.amendments, k, acc.games[k])

LEMMA RemovesMore ==
  ASSUME NEW amendments \in Seq(Amendments), NEW amendment \in Amendments, NEW id,
         Removes(amendments, id)
  PROVE  Removes(Append(amendments, amendment), id)
<1>1. PICK a \in DOMAIN amendments : amendments[a].id = id /\ amendments[a].amended = None
  BY DEF Removes
<1>2. a \in 1..Len(amendments)
  OBVIOUS
<1>3. a \in DOMAIN Append(amendments, amendment) /\ Append(amendments, amendment)[a] = amendments[a]
  BY <1>2, Appended
<1> QED BY <1>1, <1>3 DEF Removes

LEMMA RemovesAppended ==
  ASSUME NEW amendments \in Seq(Amendments), NEW amendment \in Amendments, amendment.amended = None
  PROVE  Removes(Append(amendments, amendment), amendment.id)
<1>1. Len(amendments) + 1 \in DOMAIN Append(amendments, amendment)
  BY Appended
<1>2. Append(amendments, amendment)[Len(amendments) + 1] = amendment
  BY Appended
<1> QED BY <1>1, <1>2 DEF Removes

LEMMA KnownStays ==
  ASSUME NEW games, NEW references, NEW amendments \in Seq(Amendments), NEW amendment \in Amendments,
         NEW k, NEW game, Known(games, references, amendments, k, game)
  PROVE  Known(games, references, Append(amendments, amendment), k, game)
BY RemovesMore DEF Known

\* The index of the last game that has an id.
LEMMA LastOfId ==
  ASSUME NEW games \in Seq(Games), NEW id,
         {k \in DOMAIN games : games[k].id = id} # {}
  PROVE  LET same == {k \in DOMAIN games : games[k].id = id}
             last == CHOOSE k \in same : \A j \in same : j <= k
         IN last \in 1..Len(games) /\ games[last].id = id
<1> DEFINE same == {k \in DOMAIN games : games[k].id = id}
           last == CHOOSE k \in same : \A j \in same : j <= k
<1>1. Len(games) \in Nat /\ same \in SUBSET (1..Len(games)) /\ same # {}
  OBVIOUS
<1>2. last \in same
  <2> HIDE DEF same
  <2> QED BY <1>1, GreatestIndex
<1>3. last \in 1..Len(games) /\ games[last].id = id
  BY <1>2
<1> QED BY <1>3

LEMMA ReplacedGame ==
  ASSUME NEW games \in Seq(Games), NEW last \in 1..Len(games), NEW game \in Games
  PROVE  /\ [games EXCEPT ![last] = game] \in Seq(Games)
         /\ Len([games EXCEPT ![last] = game]) = Len(games)
         /\ \A k \in 1..Len(games) :
              [games EXCEPT ![last] = game][k] = IF k = last THEN game ELSE games[k]
OBVIOUS

LEMMA ReconcileGameKeeps ==
  ASSUME NEW games \in Seq(Games), NEW references \in References, NEW n \in 1..Len(references),
         NEW acc, Accumulated(games, references, acc)
  PROVE  Accumulated(games, references, ReconcileGame(games, acc, references[n]))
<1> DEFINE reference == references[n]
           same == {k \in DOMAIN games : games[k].id = reference.id}
           last == CHOOSE k \in same : \A j \in same : j <= k
           next == ReconcileGame(games, acc, reference)
<1>1. reference \in [id : GameIds, tipoff : Tipoffs] /\ Lists(references, reference.id, reference.tipoff)
  <2>1. reference \in [id : GameIds, tipoff : Tipoffs] /\ n \in DOMAIN references
    BY ElementOf DEF References
  <2>2. reference = [id |-> reference.id, tipoff |-> reference.tipoff]
    BY <2>1
  <2> QED BY <2>1, <2>2 DEF Lists
<1>2. acc \in Accumulations /\ acc.games \in Seq(Games) /\ acc.amendments \in Seq(Amendments)
  BY DEF Accumulated, Accumulations
<1>3. /\ Len(games) \in Nat /\ Len(acc.games) \in Nat /\ Len(games) <= Len(acc.games)
      /\ \A k \in 1..Len(acc.games) : Known(games, references, acc.amendments, k, acc.games[k])
  BY <1>2 DEF Accumulated
<1>4. CASE same = {}
  <2> DEFINE game == NewGame(reference.id, reference.tipoff)
  <2>1. next = [acc EXCEPT !.games = Append(@, game)]
    BY <1>4 DEF ReconcileGame
  <2>2. game \in Games
    BY <1>1 DEF NewGame, Games, Dates
  <2>3. game.id = reference.id /\ game.tipoff = reference.tipoff /\ game.captures = {}
        /\ game.removed = FALSE
    BY DEF NewGame
  <2>4. \A j \in 1..Len(games) : games[j].id # reference.id
    BY <1>4
  <2> HIDE DEF game, next, same, last, reference
  <2>5. Known(games, references, acc.amendments, Len(acc.games) + 1, game)
    BY <1>1, <1>3, <2>3, <2>4 DEF Known
  <2>6. next \in Accumulations /\ next.games = Append(acc.games, game) /\ next.amendments = acc.amendments
    BY <1>2, <2>1, <2>2, Appended DEF Accumulations
  <2>7. \A k \in 1..Len(next.games) : Known(games, references, next.amendments, k, next.games[k])
    <3> SUFFICES ASSUME NEW k \in 1..Len(next.games)
                 PROVE  Known(games, references, next.amendments, k, next.games[k])
      OBVIOUS
    <3>1. CASE k = Len(acc.games) + 1
      BY <1>2, <2>2, <2>5, <2>6, <3>1, Appended
    <3>2. CASE k # Len(acc.games) + 1
      <4>1. k \in 1..Len(acc.games) /\ next.games[k] = acc.games[k]
        BY <1>2, <2>2, <2>6, <3>2, Appended
      <4> QED BY <1>3, <2>6, <4>1
    <3> QED BY <3>1, <3>2
  <2>8. Len(games) <= Len(next.games)
    BY <1>2, <1>3, <2>2, <2>6, Appended
  <2> QED BY <2>6, <2>7, <2>8 DEF Accumulated, next, reference
<1>5. CASE same # {}
  <2>1. last \in 1..Len(games) /\ games[last].id = reference.id
    BY <1>5, LastOfId
  <2>2. CASE acc.games[last].tipoff = reference.tipoff
    BY <1>5, <2>2 DEF ReconcileGame
  <2>3. CASE acc.games[last].tipoff # reference.tipoff
    <3> DEFINE game == [acc.games[last] EXCEPT !.tipoff = reference.tipoff]
               amendment == Amendment(acc.games[last], reference.tipoff)
    <3>1. next = [games |-> [acc.games EXCEPT ![last] = game],
                  amendments |-> Append(acc.amendments, amendment)]
      BY <1>5, <2>3 DEF ReconcileGame
    <3> HIDE DEF next, same, last, reference
    <3>2. last \in 1..Len(acc.games) /\ acc.games[last] \in Games
      BY <1>2, <1>3, <2>1
    <3>3. game \in Games /\ amendment \in Amendments
      BY <1>1, <3>2 DEF Games, Amendment, Amendments
    <3>4. /\ game.id = acc.games[last].id /\ game.captures = acc.games[last].captures
          /\ game.removed = acc.games[last].removed /\ game.tipoff = reference.tipoff
      BY <3>2 DEF Games
    <3>5. Known(games, references, acc.amendments, last, acc.games[last])
      BY <1>3, <3>2
    <3> HIDE DEF game, amendment
    <3>6. Known(games, references, acc.amendments, last, game)
      <4>1. last <= Len(games) /\ ~(last > Len(games))
        BY <1>3, <2>1
      <4>2. Lists(references, game.id, game.tipoff)
        BY <1>1, <2>1, <3>4, <3>5, <4>1 DEF Known
      <4> QED BY <3>4, <3>5, <4>1, <4>2 DEF Known
    <3>7. next \in Accumulations /\ Len(next.games) = Len(acc.games)
          /\ next.amendments = Append(acc.amendments, amendment)
      BY <1>2, <3>1, <3>2, <3>3, ReplacedGame, Appended DEF Accumulations
    <3>8. \A k \in 1..Len(acc.games) : next.games[k] = IF k = last THEN game ELSE acc.games[k]
      BY <1>2, <3>1, <3>2, <3>3, ReplacedGame
    <3>9. \A k \in 1..Len(next.games) : Known(games, references, next.amendments, k, next.games[k])
      BY <1>2, <1>3, <3>3, <3>6, <3>7, <3>8, KnownStays
    <3> QED BY <1>3, <3>7, <3>9 DEF Accumulated, next, reference
  <2> QED BY <2>2, <2>3
<1> QED BY <1>4, <1>5

LEMMA RemoveUnseenKeeps ==
  ASSUME NEW games \in Seq(Games), NEW references \in References, NEW seen, NEW first,
         NEW acc, Accumulated(games, references, acc), NEW n \in 1..Len(acc.games)
  PROVE  /\ Accumulated(games, references, RemoveUnseen(seen, first, acc, n))
         /\ Len(RemoveUnseen(seen, first, acc, n).games) = Len(acc.games)
<1> DEFINE next == RemoveUnseen(seen, first, acc, n)
           old == acc.games[n]
           game == [old EXCEPT !.removed = TRUE]
           amendment == Amendment(old, None)
<1>1. next = acc \/ next = [games |-> [acc.games EXCEPT ![n] = game],
                            amendments |-> Append(acc.amendments, amendment)]
  BY DEF RemoveUnseen
<1>2. acc \in Accumulations /\ acc.games \in Seq(Games) /\ acc.amendments \in Seq(Amendments)
  BY DEF Accumulated, Accumulations
<1>3. /\ Len(games) \in Nat /\ Len(acc.games) \in Nat /\ Len(games) <= Len(acc.games)
      /\ \A k \in 1..Len(acc.games) : Known(games, references, acc.amendments, k, acc.games[k])
  BY <1>2 DEF Accumulated
<1>4. CASE next = acc
  BY <1>4
<1>5. CASE next = [games |-> [acc.games EXCEPT ![n] = game],
                   amendments |-> Append(acc.amendments, amendment)]
  <2>1. old \in Games
    BY <1>2
  <2>2. game \in Games /\ amendment \in Amendments /\ amendment.amended = None /\ amendment.id = old.id
    BY <2>1 DEF Games, Amendment, Amendments
  <2>3. game.id = old.id /\ game.captures = old.captures /\ game.tipoff = old.tipoff
    BY <2>1 DEF Games
  <2>4. Known(games, references, Append(acc.amendments, amendment), n, old)
    BY <1>2, <1>3, <2>2, KnownStays
  <2> HIDE DEF next, old, game, amendment
  <2>5. Removes(Append(acc.amendments, amendment), game.id)
    BY <1>2, <2>2, <2>3, RemovesAppended
  <2>6. Known(games, references, Append(acc.amendments, amendment), n, game)
    BY <2>3, <2>4, <2>5 DEF Known
  <2>7. next \in Accumulations /\ Len(next.games) = Len(acc.games)
        /\ next.amendments = Append(acc.amendments, amendment)
    BY <1>2, <1>5, <2>2, ReplacedGame, Appended DEF Accumulations
  <2>8. \A k \in 1..Len(acc.games) : next.games[k] = IF k = n THEN game ELSE acc.games[k]
    BY <1>2, <1>5, <2>2, ReplacedGame
  <2>9. \A k \in 1..Len(next.games) : Known(games, references, next.amendments, k, next.games[k])
    BY <1>2, <1>3, <2>2, <2>6, <2>7, <2>8, KnownStays
  <2>10. Accumulated(games, references, next)
    BY <1>3, <2>7, <2>9 DEF Accumulated
  <2> QED BY <2>7, <2>10 DEF next
<1> QED BY <1>1, <1>4, <1>5

\* What the recursions put at m, if f is what they put before it.
ReferenceStep(games, references, f, m) ==
  IF m = 0 THEN [games |-> games, amendments |-> <<>>]
  ELSE ReconcileGame(games, f[m - 1], references[m])
RemovalStep(seen, first, reconciled, f, m) ==
  IF m = 0 THEN reconciled ELSE RemoveUnseen(seen, first, f[m - 1], m)

\* The recursion over the references defines the accumulation after each of them.
LEMMA AfterReferencesExists ==
  ASSUME NEW games, NEW references, NEW n \in Nat
  PROVE  \E f : f = [m \in 0..n |-> ReferenceStep(games, references, f, m)]
<1> DEFINE Step(f, m) == ReferenceStep(games, references, f, m)
           Exists(l) == \E f : f = [m \in 0..l |-> Step(f, m)]
           Missing == {l \in Nat : ~Exists(l)}
<1> SUFFICES ASSUME ~Exists(n) PROVE FALSE
  OBVIOUS
<1>1. PICK l \in Missing : \A k \in Missing : l <= k
  <2>1. Missing \in SUBSET Nat /\ Missing # {}
    OBVIOUS
  <2> HIDE DEF Missing
  <2> QED BY <2>1, LeastNatural
<1>2. l # 0
  <2>1. Exists(0)
    <3> DEFINE f == [m \in 0..0 |-> [games |-> games, amendments |-> <<>>]]
    <3>1. f = [m \in 0..0 |-> Step(f, m)]
      BY DEF ReferenceStep
    <3> QED BY <3>1
  <2> QED BY <2>1
<1>3. l \in Nat /\ l - 1 \in Nat /\ ~(l <= l - 1) /\ ~Exists(l)
  BY <1>2
<1>4. Exists(l - 1)
  <2> HIDE DEF Exists
  <2> QED BY <1>1, <1>3
<1>5. PICK f : f = [m \in 0..(l - 1) |-> Step(f, m)]
  BY <1>4
<1> DEFINE g == [m \in 0..l |-> IF m < l THEN f[m] ELSE Step(f, l)]
<1>6. ASSUME NEW m \in 0..l PROVE g[m] = Step(g, m)
  <2>1. m # 0 => m - 1 \in 0..l /\ m - 1 < l /\ g[m - 1] = f[m - 1]
    BY <1>3
  <2>2. Step(f, m) = Step(g, m)
    <3> HIDE DEF g
    <3> QED BY <2>1 DEF ReferenceStep
  <2>3. g[m] = Step(f, m)
    <3>1. CASE m < l
      <4>1. m \in 0..(l - 1) /\ g[m] = f[m]
        BY <1>3, <3>1
      <4> HIDE DEF Step, g
      <4> QED BY <1>5, <4>1
    <3>2. CASE m = l
      BY <1>3, <3>2
    <3> QED BY <1>3, <3>1, <3>2
  <2> QED BY <2>2, <2>3
<1>7. g = [m \in 0..l |-> Step(g, m)]
  <2>1. g = [m \in 0..l |-> g[m]]
    OBVIOUS
  <2> HIDE DEF g, Step
  <2> QED BY <1>6, <2>1
<1> QED BY <1>3, <1>7

LEMMA AfterReferencesUnfold ==
  ASSUME NEW games, NEW references, Len(references) \in Nat, NEW n \in 0..Len(references)
  PROVE  AfterReferences(games, references)[n] =
           IF n = 0 THEN [games |-> games, amendments |-> <<>>]
           ELSE ReconcileGame(games, AfterReferences(games, references)[n - 1], references[n])
<1> DEFINE Step(f, m) == ReferenceStep(games, references, f, m)
           after == AfterReferences(games, references)
<1>1. after = CHOOSE f : f = [m \in 0..Len(references) |-> Step(f, m)]
  BY DEF ReferenceStep, AfterReferences
<1>2. \E f : f = [m \in 0..Len(references) |-> Step(f, m)]
  BY AfterReferencesExists
<1>3. after = [m \in 0..Len(references) |-> Step(after, m)]
  <2> HIDE DEF Step, after
  <2> QED BY <1>1, <1>2
<1>4. after[n] = Step(after, n)
  <2> HIDE DEF Step, after
  <2> QED BY <1>3
<1> QED BY <1>4 DEF ReferenceStep

LEMMA AfterReferencesKeeps ==
  ASSUME NEW games \in Seq(Games), NEW references \in References, NEW n \in 0..Len(references)
  PROVE  Accumulated(games, references, AfterReferences(games, references)[n])
<1> DEFINE after == AfterReferences(games, references)
           Bad == {m \in 0..Len(references) : ~Accumulated(games, references, after[m])}
<1>0. Len(references) \in Nat
  BY DEF References
<1> SUFFICES ASSUME Bad # {} PROVE FALSE
  OBVIOUS
<1>1. PICK m \in Bad : \A k \in Bad : m <= k
  <2>1. Bad \in SUBSET Nat
    BY <1>0
  <2> HIDE DEF Bad
  <2> QED BY <2>1, LeastNatural
<1>2. m \in 0..Len(references) /\ ~Accumulated(games, references, after[m])
  OBVIOUS
<1>3. CASE m = 0
  <2>1. after[0] = [games |-> games, amendments |-> <<>>]
    BY <1>0, <1>2, <1>3, AfterReferencesUnfold
  <2> HIDE DEF after
  <2>2. after[0] \in Accumulations /\ after[0].games = games
    BY <2>1 DEF Accumulations
  <2>3. \A k \in 1..Len(games) : Known(games, references, after[0].amendments, k, games[k])
    BY DEF Known
  <2> QED BY <1>2, <1>3, <2>2, <2>3 DEF Accumulated
<1>4. CASE m # 0
  <2>1. m - 1 \in 0..Len(references) /\ m \in 1..Len(references) /\ ~(m <= m - 1)
    BY <1>0, <1>2, <1>4
  <2>2. Accumulated(games, references, after[m - 1])
    BY <1>1, <2>1
  <2>3. after[m] = ReconcileGame(games, after[m - 1], references[m])
    BY <1>0, <1>2, <1>4, AfterReferencesUnfold
  <2> HIDE DEF after
  <2> QED BY <1>2, <2>1, <2>2, <2>3, ReconcileGameKeeps
<1> QED BY <1>3, <1>4

LEMMA AfterRemovalsExists ==
  ASSUME NEW seen, NEW first, NEW reconciled, NEW n \in Nat
  PROVE  \E f : f = [m \in 0..n |-> RemovalStep(seen, first, reconciled, f, m)]
<1> DEFINE Step(f, m) == RemovalStep(seen, first, reconciled, f, m)
           Exists(l) == \E f : f = [m \in 0..l |-> Step(f, m)]
           Missing == {l \in Nat : ~Exists(l)}
<1> SUFFICES ASSUME ~Exists(n) PROVE FALSE
  OBVIOUS
<1>1. PICK l \in Missing : \A k \in Missing : l <= k
  <2>1. Missing \in SUBSET Nat /\ Missing # {}
    OBVIOUS
  <2> HIDE DEF Missing
  <2> QED BY <2>1, LeastNatural
<1>2. l # 0
  <2>1. Exists(0)
    <3> DEFINE f == [m \in 0..0 |-> reconciled]
    <3>1. f = [m \in 0..0 |-> Step(f, m)]
      BY DEF RemovalStep
    <3> QED BY <3>1
  <2> QED BY <2>1
<1>3. l \in Nat /\ l - 1 \in Nat /\ ~(l <= l - 1) /\ ~Exists(l)
  BY <1>2
<1>4. Exists(l - 1)
  <2> HIDE DEF Exists
  <2> QED BY <1>1, <1>3
<1>5. PICK f : f = [m \in 0..(l - 1) |-> Step(f, m)]
  BY <1>4
<1> DEFINE g == [m \in 0..l |-> IF m < l THEN f[m] ELSE Step(f, l)]
<1>6. ASSUME NEW m \in 0..l PROVE g[m] = Step(g, m)
  <2>1. m # 0 => m - 1 \in 0..l /\ m - 1 < l /\ g[m - 1] = f[m - 1]
    BY <1>3
  <2>2. Step(f, m) = Step(g, m)
    <3> HIDE DEF g
    <3> QED BY <2>1 DEF RemovalStep
  <2>3. g[m] = Step(f, m)
    <3>1. CASE m < l
      <4>1. m \in 0..(l - 1) /\ g[m] = f[m]
        BY <1>3, <3>1
      <4> HIDE DEF Step, g
      <4> QED BY <1>5, <4>1
    <3>2. CASE m = l
      BY <1>3, <3>2
    <3> QED BY <1>3, <3>1, <3>2
  <2> QED BY <2>2, <2>3
<1>7. g = [m \in 0..l |-> Step(g, m)]
  <2>1. g = [m \in 0..l |-> g[m]]
    OBVIOUS
  <2> HIDE DEF g, Step
  <2> QED BY <1>6, <2>1
<1> QED BY <1>3, <1>7

LEMMA AfterRemovalsUnfold ==
  ASSUME NEW seen, NEW first, NEW reconciled, Len(reconciled.games) \in Nat,
         NEW n \in 0..Len(reconciled.games)
  PROVE  AfterRemovals(seen, first, reconciled)[n] =
           IF n = 0 THEN reconciled
           ELSE RemoveUnseen(seen, first, AfterRemovals(seen, first, reconciled)[n - 1], n)
<1> DEFINE Step(f, m) == RemovalStep(seen, first, reconciled, f, m)
           after == AfterRemovals(seen, first, reconciled)
<1>1. after = CHOOSE f : f = [m \in 0..Len(reconciled.games) |-> Step(f, m)]
  BY DEF RemovalStep, AfterRemovals
<1>2. \E f : f = [m \in 0..Len(reconciled.games) |-> Step(f, m)]
  BY AfterRemovalsExists
<1>3. after = [m \in 0..Len(reconciled.games) |-> Step(after, m)]
  <2> HIDE DEF Step, after
  <2> QED BY <1>1, <1>2
<1>4. after[n] = Step(after, n)
  <2> HIDE DEF Step, after
  <2> QED BY <1>3
<1> QED BY <1>4 DEF RemovalStep

LEMMA AfterRemovalsKeeps ==
  ASSUME NEW games \in Seq(Games), NEW references \in References, NEW seen, NEW first,
         NEW reconciled, Accumulated(games, references, reconciled),
         NEW n \in 0..Len(reconciled.games)
  PROVE  Accumulated(games, references, AfterRemovals(seen, first, reconciled)[n])
<1> DEFINE after == AfterRemovals(seen, first, reconciled)
           Good(m) == /\ Accumulated(games, references, after[m])
                      /\ Len(after[m].games) = Len(reconciled.games)
           Bad == {m \in 0..Len(reconciled.games) : ~Good(m)}
<1>0. Len(reconciled.games) \in Nat
  BY DEF Accumulated, Accumulations
<1> SUFFICES ASSUME Bad # {} PROVE FALSE
  OBVIOUS
<1>1. PICK m \in Bad : \A k \in Bad : m <= k
  <2>1. Bad \in SUBSET Nat
    BY <1>0
  <2> HIDE DEF Bad
  <2> QED BY <2>1, LeastNatural
<1>2. m \in 0..Len(reconciled.games) /\ ~Good(m)
  OBVIOUS
<1>3. CASE m = 0
  <2>1. after[0] = reconciled
    BY <1>0, <1>2, <1>3, AfterRemovalsUnfold
  <2> HIDE DEF after
  <2> QED BY <1>2, <1>3, <2>1
<1>4. CASE m # 0
  <2>1. m - 1 \in 0..Len(reconciled.games) /\ m \in 1..Len(reconciled.games) /\ ~(m <= m - 1)
    BY <1>0, <1>2, <1>4
  <2>2. Good(m - 1)
    BY <1>1, <2>1
  <2>3. after[m] = RemoveUnseen(seen, first, after[m - 1], m)
    BY <1>0, <1>2, <1>4, AfterRemovalsUnfold
  <2> HIDE DEF after
  <2> QED BY <1>2, <2>1, <2>2, <2>3, RemoveUnseenKeeps
<1> QED BY <1>3, <1>4

\* What _reconcile makes of an index and the references of a poll.
LEMMA ReconciledKeeps ==
  ASSUME NEW games \in Seq(Games), NEW references \in References, NEW first
  PROVE  Accumulated(games, references, Reconciled(games, references, first))
<1> DEFINE reconciled == AfterReferences(games, references)[Len(references)]
           seen == {references[i].id : i \in DOMAIN references}
<1>1. Len(references) \in 0..Len(references)
  BY DEF References
<1>2. Accumulated(games, references, reconciled)
  BY <1>1, AfterReferencesKeeps
<1>3. Len(reconciled.games) \in 0..Len(reconciled.games)
  BY <1>2 DEF Accumulated, Accumulations
<1>4. Reconciled(games, references, first) =
        AfterRemovals(seen, first, reconciled)[Len(reconciled.games)]
  BY DEF Reconciled
<1> HIDE DEF reconciled, seen
<1> QED BY <1>2, <1>3, <1>4, AfterRemovalsKeeps

-----------------------------------------------------------------------------
(* A chain that is one event longer.                                       *)

LEMMA OnLonger ==
  ASSUME NEW lines \in Seq(Events), NEW event \in Events
  PROVE  LET longer == Append(lines, event) IN
         /\ \A date : PolledOn(lines, date) => PolledOn(longer, date)
         /\ \A id, tipoff : ListedOn(lines, id, tipoff) => ListedOn(longer, id, tipoff)
         /\ \A id, cutoff : CapturedOn(lines, id, cutoff) => CapturedOn(longer, id, cutoff)
         /\ \A id : RemovedOn(lines, id) => RemovedOn(longer, id)
<1>1. \A i \in DOMAIN lines :
        i \in DOMAIN Append(lines, event) /\ Append(lines, event)[i] = lines[i]
  BY Appended
<1>2. \A date : PolledOn(lines, date) => PolledOn(Append(lines, event), date)
  BY <1>1 DEF PolledOn
<1>3. \A id, tipoff : ListedOn(lines, id, tipoff) => ListedOn(Append(lines, event), id, tipoff)
  BY <1>1 DEF ListedOn
<1>4. \A id, cutoff : CapturedOn(lines, id, cutoff) => CapturedOn(Append(lines, event), id, cutoff)
  BY <1>1 DEF CapturedOn
<1>5. \A id : RemovedOn(lines, id) => RemovedOn(Append(lines, event), id)
  BY <1>1 DEF RemovedOn
<1> QED BY <1>2, <1>3, <1>4, <1>5

LEMMA LastOnLonger ==
  ASSUME NEW lines \in Seq(Events), NEW event \in Events
  PROVE  LET longer == Append(lines, event) IN
         /\ event.type = "schedule_poll" =>
              /\ PolledOn(longer, event.payload.date)
              /\ \A id, tipoff :
                   Lists(event.payload.games, id, tipoff) => ListedOn(longer, id, tipoff)
         /\ event.type = "capture" =>
              CapturedOn(longer, event.payload.id, event.payload.cutoffType)
         /\ event.type = "schedule_amendment" /\ event.payload.amended = None =>
              RemovedOn(longer, event.payload.id)
<1>1. /\ Len(lines) + 1 \in DOMAIN Append(lines, event)
      /\ Append(lines, event)[Len(lines) + 1] = event
  BY Appended
<1> QED BY <1>1 DEF PolledOn, ListedOn, CapturedOn, RemovedOn

LEMMA GameOnLonger ==
  ASSUME NEW lines \in Seq(Events), NEW event \in Events, NEW game, GameOn(lines, game)
  PROVE  GameOn(Append(lines, event), game)
BY OnLonger DEF GameOn

LEMMA IndexOnLonger ==
  ASSUME NEW lines \in Seq(Events), NEW event \in Events, NEW index, IndexOn(lines, index)
  PROVE  IndexOn(Append(lines, event), index)
BY OnLonger, GameOnLonger DEF IndexOn

LEMMA SidecarsOnLonger ==
  ASSUME NEW lines \in Seq(Events), NEW event \in Events, NEW stored, SidecarsOn(lines, stored)
  PROVE  SidecarsOn(Append(lines, event), stored)
<1>1. \A i \in DOMAIN lines :
        i \in DOMAIN Append(lines, event) /\ Append(lines, event)[i] = lines[i]
  BY Appended
<1> QED BY <1>1 DEF SidecarsOn

\* Captures stay behind the polls that listed them; a new one is of a game already listed.
LEMMA CapturesOnLonger ==
  ASSUME NEW lines \in Seq(Events), NEW event \in Events, CapturesOn(lines),
         event.type = "capture" => ListedOn(lines, event.payload.id, event.payload.tipoff)
  PROVE  CapturesOn(Append(lines, event))
<1> DEFINE longer == Append(lines, event)
<1>1. /\ Len(lines) \in Nat /\ DOMAIN lines = 1..Len(lines)
      /\ DOMAIN longer = 1..(Len(lines) + 1) /\ longer[Len(lines) + 1] = event
      /\ \A i \in 1..Len(lines) : longer[i] = lines[i]
  BY Appended
<1> HIDE DEF longer
<1> SUFFICES ASSUME NEW i \in DOMAIN longer, longer[i].type = "capture"
             PROVE  \E k \in DOMAIN longer :
                      /\ longer[k].type = "schedule_poll" /\ k < i
                      /\ Lists(longer[k].payload.games, longer[i].payload.id, longer[i].payload.tipoff)
  BY DEF CapturesOn, longer
<1>2. CASE i = Len(lines) + 1
  <2>1. PICK k \in DOMAIN lines :
          /\ lines[k].type = "schedule_poll"
          /\ Lists(lines[k].payload.games, event.payload.id, event.payload.tipoff)
    BY <1>1, <1>2 DEF ListedOn
  <2> QED BY <1>1, <1>2, <2>1
<1>3. CASE i # Len(lines) + 1
  <2>1. i \in DOMAIN lines /\ longer[i] = lines[i]
    BY <1>1, <1>3
  <2>2. PICK k \in DOMAIN lines :
          /\ lines[k].type = "schedule_poll" /\ k < i
          /\ Lists(lines[k].payload.games, lines[i].payload.id, lines[i].payload.tipoff)
    BY <2>1 DEF CapturesOn
  <2> QED BY <1>1, <2>1, <2>2
<1> QED BY <1>2, <1>3

-----------------------------------------------------------------------------
(* A file that is written.                                                 *)

\* The kind of a file, and whose sidecar it is, can be told from its name.
LEMMA Kinds ==
  /\ \A polled, day : PollFile(polled, day)[1] = "poll"
  /\ \A date, id, cutoff, at : ReportFile(date, id, cutoff, at)[1] = "report"
  /\ \A date, id, cutoff : ScoreboardFile(date, id, cutoff)[1] = "scoreboard"
  /\ \A date, id, cutoff :
       /\ SidecarFile(date, id, cutoff)[1] = "sidecar"
       /\ SidecarFile(date, id, cutoff)[2] = date
       /\ SidecarFile(date, id, cutoff)[3] = id
       /\ SidecarFile(date, id, cutoff)[4] = cutoff
BY DEF PollFile, ReportFile, ScoreboardFile, SidecarFile

LEMMA Named ==
  /\ \A polled, day \in Days : PollFile(polled, day) \in FileNames
  /\ \A date \in Dates, id \in GameIds, cutoff \in CutoffNames :
       /\ \A at \in ReportTimes : ReportFile(date, id, cutoff, at) \in FileNames
       /\ ScoreboardFile(date, id, cutoff) \in FileNames
       /\ SidecarFile(date, id, cutoff) \in FileNames
BY DEF FileNames

LEMMA Stored ==
  ASSUME NEW stored, NEW contents, stored \in [FileNames -> contents], NEW name, NEW file
  PROVE  \A other \in FileNames :
           [stored EXCEPT ![name] = file][other] = IF other = name THEN file ELSE stored[other]
OBVIOUS

LEMMA AllContents ==
  /\ FilesOf(References) \subseteq FilesOf(References \cup Nat \cup Sidecars)
  /\ Fetched \subseteq FilesOf(References \cup Nat \cup Sidecars)
  /\ FilesOf(Sidecars) \subseteq FilesOf(References \cup Nat \cup Sidecars)
BY FilesOfLarger DEF Fetched

LEMMA PollFileWritten ==
  ASSUME NEW stored, FilesTyped(stored), NEW polled, NEW day, NEW file \in FilesOf(References),
         NEW lines, SidecarsOn(lines, stored)
  PROVE  LET next == [stored EXCEPT ![PollFile(polled, day)] = file]
         IN FilesTyped(next) /\ SidecarsOn(lines, next)
<1> DEFINE next == [stored EXCEPT ![PollFile(polled, day)] = file]
<1>1. \A other \in FileNames :
        next[other] = IF other = PollFile(polled, day) THEN file ELSE stored[other]
  BY Stored DEF FilesTyped
<1>2. next \in [FileNames -> FilesOf(References \cup Nat \cup Sidecars)]
  BY AllContents DEF FilesTyped
<1> HIDE DEF next
<1>3. \A p, d \in Days : next[PollFile(p, d)] \in FilesOf(References)
  BY <1>1, Named DEF FilesTyped
<1>4. \A date \in Dates, id \in GameIds, cutoff \in CutoffNames :
        /\ \A at \in ReportTimes :
             next[ReportFile(date, id, cutoff, at)] = stored[ReportFile(date, id, cutoff, at)]
        /\ next[ScoreboardFile(date, id, cutoff)] = stored[ScoreboardFile(date, id, cutoff)]
        /\ next[SidecarFile(date, id, cutoff)] = stored[SidecarFile(date, id, cutoff)]
  BY <1>1, Named, Kinds
<1>5. FilesTyped(next)
  BY <1>2, <1>3, <1>4 DEF FilesTyped
<1>6. SidecarsOn(lines, next)
  BY <1>4 DEF SidecarsOn
<1> QED BY <1>5, <1>6 DEF next

LEMMA ReportFileWritten ==
  ASSUME NEW stored, FilesTyped(stored), NEW d, NEW i, NEW c, NEW a, NEW file \in Fetched,
         NEW lines, SidecarsOn(lines, stored)
  PROVE  LET next == [stored EXCEPT ![ReportFile(d, i, c, a)] = file]
         IN FilesTyped(next) /\ SidecarsOn(lines, next)
<1> DEFINE next == [stored EXCEPT ![ReportFile(d, i, c, a)] = file]
<1>1. \A other \in FileNames :
        next[other] = IF other = ReportFile(d, i, c, a) THEN file ELSE stored[other]
  BY Stored DEF FilesTyped
<1>2. next \in [FileNames -> FilesOf(References \cup Nat \cup Sidecars)]
  BY AllContents DEF FilesTyped
<1> HIDE DEF next
<1>3. \A polled, day \in Days : next[PollFile(polled, day)] \in FilesOf(References)
  BY <1>1, Named, Kinds DEF FilesTyped
<1>4. \A date \in Dates, id \in GameIds, cutoff \in CutoffNames :
        /\ \A at \in ReportTimes : next[ReportFile(date, id, cutoff, at)] \in Fetched
        /\ next[ScoreboardFile(date, id, cutoff)] = stored[ScoreboardFile(date, id, cutoff)]
        /\ next[SidecarFile(date, id, cutoff)] = stored[SidecarFile(date, id, cutoff)]
  BY <1>1, Named, Kinds DEF FilesTyped
<1>5. FilesTyped(next)
  BY <1>2, <1>3, <1>4 DEF FilesTyped
<1>6. SidecarsOn(lines, next)
  BY <1>4 DEF SidecarsOn
<1> QED BY <1>5, <1>6 DEF next

LEMMA ScoreboardFileWritten ==
  ASSUME NEW stored, FilesTyped(stored), NEW d, NEW i, NEW c, NEW file \in Fetched,
         NEW lines, SidecarsOn(lines, stored)
  PROVE  LET next == [stored EXCEPT ![ScoreboardFile(d, i, c)] = file]
         IN FilesTyped(next) /\ SidecarsOn(lines, next)
<1> DEFINE next == [stored EXCEPT ![ScoreboardFile(d, i, c)] = file]
<1>1. \A other \in FileNames :
        next[other] = IF other = ScoreboardFile(d, i, c) THEN file ELSE stored[other]
  BY Stored DEF FilesTyped
<1>2. next \in [FileNames -> FilesOf(References \cup Nat \cup Sidecars)]
  BY AllContents DEF FilesTyped
<1> HIDE DEF next
<1>3. \A polled, day \in Days : next[PollFile(polled, day)] \in FilesOf(References)
  BY <1>1, Named, Kinds DEF FilesTyped
<1>4. \A date \in Dates, id \in GameIds, cutoff \in CutoffNames :
        /\ \A at \in ReportTimes : next[ReportFile(date, id, cutoff, at)] \in Fetched
        /\ next[ScoreboardFile(date, id, cutoff)] \in Fetched
        /\ next[SidecarFile(date, id, cutoff)] = stored[SidecarFile(date, id, cutoff)]
  BY <1>1, Named, Kinds DEF FilesTyped
<1>5. FilesTyped(next)
  BY <1>2, <1>3, <1>4 DEF FilesTyped
<1>6. SidecarsOn(lines, next)
  BY <1>4 DEF SidecarsOn
<1> QED BY <1>5, <1>6 DEF next

\* A sidecar is left unfinished, or holds the payload and the line of a capture event.
LEMMA SidecarFileWritten ==
  ASSUME NEW stored, FilesTyped(stored), NEW d, NEW i, NEW c, NEW file \in FilesOf(Sidecars),
         NEW lines, SidecarsOn(lines, stored),
         file.state = "whole" =>
           /\ file.content.line \in DOMAIN lines
           /\ lines[file.content.line].type = "capture"
           /\ lines[file.content.line].payload = file.content.payload
           /\ file.content.payload.date = d /\ file.content.payload.id = i
           /\ file.content.payload.cutoffType = c
  PROVE  LET next == [stored EXCEPT ![SidecarFile(d, i, c)] = file]
         IN FilesTyped(next) /\ SidecarsOn(lines, next)
<1> DEFINE next == [stored EXCEPT ![SidecarFile(d, i, c)] = file]
<1>1. \A other \in FileNames :
        next[other] = IF other = SidecarFile(d, i, c) THEN file ELSE stored[other]
  BY Stored DEF FilesTyped
<1>2. next \in [FileNames -> FilesOf(References \cup Nat \cup Sidecars)]
  BY AllContents DEF FilesTyped
<1> HIDE DEF next
<1>3. \A polled, day \in Days : next[PollFile(polled, day)] \in FilesOf(References)
  BY <1>1, Named, Kinds DEF FilesTyped
<1>4. \A date \in Dates, id \in GameIds, cutoff \in CutoffNames :
        /\ \A at \in ReportTimes : next[ReportFile(date, id, cutoff, at)] \in Fetched
        /\ next[ScoreboardFile(date, id, cutoff)] \in Fetched
        /\ next[SidecarFile(date, id, cutoff)] \in FilesOf(Sidecars)
  BY <1>1, Named, Kinds DEF FilesTyped
<1>5. FilesTyped(next)
  BY <1>2, <1>3, <1>4 DEF FilesTyped
<1>6. ASSUME NEW date \in Dates, NEW id \in GameIds, NEW cutoff \in CutoffNames
      PROVE  \/ next[SidecarFile(date, id, cutoff)] = stored[SidecarFile(date, id, cutoff)]
             \/ /\ next[SidecarFile(date, id, cutoff)] = file
                /\ date = d /\ id = i /\ cutoff = c
  BY <1>1, Named, Kinds
<1>7. SidecarsOn(lines, next)
  BY <1>6 DEF SidecarsOn
<1> QED BY <1>5, <1>7 DEF next

-----------------------------------------------------------------------------
(* The steps outside an invocation, and those that begin and end one.      *)

LEMMA ExtendsItself ==
  ASSUME NEW games \in Seq(Games)
  PROVE  Extends(games, games)
<1>1. Len(games) \in Nat
  OBVIOUS
<1> QED BY <1>1 DEF Extends

LEMMA ZeroRun == EmptyState \in Indexes /\ NoRun \in Runs
<1>1. EmptyState \in Indexes
  BY DEF EmptyState, Indexes
<1>2. 0 \in 0..MaxTime
  BY CollectorBoundsAssumption
<1> QED BY <1>1, <1>2 DEF NoRun, Runs, References, Items

\* The event of the capture in hand is made of the capture and the index.
LEMMA EventStays ==
  ASSUME run'.state = run.state, run'.capture = run.capture
  PROVE  CaptureEvent' = CaptureEvent
BY DEF CaptureEvent, CapturedGame, CapturedCutoff, CutoffOf

LEMMA InitKeeps == Init => CInv
<1> SUFFICES ASSUME Init PROVE CInv
  OBVIOUS
<1> USE DEF Init
<1>1. \A name \in FileNames : files[name] = Absent
  OBVIOUS
<1>2. FilesTyped(files)
  <2>1. files \in [FileNames -> FilesOf(References \cup Nat \cup Sidecars)]
    BY FileKinds
  <2> QED BY <1>1, <2>1, Named, FileKinds DEF FilesTyped, Fetched
<1>3. CollectorTypeOK
  BY <1>2, ZeroRun, CollectorBoundsAssumption DEF CollectorTypeOK, Polling, Capturing
<1>4. IndexOn(ledger, saved) /\ CapturesOn(ledger)
  BY DEF IndexOn, CapturesOn, EmptyState
<1>5. SidecarsOn(ledger, files)
  BY <1>1, Named, FileKinds DEF SidecarsOn
<1> QED BY <1>3, <1>4, <1>5
        DEF CInv, Recorded, PollsOnce, IndexGrows, DueIsOpen, CaptureIsLast, Polling, Capturing, Chained

LEMMA OutsideKeeps ==
  ASSUME CInv, UNCHANGED <<files, ledger, saved, pc, run>>,
         clock' \in 0..MaxTime, listed' \in [GameIds -> Tipoffs \cup {None}]
  PROVE  CInv'
<1>1. CaptureEvent' = CaptureEvent
  BY EventStays
<1>2. CollectorTypeOK'
  BY DEF CInv, CollectorTypeOK
<1>3. Recorded' /\ PollsOnce' /\ IndexGrows' /\ DueIsOpen'
  BY DEF CInv, Recorded, PollsOnce, IndexGrows, DueIsOpen
<1>4. CaptureIsLast'
  BY <1>1 DEF CInv, CaptureIsLast
<1> QED BY <1>2, <1>3, <1>4 DEF CInv

LEMMA TickKeeps == CInv /\ Tick => CInv'
<1> SUFFICES ASSUME CInv, Tick PROVE CInv'
  OBVIOUS
<1>1. clock \in 0..MaxTime /\ MaxTime \in Nat
  BY CollectorBoundsAssumption DEF CInv, CollectorTypeOK
<1> QED BY <1>1, OutsideKeeps DEF Tick, CInv, CollectorTypeOK

LEMMA ChangeScheduleKeeps == CInv /\ ChangeSchedule => CInv'
<1> SUFFICES ASSUME CInv, ChangeSchedule PROVE CInv'
  OBVIOUS
<1>1. listed' \in [GameIds -> Tipoffs \cup {None}]
  BY DEF ChangeSchedule, CInv, CollectorTypeOK
<1> QED BY <1>1, OutsideKeeps DEF ChangeSchedule, CInv, CollectorTypeOK

LEMMA StutterKeeps == CInv /\ UNCHANGED vars => CInv'
BY OutsideKeeps DEF vars, CInv, CollectorTypeOK

\* However an invocation ends, what it held in memory is gone.
LEMMA EndKeeps ==
  ASSUME CInv, End, UNCHANGED <<World, files, ledger>>,
         saved' \in Indexes, IndexOn(ledger, saved')
  PROVE  CInv'
<1>1. pc' = "idle" /\ run' = NoRun /\ clock' = clock /\ listed' = listed
  BY DEF End, World
<1>2. CollectorTypeOK'
  BY <1>1, ZeroRun DEF CInv, CollectorTypeOK, Polling, Capturing
<1>3. Recorded'
  BY DEF CInv, Recorded
<1> QED BY <1>1, <1>2, <1>3
        DEF CInv, PollsOnce, IndexGrows, DueIsOpen, CaptureIsLast, Polling, Capturing, Chained

LEMMA CrashKeeps == CInv /\ Crash => CInv'
<1> SUFFICES ASSUME CInv, Crash PROVE CInv'
  OBVIOUS
<1>1. saved' \in Indexes /\ IndexOn(ledger, saved')
  BY DEF Crash, CInv, CollectorTypeOK, Recorded
<1> QED BY <1>1, EndKeeps DEF Crash

LEMMA SaveStateKeeps == CInv /\ SaveState => CInv'
<1> SUFFICES ASSUME CInv, SaveState PROVE CInv'
  OBVIOUS
<1>1. run.state \in Indexes
  BY DEF CInv, CollectorTypeOK, Runs
<1>2. IndexOn(ledger, run.state)
  BY DEF SaveState, CInv, IndexGrows, Chained
<1> QED BY <1>1, <1>2, EndKeeps DEF SaveState

LEMMA BeginKeeps == CInv /\ Begin => CInv'
<1> SUFFICES ASSUME CInv, Begin PROVE CInv'
  OBVIOUS
<1>1. /\ pc' = IF saved.lastPoll = Day(clock) THEN "due" ELSE "poll"
      /\ UNCHANGED <<clock, listed, files, ledger, saved>>
  BY DEF Begin, World
<1>2. saved \in Indexes /\ saved.games \in Seq(Games) /\ clock \in 0..MaxTime
  BY DEF CInv, CollectorTypeOK, Indexes
<1>3. run' \in Runs /\ run'.state = saved /\ run'.now = clock
  BY <1>2, ZeroRun DEF Begin, Runs
<1>4. CollectorTypeOK'
  BY <1>1, <1>3 DEF CInv, CollectorTypeOK, Polling, Capturing, Chained
<1>5. Recorded'
  BY <1>1 DEF CInv, Recorded
<1>6. PollsOnce'
  BY <1>1, <1>3 DEF PollsOnce, Polling
<1>7. IndexGrows'
  BY <1>1, <1>2, <1>3, ExtendsItself DEF CInv, Recorded, IndexGrows
<1>8. DueIsOpen' /\ CaptureIsLast'
  BY <1>1 DEF DueIsOpen, CaptureIsLast, Capturing
<1> QED BY <1>4, <1>5, <1>6, <1>7, <1>8 DEF CInv

-----------------------------------------------------------------------------
(* Polling.                                                                *)

LEMMA PollIsNamed ==
  ASSUME CInv, pc \in Polling, run.offset < POLL_HORIZON_DAYS
  PROVE  files[PollName] \in FilesOf(References)
<1>1. run.now \in 0..MaxTime /\ run.offset \in Nat
  BY DEF CInv, CollectorTypeOK, Runs
<1>2. MaxTime \in Nat /\ POLL_HORIZON_DAYS \in Nat
  BY CollectorBoundsAssumption, TimesAssumption
<1>3. Day(run.now) \in Nat /\ Day(MaxTime) \in Nat /\ Day(run.now) <= Day(MaxTime)
  BY <1>1, <1>2, DayMonotone
<1>4. Days = 0..(Day(MaxTime) + POLL_HORIZON_DAYS)
  BY DEF Days, Day
<1>5. Day(run.now) \in Days /\ Day(run.now) + run.offset \in Days
  BY <1>1, <1>2, <1>3, <1>4
<1> QED BY <1>5 DEF PollName, CInv, CollectorTypeOK, FilesTyped

LEMMA ConcatenatedReferences ==
  ASSUME NEW s \in References, NEW t \in References
  PROVE  s \o t \in References
BY DEF References

\* A step of the polling loop, which ends in the loop or at the write of a document.
LEMMA PollStepKeeps ==
  ASSUME CInv, pc \in Polling, pc' \in Polling, UNCHANGED <<World, ledger, saved>>,
         FilesTyped(files'), SidecarsOn(ledger, files'),
         run' \in Runs, run'.state = run.state, run'.now = run.now,
         pc' = "pollWrite" => run'.held \in References /\ run'.offset < POLL_HORIZON_DAYS
  PROVE  CInv'
<1>1. UNCHANGED <<clock, listed, ledger, saved>>
  BY DEF World
<1>2. CollectorTypeOK'
  BY <1>1 DEF CInv, CollectorTypeOK, Polling, Capturing
<1>3. Recorded'
  BY <1>1 DEF CInv, Recorded
<1>4. PollsOnce' /\ IndexGrows'
  BY <1>1 DEF CInv, PollsOnce, IndexGrows, Polling, Capturing, Chained
<1>5. DueIsOpen' /\ CaptureIsLast'
  BY DEF DueIsOpen, CaptureIsLast, Polling, Capturing
<1> QED BY <1>2, <1>3, <1>4, <1>5 DEF CInv

LEMMA ReusePollKeeps == CInv /\ ReusePoll => CInv'
<1> SUFFICES ASSUME CInv, ReusePoll PROVE CInv'
  OBVIOUS
<1>1. pc = "poll" /\ run.offset < POLL_HORIZON_DAYS /\ UNCHANGED <<World, files, ledger, saved>>
  BY DEF ReusePoll
<1>2. run \in Runs /\ saved \in Indexes /\ FilesTyped(files)
  BY DEF CInv, CollectorTypeOK
<1>3. CASE End
  BY <1>1, <1>2, <1>3, EndKeeps DEF CInv, Recorded
<1>4. CASE /\ files[PollName].state = "whole"
           /\ run' = [run EXCEPT !.references = @ \o files[PollName].content, !.offset = @ + 1]
           /\ UNCHANGED pc
  <2>1. files[PollName].content \in References
    BY <1>1, <1>4, PollIsNamed, WholeFile DEF Polling
  <2>2. run.references \o files[PollName].content \in References
    BY <1>2, <2>1, ConcatenatedReferences DEF Runs
  <2>3. PICK more \in References, n \in Nat : run' = [run EXCEPT !.references = more, !.offset = n]
    <3>1. run.offset \in Nat /\ run.offset + 1 \in Nat
      BY <1>2 DEF Runs
    <3> QED BY <1>4, <2>2, <3>1
  <2>4. run' \in Runs /\ run'.state = run.state /\ run'.now = run.now
    BY <1>2, <2>3 DEF Runs
  <2>5. FilesTyped(files') /\ SidecarsOn(ledger, files')
    BY <1>1 DEF CInv, CollectorTypeOK, Recorded
  <2> QED BY <1>1, <1>4, <2>4, <2>5, PollStepKeeps DEF Polling
<1> QED BY <1>3, <1>4 DEF ReusePoll

LEMMA FetchPollKeeps == CInv /\ FetchPoll => CInv'
<1> SUFFICES ASSUME CInv, FetchPoll PROVE CInv'
  OBVIOUS
<1>1. /\ pc = "poll" /\ pc' = "pollWrite" /\ run.offset < POLL_HORIZON_DAYS
      /\ UNCHANGED <<World, ledger, saved>>
      /\ files' = [files EXCEPT ![PollName] = Partial]
      /\ run' = [run EXCEPT !.held = Scoreboard(Day(run.now) + run.offset)]
  BY DEF FetchPoll
<1>2. run \in Runs /\ listed \in [GameIds -> Tipoffs \cup {None}]
      /\ FilesTyped(files) /\ SidecarsOn(ledger, files)
  BY DEF CInv, CollectorTypeOK, Recorded
<1>3. Scoreboard(Day(run.now) + run.offset) \in References
  BY <1>2, ScoreboardType
<1>4. /\ run' \in Runs /\ run'.state = run.state /\ run'.now = run.now
      /\ run'.held \in References /\ run'.offset = run.offset
  BY <1>1, <1>2, <1>3 DEF Runs
<1>5. FilesTyped(files') /\ SidecarsOn(ledger, files')
  BY <1>1, <1>2, PollFileWritten, FileKinds DEF PollName
<1> QED BY <1>1, <1>4, <1>5, PollStepKeeps DEF Polling

LEMMA WritePollKeeps == CInv /\ WritePoll => CInv'
<1> SUFFICES ASSUME CInv, WritePoll PROVE CInv'
  OBVIOUS
<1>1. /\ pc = "pollWrite" /\ pc' = "poll" /\ UNCHANGED <<World, ledger, saved>>
      /\ files' = [files EXCEPT ![PollName] = Whole(run.held)]
      /\ run' = [run EXCEPT !.references = @ \o run.held, !.offset = @ + 1, !.held = None]
  BY DEF WritePoll
<1>2. run \in Runs /\ run.held \in References /\ FilesTyped(files) /\ SidecarsOn(ledger, files)
  BY <1>1 DEF CInv, CollectorTypeOK, Recorded
<1>3. run.references \o run.held \in References
  BY <1>2, ConcatenatedReferences DEF Runs
<1>4. PICK more \in References, n \in Nat :
        run' = [run EXCEPT !.references = more, !.offset = n, !.held = None]
  <2>1. run.offset \in Nat /\ run.offset + 1 \in Nat
    BY <1>2 DEF Runs
  <2> QED BY <1>1, <1>3, <2>1
<1>5. run' \in Runs /\ run'.state = run.state /\ run'.now = run.now
  BY <1>2, <1>4 DEF Runs
<1>6. FilesTyped(files') /\ SidecarsOn(ledger, files')
  BY <1>1, <1>2, PollFileWritten, FileKinds DEF PollName
<1> QED BY <1>1, <1>5, <1>6, PollStepKeeps DEF Polling

\* What was reconciled extends what was saved, and owes the chain what is in hand.
LEMMA AccumulatedExtends ==
  ASSUME NEW games \in Seq(Games), NEW references, NEW acc, Accumulated(games, references, acc)
  PROVE  Extends(games, acc.games)
<1>1. Len(games) \in Nat /\ Len(acc.games) \in Nat /\ Len(games) <= Len(acc.games)
  BY DEF Accumulated, Accumulations
<1>2. \A k \in 1..Len(acc.games) : Known(games, references, acc.amendments, k, acc.games[k])
  BY DEF Accumulated
<1>3. \A k \in 1..Len(games) :
        acc.games[k].id = games[k].id /\ games[k].captures \subseteq acc.games[k].captures
  BY <1>1, <1>2 DEF Known
<1>4. \A k \in (Len(games) + 1)..Len(acc.games), j \in 1..Len(games) :
        acc.games[k].id # games[j].id
  BY <1>1, <1>2 DEF Known
<1> QED BY <1>1, <1>3, <1>4 DEF Extends

LEMMA AccumulatedOwed ==
  ASSUME NEW index \in Indexes, NEW lines, IndexOn(lines, index), NEW references,
         NEW acc, Accumulated(index.games, references, acc), NEW k \in DOMAIN acc.games
  PROVE  GameOwed(lines, references, acc.amendments, acc.games[k])
<1> DEFINE games == index.games
           game == acc.games[k]
<1>1. games \in Seq(Games) /\ acc.games \in Seq(Games)
  BY DEF Indexes, Accumulated, Accumulations
<1>2. k \in 1..Len(acc.games) /\ Len(games) \in Nat
  BY <1>1
<1>3. Known(games, references, acc.amendments, k, game)
  BY <1>2 DEF Accumulated
<1> HIDE DEF game
<1>4. CASE k <= Len(games)
  <2>1. k \in DOMAIN games
    BY <1>1, <1>2, <1>4
  <2>2. GameOn(lines, games[k])
    BY <2>1 DEF IndexOn
  <2>3. /\ game.id = games[k].id /\ game.captures = games[k].captures
        /\ game.tipoff = games[k].tipoff \/ Lists(references, game.id, game.tipoff)
        /\ game.removed => games[k].removed \/ Removes(acc.amendments, game.id)
    BY <1>3, <1>4 DEF Known
  <2>4. GameOwed(lines, references, acc.amendments, game)
    BY <2>2, <2>3 DEF GameOn, GameOwed
  <2> QED BY <2>4 DEF game
<1>5. CASE k > Len(games)
  <2>1. GameOwed(lines, references, acc.amendments, game)
    BY <1>3, <1>5 DEF Known, GameOwed
  <2> QED BY <2>1 DEF game
<1> QED BY <1>2, <1>4, <1>5

LEMMA ReconcileKeeps == CInv /\ Reconcile => CInv'
<1> SUFFICES ASSUME CInv, Reconcile PROVE CInv'
  OBVIOUS
<1> DEFINE result == Reconciled(run.state.games, run.references, Day(run.now))
<1>1. /\ pc = "poll" /\ pc' = "amend" /\ UNCHANGED <<World, files, ledger, saved>>
      /\ run' = [run EXCEPT !.state.games = result.games, !.amendments = result.amendments,
                            !.recordedAt = clock]
  BY DEF Reconcile
<1>2. UNCHANGED <<clock, listed, files, ledger, saved>>
  BY <1>1 DEF World
<1>3. /\ run \in Runs /\ saved \in Indexes /\ clock \in Nat /\ IndexOn(ledger, saved)
      /\ run.state = saved /\ saved.lastPoll # Day(run.now)
  BY <1>1, CollectorBoundsAssumption DEF CInv, CollectorTypeOK, Recorded, PollsOnce, Polling
<1>4. saved.games \in Seq(Games) /\ run.references \in References
  BY <1>3 DEF Runs, Indexes
<1>5. Accumulated(saved.games, run.references, result)
  BY <1>3, <1>4, ReconciledKeeps
<1>6. result \in Accumulations
  BY <1>5 DEF Accumulated
<1> HIDE DEF result
<1>7. run' \in Runs
  BY <1>1, <1>3, <1>6 DEF Runs, Indexes, Accumulations
<1>8. /\ run'.state.games = result.games /\ run'.amendments = result.amendments
      /\ run'.references = run.references /\ run'.now = run.now
  BY <1>1, <1>3 DEF Runs, Indexes
<1>9. CollectorTypeOK'
  BY <1>1, <1>2, <1>7 DEF CInv, CollectorTypeOK, Capturing
<1>10. Recorded'
  BY <1>2 DEF CInv, Recorded
<1>11. \A k \in DOMAIN result.games :
         GameOwed(ledger, run.references, result.amendments, result.games[k])
  BY <1>3, <1>5, AccumulatedOwed
<1>12. PollsOnce'
  BY <1>1, <1>2, <1>3, <1>8, <1>11 DEF PollsOnce, Polling
<1>13. IndexGrows'
  BY <1>1, <1>2, <1>4, <1>5, <1>8, AccumulatedExtends DEF IndexGrows, Capturing, Chained
<1>14. DueIsOpen' /\ CaptureIsLast'
  BY <1>1 DEF DueIsOpen, CaptureIsLast, Capturing
<1> QED BY <1>9, <1>10, <1>12, <1>13, <1>14 DEF CInv

\* The events of a poll: what was owed is on the chain once its own event is.
LEMMA TailOfAmendments ==
  ASSUME NEW amendments \in Seq(Amendments), amendments # <<>>
  PROVE  /\ Head(amendments) \in Amendments /\ Tail(amendments) \in Seq(Amendments)
         /\ \A id : Removes(amendments, id) =>
              \/ Removes(Tail(amendments), id)
              \/ Head(amendments).id = id /\ Head(amendments).amended = None
<1>1. Head(amendments) \in Amendments /\ Tail(amendments) \in Seq(Amendments)
  OBVIOUS
<1>2. ASSUME NEW id, Removes(amendments, id)
      PROVE  \/ Removes(Tail(amendments), id)
             \/ Head(amendments).id = id /\ Head(amendments).amended = None
  <2>1. PICK a \in DOMAIN amendments : amendments[a].id = id /\ amendments[a].amended = None
    BY <1>2 DEF Removes
  <2>2. CASE a = 1
    BY <2>1, <2>2
  <2>3. CASE a # 1
    <3>1. a - 1 \in DOMAIN Tail(amendments) /\ Tail(amendments)[a - 1] = amendments[a]
      BY <2>3
    <3> QED BY <2>1, <3>1 DEF Removes
  <2> QED BY <2>2, <2>3
<1> QED BY <1>1, <1>2

LEMMA AppendAmendmentKeeps == CInv /\ AppendAmendment => CInv'
<1> SUFFICES ASSUME CInv, AppendAmendment PROVE CInv'
  OBVIOUS
<1> DEFINE event == [type |-> "schedule_amendment", recordedAt |-> run.recordedAt,
                     payload |-> Head(run.amendments)]
<1>1. /\ pc = "amend" /\ pc' = pc /\ run.amendments # <<>>
      /\ UNCHANGED <<clock, listed, files, saved>>
      /\ ledger' = Append(ledger, event)
      /\ run' = [run EXCEPT !.amendments = Tail(@)]
  BY DEF AppendAmendment, AppendEvent, World
<1>2. run \in Runs /\ ledger \in Seq(Events) /\ run.amendments \in Seq(Amendments) /\ run.recordedAt \in Nat
  BY DEF CInv, CollectorTypeOK, Runs
<1>3. /\ Head(run.amendments) \in Amendments /\ Tail(run.amendments) \in Seq(Amendments)
      /\ \A id : Removes(run.amendments, id) =>
           \/ Removes(Tail(run.amendments), id)
           \/ Head(run.amendments).id = id /\ Head(run.amendments).amended = None
  BY <1>1, <1>2, TailOfAmendments
<1>4. event \in Events
  BY <1>2, <1>3 DEF Events, AmendmentEvents
<1>5. /\ event.type = "schedule_amendment" /\ event.type # "capture"
      /\ event.payload = Head(run.amendments)
  OBVIOUS
<1>6. PICK rest \in Seq(Amendments) : rest = Tail(run.amendments) /\ run' = [run EXCEPT !.amendments = rest]
  BY <1>1, <1>3
<1>7. /\ run' \in Runs /\ run'.amendments = rest /\ run'.state = run.state
      /\ run'.references = run.references /\ run'.now = run.now
  BY <1>2, <1>6 DEF Runs
<1> HIDE DEF event
<1>8. ledger' \in Seq(Events)
  BY <1>1, <1>2, <1>4, Appended
<1>9. CollectorTypeOK'
  BY <1>1, <1>7, <1>8 DEF CInv, CollectorTypeOK, Polling, Capturing
<1>10. Recorded'
  BY <1>1, <1>2, <1>4, <1>5, IndexOnLonger, CapturesOnLonger, SidecarsOnLonger DEF CInv, Recorded
<1>11. ASSUME NEW k \in DOMAIN run.state.games
       PROVE  GameOwed(ledger', run.references, rest, run.state.games[k])
  <2>1. GameOwed(ledger, run.references, run.amendments, run.state.games[k])
    BY <1>1, <1>11 DEF CInv, PollsOnce
  <2>2. /\ \A id, tipoff : ListedOn(ledger, id, tipoff) => ListedOn(ledger', id, tipoff)
        /\ \A id, cutoff : CapturedOn(ledger, id, cutoff) => CapturedOn(ledger', id, cutoff)
        /\ \A id : RemovedOn(ledger, id) => RemovedOn(ledger', id)
    BY <1>1, <1>2, <1>4, OnLonger
  <2>3. \A id : Removes(run.amendments, id) => Removes(rest, id) \/ RemovedOn(ledger', id)
    BY <1>1, <1>2, <1>3, <1>4, <1>5, <1>6, LastOnLonger
  <2> QED BY <2>1, <2>2, <2>3 DEF GameOwed
<1>12. PollsOnce'
  BY <1>1, <1>7, <1>11 DEF CInv, PollsOnce, Polling
<1>13. IndexGrows'
  BY <1>1, <1>7 DEF CInv, IndexGrows, Capturing, Chained
<1>14. DueIsOpen' /\ CaptureIsLast'
  BY <1>1 DEF DueIsOpen, CaptureIsLast, Capturing
<1> QED BY <1>9, <1>10, <1>12, <1>13, <1>14 DEF CInv

LEMMA AppendPollKeeps == CInv /\ AppendPoll => CInv'
<1> SUFFICES ASSUME CInv, AppendPoll PROVE CInv'
  OBVIOUS
<1> DEFINE event == [type |-> "schedule_poll", recordedAt |-> run.recordedAt,
                     payload |-> [date |-> Day(run.now), games |-> run.references]]
<1>1. /\ pc = "amend" /\ pc' = "due" /\ run.amendments = <<>>
      /\ UNCHANGED <<clock, listed, files, saved>>
      /\ ledger' = Append(ledger, event)
      /\ run' = [run EXCEPT !.state.lastPoll = Day(run.now)]
  BY DEF AppendPoll, AppendEvent, World
<1>2. /\ run \in Runs /\ ledger \in Seq(Events) /\ run.references \in References
      /\ run.recordedAt \in Nat /\ run.now \in Nat
  BY CollectorBoundsAssumption DEF CInv, CollectorTypeOK, Runs
<1>3. Day(run.now) \in Nat
  BY <1>2, DayMonotone
<1>4. event \in Events
  BY <1>2, <1>3 DEF Events, PollEvents
<1>5. /\ event.type = "schedule_poll" /\ event.type # "capture"
      /\ event.payload.date = Day(run.now) /\ event.payload.games = run.references
  OBVIOUS
<1>6. run' \in Runs /\ run'.state.games = run.state.games /\ run'.state.lastPoll = Day(run.now)
  BY <1>1, <1>2, <1>3 DEF Runs, Indexes
<1> HIDE DEF event
<1>7. ledger' \in Seq(Events)
  BY <1>1, <1>2, <1>4, Appended
<1>8. CollectorTypeOK'
  BY <1>1, <1>6, <1>7 DEF CInv, CollectorTypeOK, Polling, Capturing, Chained
<1>9. Recorded'
  BY <1>1, <1>2, <1>4, <1>5, IndexOnLonger, CapturesOnLonger, SidecarsOnLonger DEF CInv, Recorded
<1>10. PollsOnce'
  BY <1>1 DEF PollsOnce, Polling
<1>11. PolledOn(ledger', Day(run.now))
  BY <1>1, <1>2, <1>4, <1>5, LastOnLonger
<1>12. ASSUME NEW k \in DOMAIN run.state.games
       PROVE  GameOn(ledger', run.state.games[k])
  <2>1. GameOwed(ledger, run.references, run.amendments, run.state.games[k])
    BY <1>1, <1>12 DEF CInv, PollsOnce
  <2>2. /\ \A id, tipoff : ListedOn(ledger, id, tipoff) => ListedOn(ledger', id, tipoff)
        /\ \A id, cutoff : CapturedOn(ledger, id, cutoff) => CapturedOn(ledger', id, cutoff)
        /\ \A id : RemovedOn(ledger, id) => RemovedOn(ledger', id)
    BY <1>1, <1>2, <1>4, OnLonger
  <2>3. \A id, tipoff : Lists(run.references, id, tipoff) => ListedOn(ledger', id, tipoff)
    BY <1>1, <1>2, <1>4, <1>5, LastOnLonger
  <2>4. \A id : ~Removes(run.amendments, id)
    BY <1>1 DEF Removes
  <2> QED BY <2>1, <2>2, <2>3, <2>4 DEF GameOwed, GameOn
<1>13. IndexOn(ledger', run'.state)
  BY <1>6, <1>11, <1>12 DEF IndexOn
<1>14. IndexGrows'
  BY <1>1, <1>6, <1>13 DEF CInv, IndexGrows
<1>15. DueIsOpen' /\ CaptureIsLast'
  BY <1>1 DEF DueIsOpen, CaptureIsLast, Capturing
<1> QED BY <1>8, <1>9, <1>10, <1>14, <1>15 DEF CInv

-----------------------------------------------------------------------------
(* Captures.                                                               *)

LEMMA CaptureInHand ==
  ASSUME CInv, pc \in Capturing
  PROVE  /\ run \in Runs /\ run.capture \in CapturesInHand /\ run.capture.item \in run.due
         /\ run.capture.item[1] \in DOMAIN run.state.games
         /\ CapturedGame \in Games /\ CapturedCutoff \in CutoffNames
         /\ CapturedCutoff \notin CapturedGame.captures
         /\ CutoffOf(run.capture.item) = CapturedGame.tipoff - CUTOFFS[CapturedCutoff]
<1>1. run \in Runs /\ run.capture \in CapturesInHand /\ run.capture.item \in run.due
  BY DEF CInv, CollectorTypeOK, DueIsOpen
<1>2. /\ run.capture.item[1] \in DOMAIN run.state.games
      /\ run.capture.item[2] \notin run.state.games[run.capture.item[1]].captures
  BY <1>1 DEF CInv, DueIsOpen
<1>3. run.state.games \in Seq(Games)
  BY <1>1 DEF Runs, Indexes
<1>4. run.state.games[run.capture.item[1]] \in Games
  BY <1>2, <1>3
<1>5. run.capture.item[2] \in CutoffNames
  BY <1>1 DEF CapturesInHand, Items
<1> QED BY <1>1, <1>2, <1>4, <1>5 DEF CapturedGame, CapturedCutoff, CutoffOf

LEMMA CaptureFilesAreNamed ==
  ASSUME CInv, pc \in Capturing
  PROVE  /\ files[ScoreboardName] \in Fetched
         /\ pc = "report" /\ run.capture.slot <= Slots => files[ReportName] \in Fetched
<1>1. FilesTyped(files)
  BY DEF CInv, CollectorTypeOK
<1>2. CapturedGame \in Games /\ CapturedCutoff \in CutoffNames
  BY CaptureInHand
<1>3. /\ CapturedGame.date \in Dates /\ CapturedGame.id \in GameIds
      /\ CapturedGame.tipoff \in Tipoffs
  BY <1>2 DEF Games
<1>4. files[ScoreboardName] \in Fetched
  BY <1>1, <1>2, <1>3 DEF ScoreboardName, FilesTyped
<1>5. ASSUME pc = "report", run.capture.slot <= Slots PROVE files[ReportName] \in Fetched
  <2>1. run.capture.slot \in 1..(Slots + 1) /\ Slots \in Nat
    BY <1>5, TimesAssumption DEF CInv, DueIsOpen
  <2>2. run.capture.slot - 1 \in 0..Slots
    BY <1>5, <2>1
  <2>3. CutoffOf(run.capture.item) - (run.capture.slot - 1) \in ReportTimes
    BY <1>2, <1>3, <2>2, CaptureInHand DEF ReportTimes
  <2> QED BY <1>1, <1>2, <1>3, <2>3 DEF ReportName, FilesTyped
<1> QED BY <1>4, <1>5

\* A step past the poll that leaves the index and the chain alone.
LEMMA ChainedStepKeeps ==
  ASSUME CInv, pc \in Chained, pc' \in Chained, UNCHANGED <<World, ledger, saved>>,
         FilesTyped(files'), SidecarsOn(ledger, files'),
         run' \in Runs, run'.state = run.state,
         pc' \in {"reportWrite", "scoreboardWrite"} => run'.held \in Nat,
         pc' \in Capturing => run'.capture \in CapturesInHand,
         DueIsOpen', CaptureIsLast'
  PROVE  CInv'
<1>1. UNCHANGED <<clock, listed, ledger, saved>>
  BY DEF World
<1>2. pc' # "pollWrite" /\ pc' \notin Polling \cup {"amend"} /\ pc # "idle"
  BY DEF Chained, Capturing, Polling
<1>3. CollectorTypeOK'
  BY <1>1, <1>2 DEF CInv, CollectorTypeOK
<1>4. Recorded'
  BY <1>1 DEF CInv, Recorded
<1>5. PollsOnce' /\ IndexGrows'
  BY <1>1, <1>2 DEF CInv, PollsOnce, IndexGrows, Polling
<1> QED BY <1>3, <1>4, <1>5 DEF CInv

LEMMA FindDueKeeps == CInv /\ FindDue => CInv'
<1> SUFFICES ASSUME CInv, FindDue PROVE CInv'
  OBVIOUS
<1>1. /\ pc = "due" /\ pc' = "capture" /\ UNCHANGED <<World, files, ledger, saved>>
      /\ run' = [run EXCEPT !.due = Due]
  BY DEF FindDue
<1>2. run \in Runs /\ FilesTyped(files) /\ SidecarsOn(ledger, files)
  BY DEF CInv, CollectorTypeOK, Recorded
<1>3. run.state.games \in Seq(Games)
  BY <1>2 DEF Runs, Indexes
<1>4. /\ Due \subseteq Items
      /\ \A item \in Due : /\ item[1] \in DOMAIN run.state.games
                           /\ item[2] \notin run.state.games[item[1]].captures
  BY <1>3 DEF Due, Items
<1>5. run' \in Runs /\ run'.state = run.state /\ run'.due = Due
  <2> HIDE DEF Due
  <2> QED BY <1>1, <1>2, <1>4 DEF Runs
<1>6. DueIsOpen'
  BY <1>1, <1>4, <1>5 DEF DueIsOpen, Capturing
<1>7. CaptureIsLast'
  BY <1>1 DEF CaptureIsLast
<1> QED BY <1>1, <1>2, <1>5, <1>6, <1>7, ChainedStepKeeps DEF Chained, Capturing

LEMMA BeginCaptureKeeps == CInv /\ BeginCapture => CInv'
<1> SUFFICES ASSUME CInv, BeginCapture PROVE CInv'
  OBVIOUS
<1>1. PICK item \in run.due :
        run' = [run EXCEPT !.capture = [item |-> item, retrievedAt |-> clock, slot |-> 1,
                                        report |-> None, scoreboard |-> None]]
  BY DEF BeginCapture
<1>2. pc = "capture" /\ pc' = "report" /\ UNCHANGED <<World, files, ledger, saved>>
  BY DEF BeginCapture
<1>3. /\ run \in Runs /\ clock \in Nat /\ Slots \in Nat
      /\ FilesTyped(files) /\ SidecarsOn(ledger, files)
  BY TimesAssumption, CollectorBoundsAssumption DEF CInv, CollectorTypeOK, Recorded
<1>4. item \in Items
  BY <1>3 DEF Runs
<1>5. PICK capture \in CapturesInHand :
        capture.item = item /\ capture.slot = 1 /\ run' = [run EXCEPT !.capture = capture]
  BY <1>1, <1>3, <1>4 DEF CapturesInHand
<1>6. run' \in Runs /\ run'.state = run.state /\ run'.due = run.due /\ run'.capture = capture
  BY <1>3, <1>5 DEF Runs
<1>7. DueIsOpen'
  BY <1>2, <1>3, <1>5, <1>6 DEF CInv, DueIsOpen
<1>8. CaptureIsLast'
  BY <1>2 DEF CaptureIsLast
<1> QED BY <1>2, <1>3, <1>5, <1>6, <1>7, <1>8, ChainedStepKeeps DEF Chained, Capturing

Fetching == {"report", "reportWrite", "scoreboard", "scoreboardWrite", "appendCapture"}

\* A step of the two downloads.
LEMMA FetchStepKeeps ==
  ASSUME CInv, pc \in Fetching, pc' \in Fetching, UNCHANGED <<World, ledger, saved>>,
         FilesTyped(files'), SidecarsOn(ledger, files'),
         run' \in Runs, run'.state = run.state, run'.due = run.due,
         run'.capture \in CapturesInHand, run'.capture.item = run.capture.item,
         pc' \in {"reportWrite", "scoreboardWrite"} => run'.held \in Nat,
         pc' = "report" => run'.capture.slot \in 1..(Slots + 1)
  PROVE  CInv'
<1>1. pc \in Capturing /\ pc' \in Capturing /\ pc \in Chained /\ pc' \in Chained
  BY DEF Fetching, Capturing, Chained
<1>2. pc' # "sidecar" /\ pc' # "sidecarWrite"
  BY DEF Fetching
<1>3. DueIsOpen'
  BY <1>1 DEF CInv, DueIsOpen
<1>4. CaptureIsLast'
  BY <1>2 DEF CaptureIsLast
<1> QED BY <1>1, <1>3, <1>4, ChainedStepKeeps

LEMMA ReuseReportKeeps == CInv /\ ReuseReport => CInv'
<1> SUFFICES ASSUME CInv, ReuseReport PROVE CInv'
  OBVIOUS
<1>1. /\ pc = "report" /\ pc' = "scoreboard" /\ run.capture.slot <= Slots
      /\ UNCHANGED <<World, files, ledger, saved>>
      /\ run' = [run EXCEPT !.capture.report = files[ReportName]]
  BY DEF ReuseReport
<1>2. run \in Runs /\ run.capture \in CapturesInHand
  BY <1>1, CaptureInHand DEF Capturing
<1>3. FilesTyped(files) /\ SidecarsOn(ledger, files)
  BY DEF CInv, CollectorTypeOK, Recorded
<1>4. PICK file \in Fetched : run' = [run EXCEPT !.capture.report = file]
  BY <1>1, CaptureFilesAreNamed DEF Capturing
<1>5. PICK capture \in CapturesInHand :
        capture.item = run.capture.item /\ run' = [run EXCEPT !.capture = capture]
  <2>1. [run.capture EXCEPT !.report = file] \in CapturesInHand
    BY <1>2 DEF CapturesInHand
  <2>2. [run.capture EXCEPT !.report = file].item = run.capture.item
    BY <1>2 DEF CapturesInHand
  <2> QED BY <1>4, <2>1, <2>2
<1>6. run' \in Runs /\ run'.state = run.state /\ run'.due = run.due /\ run'.capture = capture
  BY <1>2, <1>5 DEF Runs
<1> QED BY <1>1, <1>3, <1>5, <1>6, FetchStepKeeps DEF Fetching

LEMMA FetchReportKeeps == CInv /\ FetchReport => CInv'
<1> SUFFICES ASSUME CInv, FetchReport PROVE CInv'
  OBVIOUS
<1>1. /\ pc = "report" /\ pc' = "reportWrite" /\ UNCHANGED <<World, ledger, saved>>
      /\ files' = [files EXCEPT ![ReportName] = Partial]
      /\ run' = [run EXCEPT !.held = clock]
  BY DEF FetchReport, Create
<1>2. run \in Runs /\ run.capture \in CapturesInHand
  BY <1>1, CaptureInHand DEF Capturing
<1>3. FilesTyped(files) /\ SidecarsOn(ledger, files) /\ clock \in Nat
  BY CollectorBoundsAssumption DEF CInv, CollectorTypeOK, Recorded
<1>4. /\ run' \in Runs /\ run'.state = run.state /\ run'.due = run.due
      /\ run'.capture = run.capture /\ run'.held \in Nat
  BY <1>1, <1>2, <1>3 DEF Runs
<1>5. Partial \in Fetched
  BY FileKinds DEF Fetched
<1>6. FilesTyped(files') /\ SidecarsOn(ledger, files')
  BY <1>1, <1>3, <1>5, ReportFileWritten DEF ReportName
<1> QED BY <1>1, <1>2, <1>4, <1>6, FetchStepKeeps DEF Fetching

LEMMA SkipReportKeeps == CInv /\ SkipReport => CInv'
<1> SUFFICES ASSUME CInv, SkipReport PROVE CInv'
  OBVIOUS
<1>1. /\ pc = "report" /\ UNCHANGED <<World, files, ledger, saved>>
      /\ \/ /\ run.capture.slot <= Slots /\ pc' = pc
            /\ run' = [run EXCEPT !.capture.slot = @ + 1]
         \/ pc' = "scoreboard" /\ run' = run
  BY DEF SkipReport
<1>2. run \in Runs /\ run.capture \in CapturesInHand
  BY <1>1, CaptureInHand DEF Capturing
<1>3. /\ FilesTyped(files) /\ SidecarsOn(ledger, files)
      /\ run.capture.slot \in 1..(Slots + 1) /\ Slots \in Nat
  BY <1>1, TimesAssumption DEF CInv, CollectorTypeOK, Recorded, DueIsOpen
<1>4. CASE run.capture.slot <= Slots /\ pc' = pc /\ run' = [run EXCEPT !.capture.slot = @ + 1]
  <2>1. run.capture.slot + 1 \in 1..(Slots + 1) /\ run.capture.slot + 1 \in Nat
    BY <1>3, <1>4
  <2>2. PICK slot \in Nat : slot = run.capture.slot + 1
    BY <2>1
  <2>3. PICK capture \in CapturesInHand :
          /\ capture.item = run.capture.item /\ capture.slot = slot
          /\ run' = [run EXCEPT !.capture = capture]
    <3>1. [run.capture EXCEPT !.slot = slot] \in CapturesInHand
      BY <1>2 DEF CapturesInHand
    <3>2. /\ [run.capture EXCEPT !.slot = slot].item = run.capture.item
          /\ [run.capture EXCEPT !.slot = slot].slot = slot
      BY <1>2 DEF CapturesInHand
    <3> QED BY <1>4, <2>2, <3>1, <3>2
  <2>4. run' \in Runs /\ run'.state = run.state /\ run'.due = run.due /\ run'.capture = capture
    BY <1>2, <2>3 DEF Runs
  <2> QED BY <1>1, <1>3, <1>4, <2>1, <2>2, <2>3, <2>4, FetchStepKeeps DEF Fetching
<1>5. CASE pc' = "scoreboard" /\ run' = run
  BY <1>1, <1>2, <1>3, <1>5, FetchStepKeeps DEF Fetching
<1> QED BY <1>1, <1>4, <1>5

LEMMA WriteReportKeeps == CInv /\ WriteReport => CInv'
<1> SUFFICES ASSUME CInv, WriteReport PROVE CInv'
  OBVIOUS
<1>1. /\ pc = "reportWrite" /\ pc' = "scoreboard" /\ UNCHANGED <<World, ledger, saved>>
      /\ files' = [files EXCEPT ![ReportName] = Whole(run.held)]
      /\ run' = [run EXCEPT !.capture.report = Whole(run.held), !.held = None]
  BY DEF WriteReport
<1>2. run \in Runs /\ run.capture \in CapturesInHand
  BY <1>1, CaptureInHand DEF Capturing
<1>3. FilesTyped(files) /\ SidecarsOn(ledger, files) /\ run.held \in Nat
  BY <1>1 DEF CInv, CollectorTypeOK, Recorded
<1>4. PICK file \in Fetched : file = Whole(run.held)
  BY <1>3, FileKinds DEF Fetched
<1>5. PICK capture \in CapturesInHand :
        capture.item = run.capture.item /\ run' = [run EXCEPT !.capture = capture, !.held = None]
  <2>1. [run.capture EXCEPT !.report = file] \in CapturesInHand
    BY <1>2 DEF CapturesInHand
  <2>2. [run.capture EXCEPT !.report = file].item = run.capture.item
    BY <1>2 DEF CapturesInHand
  <2>3. run' = [run EXCEPT !.capture = [run.capture EXCEPT !.report = file], !.held = None]
    BY <1>1, <1>2, <1>4 DEF Runs
  <2> QED BY <2>1, <2>2, <2>3
<1>6. run' \in Runs /\ run'.state = run.state /\ run'.due = run.due /\ run'.capture = capture
  BY <1>2, <1>5 DEF Runs
<1>7. FilesTyped(files') /\ SidecarsOn(ledger, files')
  BY <1>1, <1>3, <1>4, ReportFileWritten DEF ReportName
<1> QED BY <1>1, <1>5, <1>6, <1>7, FetchStepKeeps DEF Fetching

LEMMA ReuseScoreboardKeeps == CInv /\ ReuseScoreboard => CInv'
<1> SUFFICES ASSUME CInv, ReuseScoreboard PROVE CInv'
  OBVIOUS
<1>1. /\ pc = "scoreboard" /\ pc' = "appendCapture" /\ UNCHANGED <<World, files, ledger, saved>>
      /\ run' = [run EXCEPT !.capture.scoreboard = files[ScoreboardName]]
  BY DEF ReuseScoreboard
<1>2. run \in Runs /\ run.capture \in CapturesInHand
  BY <1>1, CaptureInHand DEF Capturing
<1>3. FilesTyped(files) /\ SidecarsOn(ledger, files)
  BY DEF CInv, CollectorTypeOK, Recorded
<1>4. PICK file \in Fetched : run' = [run EXCEPT !.capture.scoreboard = file]
  BY <1>1, CaptureFilesAreNamed DEF Capturing
<1>5. PICK capture \in CapturesInHand :
        capture.item = run.capture.item /\ run' = [run EXCEPT !.capture = capture]
  <2>1. [run.capture EXCEPT !.scoreboard = file] \in CapturesInHand
    BY <1>2 DEF CapturesInHand
  <2>2. [run.capture EXCEPT !.scoreboard = file].item = run.capture.item
    BY <1>2 DEF CapturesInHand
  <2> QED BY <1>4, <2>1, <2>2
<1>6. run' \in Runs /\ run'.state = run.state /\ run'.due = run.due /\ run'.capture = capture
  BY <1>2, <1>5 DEF Runs
<1> QED BY <1>1, <1>3, <1>5, <1>6, FetchStepKeeps DEF Fetching

LEMMA FetchScoreboardKeeps == CInv /\ FetchScoreboard => CInv'
<1> SUFFICES ASSUME CInv, FetchScoreboard PROVE CInv'
  OBVIOUS
<1>1. /\ pc = "scoreboard" /\ pc' = "scoreboardWrite" /\ UNCHANGED <<World, ledger, saved>>
      /\ files' = [files EXCEPT ![ScoreboardName] = Partial]
      /\ run' = [run EXCEPT !.held = clock]
  BY DEF FetchScoreboard, Create
<1>2. run \in Runs /\ run.capture \in CapturesInHand
  BY <1>1, CaptureInHand DEF Capturing
<1>3. FilesTyped(files) /\ SidecarsOn(ledger, files) /\ clock \in Nat
  BY CollectorBoundsAssumption DEF CInv, CollectorTypeOK, Recorded
<1>4. /\ run' \in Runs /\ run'.state = run.state /\ run'.due = run.due
      /\ run'.capture = run.capture /\ run'.held \in Nat
  BY <1>1, <1>2, <1>3 DEF Runs
<1>5. Partial \in Fetched
  BY FileKinds DEF Fetched
<1>6. FilesTyped(files') /\ SidecarsOn(ledger, files')
  BY <1>1, <1>3, <1>5, ScoreboardFileWritten DEF ScoreboardName
<1> QED BY <1>1, <1>2, <1>4, <1>6, FetchStepKeeps DEF Fetching

LEMMA WriteScoreboardKeeps == CInv /\ WriteScoreboard => CInv'
<1> SUFFICES ASSUME CInv, WriteScoreboard PROVE CInv'
  OBVIOUS
<1>1. /\ pc = "scoreboardWrite" /\ pc' = "appendCapture" /\ UNCHANGED <<World, ledger, saved>>
      /\ files' = [files EXCEPT ![ScoreboardName] = Whole(run.held)]
      /\ run' = [run EXCEPT !.capture.scoreboard = Whole(run.held), !.held = None]
  BY DEF WriteScoreboard
<1>2. run \in Runs /\ run.capture \in CapturesInHand
  BY <1>1, CaptureInHand DEF Capturing
<1>3. FilesTyped(files) /\ SidecarsOn(ledger, files) /\ run.held \in Nat
  BY <1>1 DEF CInv, CollectorTypeOK, Recorded
<1>4. PICK file \in Fetched : file = Whole(run.held)
  BY <1>3, FileKinds DEF Fetched
<1>5. PICK capture \in CapturesInHand :
        capture.item = run.capture.item /\ run' = [run EXCEPT !.capture = capture, !.held = None]
  <2>1. [run.capture EXCEPT !.scoreboard = file] \in CapturesInHand
    BY <1>2 DEF CapturesInHand
  <2>2. [run.capture EXCEPT !.scoreboard = file].item = run.capture.item
    BY <1>2 DEF CapturesInHand
  <2>3. run' = [run EXCEPT !.capture = [run.capture EXCEPT !.scoreboard = file], !.held = None]
    BY <1>1, <1>2, <1>4 DEF Runs
  <2> QED BY <2>1, <2>2, <2>3
<1>6. run' \in Runs /\ run'.state = run.state /\ run'.due = run.due /\ run'.capture = capture
  BY <1>2, <1>5 DEF Runs
<1>7. FilesTyped(files') /\ SidecarsOn(ledger, files')
  BY <1>1, <1>3, <1>4, ScoreboardFileWritten DEF ScoreboardName
<1> QED BY <1>1, <1>5, <1>6, <1>7, FetchStepKeeps DEF Fetching

\* The event of a capture is well formed, and of a game that is listed on the chain.
LEMMA EventOfCapture ==
  ASSUME CInv, pc \in Capturing
  PROVE  /\ CaptureEvent \in CaptureEvents /\ CaptureEvent \in Events
         /\ CaptureEvent.payload \in Payloads
         /\ CaptureEvent.type = "capture"
         /\ CaptureEvent.payload.date = CapturedGame.date
         /\ CaptureEvent.payload.id = CapturedGame.id
         /\ CaptureEvent.payload.cutoffType = CapturedCutoff
         /\ ListedOn(ledger, CaptureEvent.payload.id, CaptureEvent.payload.tipoff)
<1>1. /\ run.capture \in CapturesInHand /\ run.capture.item[1] \in DOMAIN run.state.games
      /\ CapturedGame \in Games /\ CapturedCutoff \in CutoffNames
      /\ CutoffOf(run.capture.item) = CapturedGame.tipoff - CUTOFFS[CapturedCutoff]
  BY CaptureInHand
<1>2. CapturedGame.tipoff \in Nat /\ CUTOFFS[CapturedCutoff] \in Nat
  BY <1>1, TimesAssumption DEF Games, CutoffNames
<1>3. CutoffOf(run.capture.item) \in Int
  BY <1>1, <1>2
<1>4. /\ run.capture.retrievedAt \in Nat /\ run.capture.report \in Fetched \cup {None}
      /\ run.capture.scoreboard \in Fetched \cup {None}
  BY <1>1 DEF CapturesInHand
<1>5. /\ CapturedGame.date \in Dates /\ CapturedGame.id \in GameIds
      /\ CapturedGame.tipoff \in Tipoffs
  BY <1>1 DEF Games
<1>6. CaptureEvent.payload \in Payloads /\ CaptureEvent \in CaptureEvents
  <2> HIDE DEF CapturedGame, CapturedCutoff, CutoffOf, Fetched
  <2> QED BY <1>1, <1>3, <1>4, <1>5 DEF CaptureEvent, CaptureEvents, Payloads
<1>7. GameOn(ledger, CapturedGame)
  BY <1>1 DEF CInv, IndexGrows, IndexOn, Chained, CapturedGame
<1>8. /\ CaptureEvent.type = "capture"
      /\ CaptureEvent.payload.date = CapturedGame.date
      /\ CaptureEvent.payload.id = CapturedGame.id
      /\ CaptureEvent.payload.cutoffType = CapturedCutoff
      /\ CaptureEvent.payload.tipoff = CapturedGame.tipoff
  BY DEF CaptureEvent
<1> QED BY <1>6, <1>7, <1>8 DEF GameOn, Events

LEMMA AppendCaptureKeeps == CInv /\ AppendCapture => CInv'
<1> SUFFICES ASSUME CInv, AppendCapture PROVE CInv'
  OBVIOUS
<1>1. /\ pc = "appendCapture" /\ pc' = "sidecar"
      /\ UNCHANGED <<clock, listed, files, saved, run>>
      /\ ledger' = Append(ledger, CaptureEvent)
  BY DEF AppendCapture, AppendEvent, World
<1>2. pc \in Capturing /\ pc' \in Capturing /\ pc \in Chained /\ pc' \in Chained
  BY <1>1 DEF Capturing, Chained
<1>3. /\ CaptureEvent \in Events /\ CaptureEvent.type = "capture"
      /\ ListedOn(ledger, CaptureEvent.payload.id, CaptureEvent.payload.tipoff)
  BY <1>2, EventOfCapture
<1>4. CaptureEvent' = CaptureEvent
  BY <1>1, EventStays
<1>5. ledger \in Seq(Events) /\ run.state \in Indexes
  BY DEF CInv, CollectorTypeOK, Runs
<1>6. PICK event \in Events : event = CaptureEvent
  BY <1>3
<1>7. /\ ledger' \in Seq(Events) /\ Len(ledger') > 0 /\ ledger'[Len(ledger')] = event
  BY <1>1, <1>5, <1>6, Appended
<1>8. CollectorTypeOK'
  BY <1>1, <1>2, <1>7 DEF CInv, CollectorTypeOK
<1>9. Recorded'
  BY <1>1, <1>3, <1>5, IndexOnLonger, CapturesOnLonger, SidecarsOnLonger DEF CInv, Recorded
<1>10. PollsOnce'
  BY <1>1 DEF PollsOnce, Polling
<1>11. IndexGrows'
  BY <1>1, <1>2, <1>3, <1>5, IndexOnLonger DEF CInv, IndexGrows
<1>12. DueIsOpen'
  BY <1>1, <1>2 DEF CInv, DueIsOpen
<1>13. CaptureIsLast'
  BY <1>1, <1>3, <1>4, <1>6, <1>7 DEF CaptureIsLast
<1> QED BY <1>8, <1>9, <1>10, <1>11, <1>12, <1>13 DEF CInv

-----------------------------------------------------------------------------
(* Sidecars, and the end of a capture.                                     *)

\* A captured cutoff is marked in the index, once its event is on the chain.
LEMMA Marked ==
  ASSUME NEW lines, NEW index \in Indexes, NEW place \in DOMAIN index.games,
         NEW cutoff \in CutoffNames, NEW games \in Seq(Games),
         IndexOn(lines, index), Extends(games, index.games),
         CapturedOn(lines, index.games[place].id, cutoff)
  PROVE  LET next == [index EXCEPT !.games[place].captures = @ \cup {cutoff}] IN
         /\ next \in Indexes /\ DOMAIN next.games = DOMAIN index.games
         /\ \A k \in DOMAIN index.games :
              next.games[k].captures =
                IF k = place THEN index.games[k].captures \cup {cutoff} ELSE index.games[k].captures
         /\ IndexOn(lines, next) /\ Extends(games, next.games)
<1> DEFINE game == index.games[place]
           marked == [game EXCEPT !.captures = @ \cup {cutoff}]
           list == [index.games EXCEPT ![place] = marked]
           next == [index EXCEPT !.games[place].captures = @ \cup {cutoff}]
<1>1. index.games \in Seq(Games)
  BY DEF Indexes
<1>2. game \in Games
  BY <1>1
<1>3. /\ marked \in Games /\ marked.id = game.id /\ marked.tipoff = game.tipoff
      /\ marked.removed = game.removed /\ marked.captures = game.captures \cup {cutoff}
  BY <1>2 DEF Games
<1>4. next = [index EXCEPT !.games = list]
  BY <1>1 DEF Indexes
<1>5. /\ list \in Seq(Games) /\ DOMAIN list = DOMAIN index.games /\ Len(list) = Len(index.games)
      /\ \A k \in DOMAIN index.games : list[k] = IF k = place THEN marked ELSE index.games[k]
  <2> HIDE DEF marked
  <2> QED BY <1>1, <1>3
<1>6. /\ Len(index.games) \in Nat /\ DOMAIN index.games = 1..Len(index.games)
      /\ Len(games) \in Nat
  BY <1>1
<1> HIDE DEF list, marked
<1>7. next \in Indexes /\ next.games = list /\ next.lastPoll = index.lastPoll
  BY <1>4, <1>5 DEF Indexes
<1> HIDE DEF next
<1>8. \A k \in DOMAIN index.games : GameOn(lines, list[k])
  <2>1. GameOn(lines, game)
    BY DEF IndexOn
  <2>2. GameOn(lines, marked)
    BY <1>3, <2>1 DEF GameOn
  <2> QED BY <1>5, <2>2 DEF IndexOn
<1>9. IndexOn(lines, next)
  BY <1>5, <1>7, <1>8 DEF IndexOn
<1>10. \A k \in DOMAIN index.games :
         list[k].id = index.games[k].id /\ index.games[k].captures \subseteq list[k].captures
  BY <1>3, <1>5
<1>11. Extends(games, list)
  <2>1. /\ Len(games) <= Len(list) /\ 1..Len(games) \subseteq DOMAIN index.games
        /\ (Len(games) + 1)..Len(list) \subseteq DOMAIN index.games
    BY <1>5, <1>6 DEF Extends
  <2>2. \A k \in 1..Len(games) :
          list[k].id = games[k].id /\ games[k].captures \subseteq list[k].captures
    BY <1>10, <2>1 DEF Extends
  <2>3. \A k \in (Len(games) + 1)..Len(list), j \in 1..Len(games) : list[k].id # games[j].id
    BY <1>5, <1>10, <2>1 DEF Extends
  <2> QED BY <2>1, <2>2, <2>3 DEF Extends
<1>12. \A k \in DOMAIN index.games :
         next.games[k].captures =
           IF k = place THEN index.games[k].captures \cup {cutoff} ELSE index.games[k].captures
  BY <1>3, <1>5, <1>7
<1>13. /\ next \in Indexes /\ DOMAIN next.games = DOMAIN index.games
       /\ IndexOn(lines, next) /\ Extends(games, next.games)
  BY <1>5, <1>7, <1>9, <1>11
<1> QED BY <1>12, <1>13 DEF next

LEMMA FinishCaptureKeeps ==
  ASSUME CInv, pc \in {"sidecar", "sidecarWrite"}, FinishCapture,
         UNCHANGED <<World, ledger, saved>>, FilesTyped(files'), SidecarsOn(ledger, files')
  PROVE  CInv'
<1> DEFINE item == run.capture.item
           index == [run.state EXCEPT !.games[item[1]].captures = @ \cup {CapturedCutoff}]
           rest == run.due \ {item}
<1>1. /\ pc' = "capture" /\ UNCHANGED <<clock, listed, ledger, saved>>
      /\ run' = [run EXCEPT !.state.games[item[1]].captures = @ \cup {CapturedCutoff},
                            !.due = @ \ {item}, !.capture = None, !.held = None]
  BY DEF FinishCapture, World
<1>2. pc \in Capturing /\ pc \in Chained
  BY DEF Capturing, Chained
<1>3. /\ run \in Runs /\ item \in Items /\ item[1] \in DOMAIN run.state.games
      /\ CapturedCutoff \in CutoffNames
  BY <1>2, CaptureInHand DEF Runs
<1>4. run.state \in Indexes /\ saved.games \in Seq(Games) /\ rest \in SUBSET Items
  BY <1>3 DEF CInv, CollectorTypeOK, Runs, Indexes
<1>5. IndexOn(ledger, run.state) /\ Extends(saved.games, run.state.games)
  BY <1>2 DEF CInv, IndexGrows, Chained, Capturing
<1>6. CapturedOn(ledger, run.state.games[item[1]].id, CapturedCutoff)
  <2>1. /\ Len(ledger) > 0 /\ ledger[Len(ledger)].type = "capture"
        /\ ledger[Len(ledger)].payload = CaptureEvent.payload
    BY DEF CInv, CaptureIsLast
  <2>2. /\ CaptureEvent.payload.id = run.state.games[item[1]].id
        /\ CaptureEvent.payload.cutoffType = CapturedCutoff
    BY <1>2, EventOfCapture DEF CapturedGame
  <2>3. ledger \in Seq(Events)
    BY DEF CInv, CollectorTypeOK
  <2>4. Len(ledger) \in DOMAIN ledger
    BY <2>1, <2>3
  <2> QED BY <2>1, <2>2, <2>4 DEF CapturedOn
<1>7. /\ index \in Indexes /\ DOMAIN index.games = DOMAIN run.state.games
      /\ \A k \in DOMAIN run.state.games :
           index.games[k].captures =
             IF k = item[1] THEN run.state.games[k].captures \cup {CapturedCutoff}
                            ELSE run.state.games[k].captures
      /\ IndexOn(ledger, index) /\ Extends(saved.games, index.games)
  BY <1>3, <1>4, <1>5, <1>6, Marked
<1>8. run' = [run EXCEPT !.state = index, !.due = rest, !.capture = None, !.held = None]
  BY <1>1, <1>3 DEF Runs
<1> HIDE DEF index
<1>9. run' \in Runs /\ run'.state = index /\ run'.due = rest
  BY <1>3, <1>4, <1>7, <1>8 DEF Runs
<1>10. CollectorTypeOK'
  BY <1>1, <1>9 DEF CInv, CollectorTypeOK, Chained, Capturing, Polling
<1>11. Recorded'
  BY <1>1 DEF CInv, Recorded
<1>12. PollsOnce' /\ CaptureIsLast'
  BY <1>1 DEF PollsOnce, CaptureIsLast, Polling
<1>13. IndexGrows'
  BY <1>1, <1>7, <1>9 DEF IndexGrows
<1>14. DueIsOpen'
  <2>1. ASSUME NEW other \in rest
        PROVE  other[1] \in DOMAIN index.games /\ other[2] \notin index.games[other[1]].captures
    <3>1. /\ other[1] \in DOMAIN run.state.games
          /\ other[2] \notin run.state.games[other[1]].captures
      BY <1>2 DEF CInv, DueIsOpen
    <3>2. other \in Items /\ other # item
      BY <1>4
    <3>3. other[1] # item[1] \/ other[2] # CapturedCutoff
      BY <1>3, <3>2 DEF Items, CapturedCutoff
    <3> QED BY <1>7, <3>1, <3>3
  <2> QED BY <1>1, <1>9, <2>1 DEF DueIsOpen, Capturing
<1> QED BY <1>10, <1>11, <1>12, <1>13, <1>14 DEF CInv

LEMMA KeepSidecarKeeps == CInv /\ KeepSidecar => CInv'
<1> SUFFICES ASSUME CInv, KeepSidecar PROVE CInv'
  OBVIOUS
<1>1. FilesTyped(files) /\ SidecarsOn(ledger, files)
  BY DEF CInv, CollectorTypeOK, Recorded
<1> QED BY <1>1, FinishCaptureKeeps DEF KeepSidecar

LEMMA CreateSidecarKeeps == CInv /\ CreateSidecar => CInv'
<1> SUFFICES ASSUME CInv, CreateSidecar PROVE CInv'
  OBVIOUS
<1> DEFINE sidecar == [payload |-> CaptureEvent.payload, line |-> Len(ledger)]
<1>1. /\ pc = "sidecar" /\ pc' = "sidecarWrite" /\ UNCHANGED <<World, ledger, saved>>
      /\ files' = [files EXCEPT ![SidecarName] = Partial]
      /\ run' = [run EXCEPT !.held = sidecar]
  BY DEF CreateSidecar, Create
<1>2. pc \in Capturing /\ pc' \in Capturing /\ pc \in Chained /\ pc' \in Chained
  BY <1>1 DEF Capturing, Chained
<1>3. run \in Runs /\ run.capture \in CapturesInHand
  BY <1>2, CaptureInHand
<1>4. FilesTyped(files) /\ SidecarsOn(ledger, files) /\ Len(ledger) \in Nat
  BY DEF CInv, CollectorTypeOK, Recorded
<1>5. PICK held \in Sidecars : held = sidecar
  <2>1. CaptureEvent.payload \in Payloads
    BY <1>2, EventOfCapture
  <2> HIDE DEF CaptureEvent
  <2> QED BY <1>4, <2>1 DEF Sidecars
<1> HIDE DEF sidecar
<1>6. /\ run' \in Runs /\ run'.state = run.state /\ run'.due = run.due
      /\ run'.capture = run.capture /\ run'.held = sidecar
  BY <1>1, <1>3, <1>5 DEF Runs
<1>7. FilesTyped(files') /\ SidecarsOn(ledger, files')
  <2>1. PICK file \in FilesOf(Sidecars) : file = Partial /\ file.state # "whole"
    BY FileKinds
  <2> QED BY <1>1, <1>4, <2>1, SidecarFileWritten DEF SidecarName
<1>8. DueIsOpen'
  BY <1>1, <1>2, <1>6 DEF CInv, DueIsOpen
<1>9. CaptureIsLast'
  <2>1. CaptureEvent' = CaptureEvent
    BY <1>6, EventStays
  <2> QED BY <1>1, <1>6, <2>1 DEF CInv, CaptureIsLast, sidecar
<1> QED BY <1>1, <1>2, <1>3, <1>6, <1>7, <1>8, <1>9, ChainedStepKeeps

LEMMA WriteSidecarKeeps == CInv /\ WriteSidecar => CInv'
<1> SUFFICES ASSUME CInv, WriteSidecar PROVE CInv'
  OBVIOUS
<1>1. /\ pc = "sidecarWrite" /\ FinishCapture /\ UNCHANGED <<World, ledger, saved>>
      /\ files' = [files EXCEPT ![SidecarName] = Whole(run.held)]
  BY DEF WriteSidecar
<1>2. /\ FilesTyped(files) /\ SidecarsOn(ledger, files) /\ ledger \in Seq(Events)
  BY DEF CInv, CollectorTypeOK, Recorded
<1>3. /\ Len(ledger) > 0 /\ ledger[Len(ledger)].type = "capture"
      /\ ledger[Len(ledger)].payload = CaptureEvent.payload
      /\ run.held = [payload |-> CaptureEvent.payload, line |-> Len(ledger)]
  BY <1>1 DEF CInv, CaptureIsLast
<1>4. /\ CaptureEvent.payload \in Payloads
      /\ CaptureEvent.payload.date = CapturedGame.date
      /\ CaptureEvent.payload.id = CapturedGame.id
      /\ CaptureEvent.payload.cutoffType = CapturedCutoff
  BY <1>1, EventOfCapture DEF Capturing
<1>5. Len(ledger) \in DOMAIN ledger /\ Len(ledger) \in Nat
  BY <1>2, <1>3
<1>6. /\ run.held \in Sidecars /\ run.held.line = Len(ledger)
      /\ run.held.payload = CaptureEvent.payload
  <2> HIDE DEF CaptureEvent
  <2> QED BY <1>3, <1>4, <1>5 DEF Sidecars
<1>7. PICK file \in FilesOf(Sidecars) : file = Whole(run.held) /\ file.content = run.held
  BY <1>6, FileKinds
<1>8. FilesTyped(files') /\ SidecarsOn(ledger, files')
  <2>1. /\ file.content.line \in DOMAIN ledger
        /\ ledger[file.content.line].type = "capture"
        /\ ledger[file.content.line].payload = file.content.payload
        /\ file.content.payload.date = CapturedGame.date
        /\ file.content.payload.id = CapturedGame.id
        /\ file.content.payload.cutoffType = CapturedCutoff
    <3> HIDE DEF CaptureEvent
    <3> QED BY <1>3, <1>4, <1>5, <1>6, <1>7
  <2>2. files' = [files EXCEPT ![SidecarName] = file]
    BY <1>1, <1>7
  <2> QED BY <1>2, <2>1, <2>2, SidecarFileWritten DEF SidecarName
<1> QED BY <1>1, <1>8, FinishCaptureKeeps

-----------------------------------------------------------------------------
(* The invariant.                                                          *)

LEMMA PollKeeps == CInv /\ Poll => CInv'
BY ReusePollKeeps, FetchPollKeeps, WritePollKeeps, ReconcileKeeps, AppendAmendmentKeeps,
   AppendPollKeeps DEF Poll

LEMMA CaptureKeeps == CInv /\ Capture => CInv'
BY FindDueKeeps, BeginCaptureKeeps, ReuseReportKeeps, FetchReportKeeps, SkipReportKeeps,
   WriteReportKeeps, ReuseScoreboardKeeps, FetchScoreboardKeeps, WriteScoreboardKeeps,
   AppendCaptureKeeps, KeepSidecarKeeps, CreateSidecarKeeps, WriteSidecarKeeps DEF Capture

LEMMA NextKeeps == CInv /\ [Next]_vars => CInv'
BY TickKeeps, ChangeScheduleKeeps, BeginKeeps, PollKeeps, CaptureKeeps, SaveStateKeeps,
   CrashKeeps, StutterKeeps DEF Next

\* Every state the collector reaches satisfies the inductive invariant.
THEOREM Invariance == Spec => []CInv
<1>1. Init => CInv
  BY InitKeeps
<1>2. CInv /\ [Next]_vars => CInv'
  BY NextKeeps
<1> QED BY <1>1, <1>2, PTL DEF Spec

-----------------------------------------------------------------------------
(* What the collector promises.                                            *)

\* Every variable has its type: what is appended to the chain is a well-formed event, and
\* what is written to a file is of the kind its name says.
THEOREM TypeCorrect == Spec => []CollectorTypeOK
<1>1. CInv => CollectorTypeOK
  BY DEF CInv
<1> QED BY <1>1, Invariance, PTL

\* schedule.json never runs ahead of the chain, whatever died between an append and a save.
THEOREM IndexIsOnTheChain == Spec => []IndexFollowsLedger
<1>1. CInv => IndexFollowsLedger
  <2> SUFFICES ASSUME CInv PROVE IndexFollowsLedger
    OBVIOUS
  <2>1. IndexOn(ledger, saved)
    BY DEF CInv, Recorded
  <2>2. saved.lastPoll # None =>
          \E i \in EventsOf("schedule_poll") : ledger[i].payload.date = saved.lastPoll
    BY <2>1 DEF IndexOn, PolledOn, EventsOf
  <2>3. ASSUME NEW k \in DOMAIN saved.games
        PROVE  LET game == saved.games[k] IN
               /\ \E i \in EventsOf("schedule_poll") : Listed(i, game.id, game.tipoff)
               /\ \A cutoff \in game.captures : \E i \in EventsOf("capture") :
                    ledger[i].payload.id = game.id /\ ledger[i].payload.cutoffType = cutoff
               /\ game.removed => \E i \in EventsOf("schedule_amendment") :
                    ledger[i].payload.id = game.id /\ ledger[i].payload.amended = None
    BY <2>1 DEF IndexOn, GameOn, ListedOn, Lists, CapturedOn, RemovedOn, EventsOf, Listed
  <2> QED BY <2>2, <2>3 DEF IndexFollowsLedger
<1> QED BY <1>1, Invariance, PTL

\* No capture is of a game at a tipoff that no poll on the chain before it had listed,
\* whenever the capture's own invocation polled.
THEOREM CapturesAreOfListedGames == Spec => []CapturesFollowTheFrozenSchedule
<1>1. CInv => CapturesFollowTheFrozenSchedule
  BY DEF CInv, Recorded, CapturesOn, CapturesFollowTheFrozenSchedule, EventsOf, Listed, Lists
<1> QED BY <1>1, Invariance, PTL

\* A sidecar that was written to its end names the line and repeats the payload of the
\* capture event it stands beside, also when a death left the event without one.
THEOREM SidecarsRepeatEvents == Spec => []SidecarsAreEvents
<1>1. CInv => SidecarsAreEvents
  BY DEF CInv, Recorded, SidecarsOn, SidecarsAreEvents, EventsOf
<1> QED BY <1>1, Invariance, PTL

LEMMA AppendedPollIsNew ==
  ASSUME CInv, AppendPoll
  PROVE  Last(ledger').type = "schedule_poll" /\ Last(ledger').payload.date # saved.lastPoll
<1> DEFINE event == [type |-> "schedule_poll", recordedAt |-> run.recordedAt,
                     payload |-> [date |-> Day(run.now), games |-> run.references]]
<1>1. pc = "amend" /\ ledger' = Append(ledger, event)
  BY DEF AppendPoll, AppendEvent
<1>2. ledger \in Seq(Events)
  BY DEF CInv, CollectorTypeOK
<1>3. Last(ledger') = event
  <2> HIDE DEF event
  <2> QED BY <1>1, <1>2 DEF Last
<1>4. saved.lastPoll # Day(run.now)
  BY <1>1 DEF CInv, PollsOnce
<1> QED BY <1>3, <1>4

LEMMA AppendedCaptureIsNew ==
  ASSUME CInv, AppendCapture,
         NEW j \in DOMAIN saved.games, saved.games[j].id = CaptureEvent.payload.id
  PROVE  \E k \in DOMAIN saved.games :
           /\ saved.games[k].id = CaptureEvent.payload.id
           /\ CaptureEvent.payload.cutoffType \notin saved.games[k].captures
<1> DEFINE place == run.capture.item[1]
<1>1. pc = "appendCapture" /\ pc \in Capturing /\ pc # "idle"
  BY DEF AppendCapture, Capturing
<1>2. /\ run \in Runs /\ place \in DOMAIN run.state.games
      /\ CapturedCutoff \notin run.state.games[place].captures
      /\ CaptureEvent.payload.id = run.state.games[place].id
      /\ CaptureEvent.payload.cutoffType = CapturedCutoff
  BY <1>1, CaptureInHand, EventOfCapture DEF CapturedGame
<1>3. Extends(saved.games, run.state.games)
  BY <1>1 DEF CInv, IndexGrows
<1>4. /\ Len(saved.games) \in Nat /\ DOMAIN saved.games = 1..Len(saved.games)
      /\ Len(run.state.games) \in Nat /\ DOMAIN run.state.games = 1..Len(run.state.games)
  BY <1>2 DEF CInv, CollectorTypeOK, Runs, Indexes
<1>5. place \in DOMAIN saved.games
  <2>1. ASSUME place \notin DOMAIN saved.games PROVE FALSE
    <3>1. place \in (Len(saved.games) + 1)..Len(run.state.games)
      BY <1>2, <1>4, <2>1
    <3>2. run.state.games[place].id # saved.games[j].id
      BY <1>3, <1>4, <3>1 DEF Extends
    <3> QED BY <1>2, <3>2
  <2> QED BY <2>1
<1>6. /\ run.state.games[place].id = saved.games[place].id
      /\ saved.games[place].captures \subseteq run.state.games[place].captures
  BY <1>3, <1>4, <1>5 DEF Extends
<1> QED BY <1>2, <1>5, <1>6

\* What a saved invocation has done no later one does again: an event that a step appends is
\* no poll of the saved day, and no capture of a game whose every saved record has its cutoff.
THEOREM NothingSavedIsRepeated == Spec => SavedIsNotRepeated
<1> DEFINE Fresh ==
      LET event == Last(ledger') IN
         /\ event.type = "schedule_poll" => event.payload.date # saved.lastPoll
         /\ event.type = "capture" =>
              LET same == {k \in DOMAIN saved.games : saved.games[k].id = event.payload.id} IN
                same # {} => \E k \in same : event.payload.cutoffType \notin saved.games[k].captures
<1>1. CInv /\ [Next]_vars => [ledger' # ledger => Fresh]_vars
  <2> SUFFICES ASSUME CInv, Next, ledger' # ledger PROVE Fresh
    BY DEF vars
  <2>1. AppendAmendment \/ AppendPoll \/ AppendCapture
    BY DEF Next, Tick, ChangeSchedule, Begin, Poll, Capture, SaveState, Crash, ReusePoll,
           FetchPoll, WritePoll, Reconcile, FindDue, BeginCapture, ReuseReport, FetchReport,
           SkipReport, WriteReport, ReuseScoreboard, FetchScoreboard, WriteScoreboard,
           KeepSidecar, CreateSidecar, WriteSidecar
  <2>2. ledger \in Seq(Events)
    BY DEF CInv, CollectorTypeOK
  <2>3. CASE AppendAmendment
    <3> DEFINE event == [type |-> "schedule_amendment", recordedAt |-> run.recordedAt,
                         payload |-> Head(run.amendments)]
    <3>1. ledger' = Append(ledger, event)
      BY <2>3 DEF AppendAmendment, AppendEvent
    <3>2. event.type = "schedule_amendment"
      OBVIOUS
    <3> HIDE DEF event
    <3>3. Last(ledger') = event
      BY <2>2, <3>1 DEF Last
    <3> QED BY <3>2, <3>3
  <2>4. CASE AppendPoll
    BY <2>4, AppendedPollIsNew
  <2>5. CASE AppendCapture
    <3>1. ledger' = Append(ledger, CaptureEvent)
      BY <2>5 DEF AppendCapture, AppendEvent
    <3>2. Last(ledger') = CaptureEvent
      <4> HIDE DEF CaptureEvent
      <4> QED BY <2>2, <3>1 DEF Last
    <3>3. CaptureEvent.type = "capture"
      BY DEF CaptureEvent
    <3> QED BY <2>5, <3>2, <3>3, AppendedCaptureIsNew
  <2> QED BY <2>1, <2>3, <2>4, <2>5
<1> QED BY <1>1, Invariance, PTL DEF Spec, SavedIsNotRepeated

=============================================================================
