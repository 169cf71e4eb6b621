----------------------- MODULE InferenceRuntimeProofs -----------------------
(***************************************************************************)
(* Proofs about InferenceRuntime, for every number of games, of            *)
(* overlapping invocations and of deaths.                                  *)
(*                                                                         *)
(* Only the invocations that hold the journal's lock exclude each other:   *)
(* any number may stand before it, at the prompt file.  The invariant says *)
(* what the place of the holder means for the journal, and what the place  *)
(* of the others means for the prompt file.                                *)
(***************************************************************************)
EXTENDS InferenceRuntime, TLAPS

-----------------------------------------------------------------------------
(* The journal, one event longer.                                          *)

StartOf(e) == IF e.kind = "started" THEN {e.game} ELSE {}
EndOf(e) == IF e.kind = "terminal" THEN {Record(e.game, e.status)} ELSE {}

LEMMA AppendIndices ==
  ASSUME NEW j \in Seq(Events), NEW e \in Events
  PROVE  /\ Append(j, e) \in Seq(Events)
         /\ DOMAIN j = 1..Len(j)
         /\ Len(j) \in Nat
         /\ DOMAIN Append(j, e) = 1..(Len(j) + 1)
         /\ Append(j, e)[Len(j) + 1] = e
         /\ \A i \in 1..Len(j) : Append(j, e)[i] = j[i]
OBVIOUS

LEMMA StartedGamesAppend ==
  ASSUME NEW j \in Seq(Events), NEW e \in Events
  PROVE  StartedGames(Append(j, e)) = StartedGames(j) \cup StartOf(e)
<1> DEFINE k == Append(j, e)
<1>1. \A i \in DOMAIN j : i \in DOMAIN k /\ k[i] = j[i]
  BY AppendIndices
<1>2. \A i \in DOMAIN k : i \in DOMAIN j \/ (i = Len(j) + 1 /\ k[i] = e)
  BY AppendIndices
<1>3. Len(j) + 1 \in DOMAIN k /\ k[Len(j) + 1] = e
  BY AppendIndices
<1> HIDE DEF k
<1> QED BY <1>1, <1>2, <1>3 DEF StartedGames, StartOf, k

LEMMA TerminalRecordsAppend ==
  ASSUME NEW j \in Seq(Events), NEW e \in Events
  PROVE  TerminalRecords(Append(j, e)) = TerminalRecords(j) \cup EndOf(e)
<1> DEFINE k == Append(j, e)
<1>1. \A i \in DOMAIN j : i \in DOMAIN k /\ k[i] = j[i]
  BY AppendIndices
<1>2. \A i \in DOMAIN k : i \in DOMAIN j \/ (i = Len(j) + 1 /\ k[i] = e)
  BY AppendIndices
<1>3. Len(j) + 1 \in DOMAIN k /\ k[Len(j) + 1] = e
  BY AppendIndices
<1> HIDE DEF k
<1> QED BY <1>1, <1>2, <1>3 DEF TerminalRecords, EndOf, k

\* The games that a journal leaves open, and those it ends.
Ended(j) == GamesOf(TerminalRecords(j))
Active(j) == StartedGames(j) \ Ended(j)

LEMMA EndedGames ==
  ASSUME NEW j, NEW g
  PROVE  g \in Ended(j) <=> \E i \in DOMAIN j : j[i].kind = "terminal" /\ j[i].game = g
<1>1. g \in Ended(j) <=> \E rec \in TerminalRecords(j) : rec.game = g
  BY DEF Ended, GamesOf
<1>2. \A h, s : Record(h, s).game = h
  BY DEF Record
<1> QED BY <1>1, <1>2 DEF TerminalRecords

LEMMA EndedAppend ==
  ASSUME NEW j \in Seq(Events), NEW e \in Events
  PROVE  Ended(Append(j, e)) = Ended(j) \cup (IF e.kind = "terminal" THEN {e.game} ELSE {})
<1>1. \A h, s : Record(h, s).game = h
  BY DEF Record
<1> QED BY <1>1, TerminalRecordsAppend DEF Ended, GamesOf, EndOf

\* What the holder may append: a new game when none is open, or the end of the open one.
Acceptable(j, e) ==
  /\ e.kind = "started" => e.game \notin StartedGames(j) \cup Ended(j) /\ Active(j) = {}
  /\ e.kind = "terminal" => e.game \in Active(j)

LEMMA ReadableAppend ==
  ASSUME NEW j \in Seq(Events), NEW e \in Events, Readable(j), Acceptable(j, e)
  PROVE  Readable(Append(j, e))
<1> DEFINE k == Append(j, e)
           n == Len(j) + 1
<1>0. /\ DOMAIN j = 1..(n - 1) /\ DOMAIN k = 1..n /\ n \in Nat /\ k[n] = e
      /\ \A i \in 1..(n - 1) : k[i] = j[i]
  BY AppendIndices
<1>1. \A i \in DOMAIN j : k[i] = j[i] /\ \A kind : Earlier(k, i, kind) = Earlier(j, i, kind)
  BY <1>0 DEF Earlier
<1>2. \A i \in DOMAIN j : EventAccepted(k, i)
  BY <1>1 DEF Readable, EventAccepted
<1>3. \A kind : Earlier(k, n, kind) = {l \in DOMAIN j : j[l].kind = kind /\ j[l].game = e.game}
  BY <1>0 DEF Earlier
<1>4. Earlier(k, n, "started") # {} <=> e.game \in StartedGames(j)
  BY <1>3 DEF StartedGames
<1>5. Earlier(k, n, "terminal") # {} <=> e.game \in Ended(j)
  <2>1. e.game \in Ended(j) <=> \E i \in DOMAIN j : j[i].kind = "terminal" /\ j[i].game = e.game
    BY EndedGames
  <2> HIDE DEF k, n
  <2> QED BY <1>3, <2>1
<1> HIDE DEF k, n
<1>6. EventAccepted(k, n)
  BY <1>0, <1>4, <1>5 DEF EventAccepted, Acceptable, Active
<1>7. \A i \in DOMAIN k : i \in DOMAIN j \/ i = n
  BY <1>0
<1> QED BY <1>2, <1>6, <1>7 DEF Readable, k

LEMMA StartedShape ==
  ASSUME NEW g \in Games
  PROVE  Started(g) \in Events /\ Started(g).kind = "started" /\ Started(g).game = g
BY DEF Events, Started

LEMMA TerminalShape ==
  ASSUME NEW g \in Games, NEW s \in Outcomes
  PROVE  /\ Terminal(g, s) \in Events
         /\ Terminal(g, s).kind = "terminal"
         /\ Terminal(g, s).game = g /\ Terminal(g, s).status = s
<1>1. Terminal(g, s) \in {Terminal(h, t) : h \in Games, t \in Outcomes}
  OBVIOUS
<1> QED BY <1>1 DEF Events, Terminal

LEMMA EventShapes ==
  ASSUME NEW e \in Events
  PROVE  /\ e.kind \in {"started", "terminal"}
         /\ e.game \in Games
         /\ e.kind = "terminal" => e.status \in Outcomes
<1>1. CASE e \in {Started(g) : g \in Games}
  BY <1>1 DEF Started
<1>2. CASE e \in {Terminal(g, s) : g \in Games, s \in Outcomes}
  BY <1>2 DEF Terminal
<1> QED BY <1>1, <1>2 DEF Events

LEMMA JournalTypes ==
  ASSUME NEW j \in Seq(Events)
  PROVE  /\ StartedGames(j) \subseteq Games
         /\ TerminalRecords(j) \subseteq Records
         /\ Ended(j) \subseteq Games
<1>1. \A i \in DOMAIN j : j[i] \in Events
  OBVIOUS
<1>2. StartedGames(j) \subseteq Games
  BY <1>1, EventShapes DEF StartedGames
<1>3. \A g \in Games, s \in Outcomes : Record(g, s) \in Records
  BY DEF Record, Records
<1>4. TerminalRecords(j) \subseteq Records
  BY <1>1, <1>3, EventShapes DEF TerminalRecords
<1> QED BY <1>2, <1>4 DEF Ended, GamesOf, Records

\* The three states of a file are told apart.
LEMMA FileStates ==
  /\ Absent # Partial
  /\ \A c : Whole(c) # Absent /\ Whole(c) # Partial /\ Whole(c).state = "whole" /\ Whole(c).content = c
  /\ Absent.state = "absent" /\ Partial.state = "partial"
BY DEF Absent, Partial, Whole

-----------------------------------------------------------------------------
(* The inductive invariant.                                                *)

Compiling == {"records", "recordsPartial", "forecasts", "forecastsPartial"}
Loaded == {"terminalize", "append", "call", "await"} \cup Compiling
Locked == {"read"} \cup Loaded

RuntimeTypeOK ==
  /\ journal \in Seq(Events)
  /\ torn \in BOOLEAN
  /\ lock \in Runners \cup {None}
  /\ pc \in [Runners -> Labels]
  /\ view \in [Runners -> [started : SUBSET Games, terminal : SUBSET Records]]
  /\ event \in [Runners -> Events \cup {None}]
  /\ calls \in [Games -> Nat]
  /\ crashes \in 0..MaxCrashes

\* Beyond the opening of the journal there is only the holder of its lock.
LockInv == \A r \in Runners : pc[r] \in Locked <=> lock = r

\* The prompt file has one writer, and nobody goes past it before it is whole.
PromptsInv ==
  /\ prompts \in {Absent, Partial, Whole(Games)}
  /\ \A r \in Runners : pc[r] = "promptsPartial" =>
       prompts = Partial /\ \A q \in Runners : pc[q] = "promptsPartial" => q = r
  /\ \A r \in Runners : pc[r] \in Locked \cup {"open"} => prompts = Whole(Games)

\* Games are asked about one at a time, each started before it is ended, once.
JournalInv ==
  /\ Readable(journal)
  /\ Ended(journal) \subseteq StartedGames(journal)
  /\ \A g, h \in Active(journal) : g = h
  /\ \A p, q \in TerminalRecords(journal) : p.game = q.game => p = q

\* Calls are for started games, and a completed game was called once.
CallsInv ==
  \A g \in Games :
    /\ calls[g] <= 1
    /\ calls[g] > 0 => prompts = Whole(Games) /\ g \in StartedGames(journal)
    /\ Record(g, "completed") \in TerminalRecords(journal) => calls[g] = 1

\* Once the journal is read, no tail is torn and the holder's maps are the journal's.
MemoryInv ==
  \A r \in Runners : pc[r] \in Loaded =>
    /\ ~torn
    /\ view[r].started = StartedGames(journal)
    /\ view[r].terminal = TerminalRecords(journal)

\* What the place of the holder says of the game it is working on.
AppendInv(r) ==
  /\ event[r] \in Events
  /\ Acceptable(journal, event[r])
  /\ event[r].kind = "terminal" /\ event[r].status = "completed" => calls[event[r].game] = 1
GameInv(r) ==
  /\ event[r] \in Events
  /\ event[r].game \in Active(journal)
  /\ calls[event[r].game] = IF pc[r] = "call" THEN 0 ELSE 1
PlaceInv ==
  \A r \in Runners :
    /\ pc[r] = "append" => AppendInv(r)
    /\ pc[r] \in {"call", "await"} => GameInv(r)
    /\ pc[r] \in Compiling => Active(journal) = {} /\ Ended(journal) = Games

\* What is compiled, and how far its writer has come.
OutputsInv ==
  /\ records \in {Absent, Partial, Whole(TerminalRecords(journal))}
  /\ records # Absent => Ended(journal) = Games
  /\ forecasts \in {Absent, Partial, Whole(ForecastsOf(TerminalRecords(journal)))}
  /\ forecasts # Absent => records = Whole(TerminalRecords(journal))
  /\ \A r \in Runners :
       /\ pc[r] = "recordsPartial" => records = Partial
       /\ pc[r] \in {"forecasts", "forecastsPartial"} => records = Whole(TerminalRecords(journal))
       /\ pc[r] = "forecastsPartial" => forecasts = Partial

IInv ==
  /\ RuntimeTypeOK /\ LockInv /\ PromptsInv /\ JournalInv /\ CallsInv /\ MemoryInv
  /\ PlaceInv /\ OutputsInv

LEMMA InitIInv == Init => IInv
<1> SUFFICES ASSUME Init PROVE IInv
  OBVIOUS
<1>1. /\ StartedGames(journal) = {} /\ TerminalRecords(journal) = {}
      /\ Ended(journal) = {} /\ Active(journal) = {}
  BY DEF Init, StartedGames, TerminalRecords, Ended, Active, GamesOf
<1>2. RuntimeTypeOK
  <2>1. crashes \in 0..MaxCrashes /\ journal \in Seq(Events)
    BY MaxCrashesAssumption DEF Init
  <2>2. view \in [Runners -> [started : SUBSET Games, terminal : SUBSET Records]]
    BY DEF Init, EmptyView
  <2> QED BY <2>1, <2>2 DEF Init, RuntimeTypeOK, Labels
<1>3. \A r \in Runners : pc[r] = "idle" /\ lock # r
  BY NoneAssumption DEF Init
<1>4. LockInv /\ PromptsInv /\ MemoryInv /\ PlaceInv /\ OutputsInv
  BY <1>3 DEF Init, LockInv, PromptsInv, MemoryInv, PlaceInv, OutputsInv, Locked, Loaded, Compiling
<1>5. JournalInv
  BY <1>1 DEF Init, JournalInv, Readable
<1>6. CallsInv
  BY <1>1 DEF Init, CallsInv
<1> QED BY <1>2, <1>4, <1>5, <1>6 DEF IInv

-----------------------------------------------------------------------------
(* Steps that every action is made of.                                     *)

LEMMA OthersOutside ==
  ASSUME IInv, NEW r \in Runners, pc[r] \in Locked
  PROVE  lock = r /\ \A q \in Runners : q # r => pc[q] \notin Locked
BY DEF IInv, LockInv

LEMMA GotoMoves ==
  ASSUME RuntimeTypeOK, NEW r \in Runners, NEW label \in Labels, Goto(r, label)
  PROVE  /\ pc' \in [Runners -> Labels]
         /\ pc'[r] = label
         /\ \A q \in Runners : q # r => pc'[q] = pc[q]
BY DEF RuntimeTypeOK, Goto

\* Ending an invocation, with nothing else changed but perhaps the tail, or the
\* forecasts completed.
LEMMA LeaveStep ==
  ASSUME IInv, NEW r \in Runners, pc[r] # "idle", Leave(r),
         UNCHANGED <<prompts, journal, records, calls>>,
         \/ forecasts' = forecasts
         \/ pc[r] = "forecastsPartial" /\ forecasts' = Whole(ForecastsOf(TerminalRecords(journal))),
         torn' \in BOOLEAN, torn' = torn \/ pc[r] \in Locked,
         crashes' \in 0..MaxCrashes
  PROVE  IInv'
<1>1. pc' \in [Runners -> Labels] /\ pc'[r] = "idle" /\ \A q \in Runners : q # r => pc'[q] = pc[q]
  BY GotoMoves DEF IInv, Leave, Labels
<1>2. RuntimeTypeOK'
  <2>1. /\ view' \in [Runners -> [started : SUBSET Games, terminal : SUBSET Records]]
        /\ event' \in [Runners -> Events \cup {None}]
        /\ lock' \in Runners \cup {None}
    BY DEF IInv, RuntimeTypeOK, Leave, EmptyView
  <2> QED BY <1>1, <2>1 DEF IInv, RuntimeTypeOK
<1>3. LockInv'
  BY <1>1, NoneAssumption DEF IInv, LockInv, Leave, Locked, Loaded, Compiling
<1>4. PromptsInv'
  BY <1>1 DEF IInv, PromptsInv, Locked, Loaded, Compiling
<1>5. JournalInv' /\ CallsInv'
  BY DEF IInv, JournalInv, CallsInv
<1>6. \A q \in Runners : q # r => view'[q] = view[q] /\ event'[q] = event[q]
  BY DEF IInv, RuntimeTypeOK, Leave
<1>7. \A q \in Runners : pc'[q] \in Loaded => q # r /\ torn' = torn
  BY <1>1, OthersOutside DEF Locked, Loaded, Compiling
<1>8. MemoryInv'
  BY <1>1, <1>6, <1>7 DEF IInv, MemoryInv
<1>9. PlaceInv'
  BY <1>1, <1>6, <1>7 DEF IInv, PlaceInv, AppendInv, GameInv, Loaded, Compiling
<1>10. OutputsInv'
  <2>1. \A q \in Runners : pc'[q] \in Compiling => pc[q] = pc'[q] /\ forecasts' = forecasts
    BY <1>1, OthersOutside DEF Locked, Loaded, Compiling
  <2> QED BY <2>1 DEF IInv, OutputsInv, Compiling
<1> QED BY <1>2, <1>3, <1>4, <1>5, <1>8, <1>9, <1>10 DEF IInv

\* Going on, before the journal is opened or behind it, with at most one file written.
LEMMA ContinueStep ==
  ASSUME IInv, NEW r \in Runners, NEW label \in Labels, Continue(r, label),
         pc[r] \in Locked <=> label \in Locked,
         label \in Loaded => pc[r] \in Loaded,
         label \notin {"append", "call", "await"},
         UNCHANGED <<journal, torn, calls, crashes>>,
         PromptsInv', OutputsInv', prompts = Whole(Games) => prompts' = prompts,
         label \in Compiling => Active(journal) = {} /\ Ended(journal) = Games
  PROVE  IInv'
<1>1. pc' \in [Runners -> Labels] /\ pc'[r] = label /\ \A q \in Runners : q # r => pc'[q] = pc[q]
  BY GotoMoves DEF IInv, Continue
<1>2. RuntimeTypeOK'
  BY <1>1 DEF IInv, RuntimeTypeOK, Continue
<1>3. LockInv'
  BY <1>1 DEF IInv, LockInv, Continue
<1>4. JournalInv' /\ CallsInv'
  BY DEF IInv, JournalInv, CallsInv
<1>5. MemoryInv'
  BY <1>1 DEF IInv, MemoryInv, Continue
<1>6. PlaceInv'
  BY <1>1 DEF IInv, PlaceInv, AppendInv, GameInv, Continue
<1> QED BY <1>2, <1>3, <1>4, <1>5, <1>6 DEF IInv

\* Starting to write an event that the reader will accept.
LEMMA BeginAppendStep ==
  ASSUME IInv, NEW r \in Runners, NEW e \in Events, BeginAppend(r, e),
         pc[r] \in Loaded,
         Acceptable(journal, e),
         e.kind = "terminal" /\ e.status = "completed" => calls[e.game] = 1
  PROVE  IInv'
<1>1. pc' \in [Runners -> Labels] /\ pc'[r] = "append" /\ \A q \in Runners : q # r => pc'[q] = pc[q]
  BY GotoMoves DEF IInv, BeginAppend, Labels
<1>2. lock = r /\ (\A q \in Runners : q # r => pc[q] \notin Locked) /\ event'[r] = e
  BY OthersOutside DEF IInv, RuntimeTypeOK, BeginAppend, Locked
<1>3. RuntimeTypeOK'
  BY <1>1 DEF IInv, RuntimeTypeOK, BeginAppend, fileVars
<1>4. LockInv'
  BY <1>1, <1>2 DEF LockInv, BeginAppend, Locked, Loaded
<1>5. PromptsInv'
  BY <1>1, <1>2 DEF IInv, PromptsInv, BeginAppend, fileVars, Locked, Loaded
<1>6. JournalInv' /\ CallsInv'
  BY DEF IInv, JournalInv, CallsInv, BeginAppend, fileVars
<1>7. MemoryInv'
  BY <1>1, <1>2 DEF IInv, MemoryInv, BeginAppend, fileVars, Locked
<1>8. PlaceInv'
  BY <1>1, <1>2 DEF PlaceInv, AppendInv, BeginAppend, fileVars, Locked, Loaded, Compiling
<1>9. OutputsInv'
  BY <1>1 DEF IInv, OutputsInv, BeginAppend, fileVars
<1> QED BY <1>3, <1>4, <1>5, <1>6, <1>7, <1>8, <1>9 DEF IInv

-----------------------------------------------------------------------------
(* Before the journal.                                                     *)

LEMMA PrepareStep ==
  ASSUME IInv, NEW r \in Runners, Prepare(r)
  PROVE  IInv'
<1>1. pc' \in [Runners -> Labels] /\ pc'[r] = "prompts" /\ \A q \in Runners : q # r => pc'[q] = pc[q]
  BY GotoMoves DEF IInv, Prepare, Continue, Labels
<1>2. PromptsInv' /\ OutputsInv'
  BY <1>1 DEF IInv, PromptsInv, OutputsInv, Prepare, fileVars, Locked, Loaded, Compiling
<1> QED BY <1>2, ContinueStep DEF Prepare, fileVars, Labels, Locked, Loaded, Compiling

LEMMA VerifyPromptsStep ==
  ASSUME IInv, NEW r \in Runners, VerifyPrompts(r)
  PROVE  IInv'
<1>1. CASE prompts = Whole(Games) /\ Continue(r, "open")
  <2>1. pc' \in [Runners -> Labels] /\ pc'[r] = "open" /\ \A q \in Runners : q # r => pc'[q] = pc[q]
    BY <1>1, GotoMoves DEF IInv, Continue, Labels
  <2>2. PromptsInv' /\ OutputsInv'
    BY <1>1, <2>1 DEF IInv, PromptsInv, OutputsInv, VerifyPrompts, fileVars
  <2> QED BY <1>1, <2>2, ContinueStep DEF VerifyPrompts, fileVars, Labels, Locked, Loaded, Compiling
<1>2. CASE Leave(r)
  BY <1>2, LeaveStep DEF VerifyPrompts, fileVars, IInv, RuntimeTypeOK
<1> QED BY <1>1, <1>2 DEF VerifyPrompts

LEMMA CreatePromptsStep ==
  ASSUME IInv, NEW r \in Runners, CreatePrompts(r)
  PROVE  IInv'
<1>1. /\ pc' \in [Runners -> Labels] /\ pc'[r] = "promptsPartial"
      /\ \A q \in Runners : q # r => pc'[q] = pc[q]
  BY GotoMoves DEF IInv, CreatePrompts, Continue, Labels
<1>2. PromptsInv'
  BY <1>1, FileStates DEF IInv, PromptsInv, CreatePrompts, Locked, Loaded, Compiling
<1>3. OutputsInv'
  BY <1>1 DEF IInv, OutputsInv, CreatePrompts
<1> QED BY <1>2, <1>3, FileStates, ContinueStep DEF CreatePrompts, Labels, Locked, Loaded, Compiling

LEMMA FinishPromptsStep ==
  ASSUME IInv, NEW r \in Runners, FinishPrompts(r)
  PROVE  IInv'
<1>1. pc' \in [Runners -> Labels] /\ pc'[r] = "open" /\ \A q \in Runners : q # r => pc'[q] = pc[q]
  BY GotoMoves DEF IInv, FinishPrompts, Continue, Labels
<1>2. PromptsInv'
  BY <1>1 DEF IInv, PromptsInv, FinishPrompts
<1>3. OutputsInv'
  BY <1>1 DEF IInv, OutputsInv, FinishPrompts
<1> QED BY <1>2, <1>3, ContinueStep DEF FinishPrompts, Labels, Locked, Loaded, Compiling

LEMMA OpenJournalStep ==
  ASSUME IInv, NEW r \in Runners, OpenJournal(r)
  PROVE  IInv'
<1>1. CASE Leave(r)
  BY <1>1, LeaveStep DEF OpenJournal, fileVars, IInv, RuntimeTypeOK
<1>2. CASE lock = None /\ lock' = r /\ Goto(r, "read") /\ UNCHANGED <<view, event>>
  <2>1. pc' \in [Runners -> Labels] /\ pc'[r] = "read" /\ \A q \in Runners : q # r => pc'[q] = pc[q]
    BY <1>2, GotoMoves DEF IInv, Labels
  <2>2. \A q \in Runners : pc[q] \notin Locked
    BY <1>2, NoneAssumption DEF IInv, LockInv
  <2>3. RuntimeTypeOK'
    BY <1>2, <2>1 DEF IInv, RuntimeTypeOK, OpenJournal, fileVars
  <2>4. LockInv'
    BY <1>2, <2>1, <2>2 DEF LockInv, Locked
  <2>5. PromptsInv'
    BY <2>1, <2>2 DEF IInv, PromptsInv, OpenJournal, fileVars
  <2>6. JournalInv' /\ CallsInv'
    BY DEF IInv, JournalInv, CallsInv, OpenJournal, fileVars
  <2>7. \A q \in Runners : pc'[q] \notin Loaded
    BY <2>1, <2>2 DEF Locked, Loaded, Compiling
  <2>8. MemoryInv' /\ PlaceInv'
    BY <2>7 DEF MemoryInv, PlaceInv, Loaded
  <2>9. OutputsInv'
    BY <2>7 DEF IInv, OutputsInv, OpenJournal, fileVars, Loaded, Compiling
  <2> QED BY <2>3, <2>4, <2>5, <2>6, <2>8, <2>9 DEF IInv
<1> QED BY <1>1, <1>2 DEF OpenJournal

-----------------------------------------------------------------------------
(* With the journal.                                                       *)

LEMMA RecoverPartialTailStep ==
  ASSUME IInv, NEW r \in Runners, RecoverPartialTail(r)
  PROVE  IInv'
BY DEF IInv, RecoverPartialTail, RuntimeTypeOK, LockInv, PromptsInv, JournalInv, CallsInv,
       MemoryInv, PlaceInv, AppendInv, GameInv, OutputsInv

LEMMA ReadJournalStep ==
  ASSUME IInv, NEW r \in Runners, ReadJournal(r)
  PROVE  IInv'
<1> SUFFICES ASSUME /\ view' = [view EXCEPT ![r] = [started |-> StartedGames(journal),
                                                    terminal |-> TerminalRecords(journal)]]
                    /\ Goto(r, "terminalize")
                    /\ UNCHANGED <<lock, event>>
             PROVE  IInv'
  BY DEF ReadJournal, IInv, JournalInv
<1>1. /\ pc' \in [Runners -> Labels] /\ pc'[r] = "terminalize"
      /\ \A q \in Runners : q # r => pc'[q] = pc[q]
  BY GotoMoves DEF IInv, Labels
<1>2. /\ pc[r] = "read" /\ ~torn
      /\ UNCHANGED <<prompts, journal, torn, records, forecasts, calls, crashes>>
  BY DEF ReadJournal, fileVars
<1>3. lock = r /\ \A q \in Runners : q # r => pc[q] \notin Locked
  BY <1>2, OthersOutside DEF Locked
<1>4. RuntimeTypeOK'
  <2>1. view' \in [Runners -> [started : SUBSET Games, terminal : SUBSET Records]]
    BY JournalTypes DEF IInv, RuntimeTypeOK
  <2> QED BY <1>1, <1>2, <2>1 DEF IInv, RuntimeTypeOK
<1>5. LockInv'
  BY <1>1, <1>3 DEF LockInv, Locked, Loaded
<1>6. PromptsInv'
  BY <1>1, <1>2 DEF IInv, PromptsInv, Locked, Loaded
<1>7. JournalInv' /\ CallsInv'
  BY <1>2 DEF IInv, JournalInv, CallsInv
<1>8. MemoryInv'
  BY <1>1, <1>2, <1>3 DEF IInv, RuntimeTypeOK, MemoryInv, Locked
<1>9. PlaceInv'
  BY <1>1, <1>3 DEF PlaceInv, Locked, Loaded, Compiling
<1>10. OutputsInv'
  BY <1>1, <1>2 DEF IInv, OutputsInv
<1> QED BY <1>4, <1>5, <1>6, <1>7, <1>8, <1>9, <1>10 DEF IInv

LEMMA TerminalizeInterruptedStep ==
  ASSUME IInv, NEW r \in Runners, TerminalizeInterrupted(r)
  PROVE  IInv'
<1>1. pc[r] \in Loaded /\ Interrupted(r) = Active(journal)
  BY DEF IInv, MemoryInv, Loaded, TerminalizeInterrupted, Interrupted, Active, Ended
<1>2. PICK g \in Active(journal) : BeginAppend(r, Terminal(g, "failed"))
  BY <1>1 DEF TerminalizeInterrupted, First
<1>3. g \in Games /\ "failed" \in Outcomes
  BY JournalTypes DEF IInv, RuntimeTypeOK, Active, Outcomes
<1> DEFINE e == Terminal(g, "failed")
<1>4. e \in Events /\ e.kind = "terminal" /\ e.game = g /\ e.status = "failed"
  BY <1>3, TerminalShape
<1>5. Acceptable(journal, e)
  BY <1>4 DEF Acceptable
<1> QED BY <1>1, <1>2, <1>4, <1>5, BeginAppendStep

LEMMA NextGameStep ==
  ASSUME IInv, NEW r \in Runners, NextGame(r)
  PROVE  IInv'
<1>1. /\ pc[r] \in Loaded /\ Active(journal) = {}
      /\ Pending(r) = Games \ Ended(journal)
  BY DEF IInv, MemoryInv, Loaded, NextGame, Interrupted, Pending, Active, Ended
<1>2. PICK g \in Games \ Ended(journal) : BeginAppend(r, Started(g))
  BY <1>1 DEF NextGame, First
<1>3. g \notin StartedGames(journal)
  BY <1>1 DEF Active
<1>4. Acceptable(journal, Started(g))
  BY <1>1, <1>2, <1>3, StartedShape DEF Acceptable
<1> QED BY <1>1, <1>2, <1>4, StartedShape, BeginAppendStep

LEMMA CallProviderStep ==
  ASSUME IInv, NEW r \in Runners, CallProvider(r)
  PROVE  IInv'
<1> DEFINE g == event[r].game
<1>1. pc' \in [Runners -> Labels] /\ pc'[r] = "await" /\ \A q \in Runners : q # r => pc'[q] = pc[q]
  BY GotoMoves DEF IInv, CallProvider, Continue, Labels
<1>2. /\ pc[r] = "call"
      /\ UNCHANGED <<prompts, journal, torn, records, forecasts, lock, view, event, crashes>>
  BY DEF CallProvider, Continue, fileVars
<1>3. lock = r /\ \A q \in Runners : q # r => pc[q] \notin Locked
  BY <1>2, OthersOutside DEF Locked, Loaded
<1>4. g \in Active(journal) /\ calls[g] = 0 /\ event[r] \in Events /\ prompts = Whole(Games)
  BY <1>2 DEF IInv, PlaceInv, GameInv, PromptsInv, Locked, Loaded
<1>5. g \in Games /\ g \in StartedGames(journal) /\ g \notin Ended(journal)
  BY <1>4, JournalTypes DEF IInv, RuntimeTypeOK, Active
<1>6. calls' = [calls EXCEPT ![g] = 1] /\ calls' \in [Games -> Nat]
  BY <1>4, <1>5 DEF IInv, RuntimeTypeOK, CallProvider
<1> HIDE DEF g
<1>7. RuntimeTypeOK'
  BY <1>1, <1>2, <1>6 DEF IInv, RuntimeTypeOK
<1>8. LockInv'
  BY <1>1, <1>2, <1>3 DEF LockInv, Locked, Loaded
<1>9. PromptsInv'
  BY <1>1, <1>2 DEF IInv, PromptsInv, Locked, Loaded
<1>10. JournalInv'
  BY <1>2 DEF IInv, JournalInv
<1>11. CallsInv'
  <2>1. \A h \in Games : calls'[h] = IF h = g THEN 1 ELSE calls[h]
    BY <1>5, <1>6 DEF IInv, RuntimeTypeOK
  <2> QED BY <1>2, <1>4, <1>5, <2>1 DEF IInv, CallsInv
<1>12. MemoryInv'
  BY <1>1, <1>2, <1>3 DEF IInv, MemoryInv, Locked, Loaded
<1>13. PlaceInv'
  <2>1. GameInv(r)'
    BY <1>1, <1>2, <1>4, <1>5, <1>6 DEF IInv, RuntimeTypeOK, GameInv, g
  <2> QED BY <1>1, <1>3, <2>1 DEF PlaceInv, Locked, Loaded, Compiling
<1>14. OutputsInv'
  BY <1>1, <1>2 DEF IInv, OutputsInv
<1> QED BY <1>7, <1>8, <1>9, <1>10, <1>11, <1>12, <1>13, <1>14 DEF IInv

LEMMA ScoreGameStep ==
  ASSUME IInv, NEW r \in Runners, ScoreGame(r)
  PROVE  IInv'
<1> DEFINE g == event[r].game
<1>1. pc[r] \in Loaded /\ g \in Active(journal) /\ calls[g] = 1
  BY DEF IInv, Loaded, PlaceInv, GameInv, ScoreGame
<1>2. g \in Games
  BY <1>1, JournalTypes DEF IInv, RuntimeTypeOK, Active
<1>3. PICK s \in Outcomes : BeginAppend(r, Terminal(g, s))
  BY DEF ScoreGame
<1> HIDE DEF g
<1>4. Acceptable(journal, Terminal(g, s))
  BY <1>1, <1>2, TerminalShape DEF Acceptable
<1> QED BY <1>1, <1>2, <1>3, <1>4, TerminalShape, BeginAppendStep

\* The only step that lengthens the journal.
LEMMA JournalGrows ==
  ASSUME IInv, NEW r \in Runners, FinishAppend(r)
  PROVE  /\ JournalInv' /\ CallsInv'
         /\ journal' \in Seq(Events)
         /\ event[r] \in Events /\ Acceptable(journal, event[r])
         /\ StartedGames(journal') = StartedGames(journal) \cup StartOf(event[r])
         /\ TerminalRecords(journal') = TerminalRecords(journal) \cup EndOf(event[r])
         /\ event[r].kind = "started" =>
              Active(journal') = {event[r].game} /\ calls[event[r].game] = 0
         /\ event[r].kind = "terminal" => Active(journal') = {}
         /\ event[r].game \in Games \ Ended(journal)
<1> DEFINE e == event[r]
           g == e.game
<1>1. /\ journal \in Seq(Events) /\ journal' = Append(journal, e)
      /\ calls' = calls /\ prompts' = prompts /\ calls \in [Games -> Nat]
  BY DEF IInv, RuntimeTypeOK, FinishAppend
<1>2. /\ e \in Events /\ Acceptable(journal, e) /\ g \in Games
      /\ e.kind = "terminal" /\ e.status = "completed" => calls[g] = 1
  BY EventShapes DEF IInv, PlaceInv, AppendInv, FinishAppend
<1> HIDE DEF e
<1>3. /\ StartedGames(journal') = StartedGames(journal) \cup StartOf(e)
      /\ TerminalRecords(journal') = TerminalRecords(journal) \cup EndOf(e)
      /\ Ended(journal') = Ended(journal) \cup (IF e.kind = "terminal" THEN {g} ELSE {})
      /\ Readable(journal')
      /\ journal' \in Seq(Events)
  BY <1>1, <1>2, StartedGamesAppend, TerminalRecordsAppend, EndedAppend, ReadableAppend,
     AppendIndices DEF IInv, JournalInv
<1>4. CASE e.kind = "started"
  <2>1. g \notin StartedGames(journal) /\ g \notin Ended(journal) /\ Active(journal) = {}
    BY <1>2, <1>4 DEF Acceptable
  <2>2. /\ StartedGames(journal') = StartedGames(journal) \cup {g}
        /\ TerminalRecords(journal') = TerminalRecords(journal)
        /\ Ended(journal') = Ended(journal)
    BY <1>3, <1>4 DEF StartOf, EndOf
  <2>3. Active(journal') = {g}
    BY <2>1, <2>2 DEF Active
  <2>4. calls[g] = 0
    BY <1>1, <1>2, <2>1 DEF IInv, CallsInv
  <2>5. JournalInv'
    BY <1>3, <2>2, <2>3 DEF IInv, JournalInv
  <2>6. CallsInv'
    BY <1>1, <2>2 DEF IInv, CallsInv
  <2> QED BY <1>2, <1>3, <1>4, <2>1, <2>3, <2>4, <2>5, <2>6 DEF e
<1>5. CASE e.kind = "terminal"
  <2> DEFINE rec == Record(g, e.status)
  <2>1. g \in StartedGames(journal) /\ g \notin Ended(journal)
    BY <1>2, <1>5 DEF Acceptable, Active
  <2>2. /\ StartedGames(journal') = StartedGames(journal)
        /\ TerminalRecords(journal') = TerminalRecords(journal) \cup {rec}
        /\ Ended(journal') = Ended(journal) \cup {g}
    BY <1>3, <1>5 DEF StartOf, EndOf
  <2>3. Active(journal') = {}
    BY <1>2, <1>5, <2>1, <2>2 DEF IInv, JournalInv, Active, Acceptable
  <2>4. rec.game = g /\ \A h : rec = Record(h, "completed") => h = g /\ e.status = "completed"
    BY DEF Record
  <2>5. \A p \in TerminalRecords(journal) : p.game # g
    BY <2>1 DEF Ended, GamesOf
  <2> HIDE DEF rec
  <2>6. JournalInv'
    <3>1. \A p, q \in TerminalRecords(journal') : p.game = q.game => p = q
      BY <2>2, <2>4, <2>5 DEF IInv, JournalInv
    <3> QED BY <1>3, <2>1, <2>2, <2>3, <3>1 DEF IInv, JournalInv
  <2>7. CallsInv'
    BY <1>1, <1>2, <1>5, <2>2, <2>4 DEF IInv, CallsInv
  <2> QED BY <1>2, <1>3, <1>5, <2>1, <2>3, <2>6, <2>7 DEF e
<1> QED BY <1>2, <1>4, <1>5, EventShapes

LEMMA FinishAppendStep ==
  ASSUME IInv, NEW r \in Runners, FinishAppend(r)
  PROVE  IInv'
<1> DEFINE e == event[r]
           Label == IF e.kind = "started" THEN "call" ELSE "terminalize"
<1>1. /\ pc[r] = "append" /\ torn' = FALSE
      /\ UNCHANGED <<prompts, records, forecasts, lock, event, calls, crashes>>
  BY DEF FinishAppend
<1>2. lock = r /\ \A q \in Runners : q # r => pc[q] \notin Locked
  BY <1>1, OthersOutside DEF Locked, Loaded
<1>3. e \in Events /\ e.kind \in {"started", "terminal"} /\ e.game \in Games
  BY JournalGrows, EventShapes
<1>4. Goto(r, Label) /\ Label \in {"call", "terminalize"}
  BY <1>3 DEF FinishAppend
<1>5. pc' \in [Runners -> Labels] /\ pc'[r] = Label /\ \A q \in Runners : q # r => pc'[q] = pc[q]
  BY <1>4, GotoMoves DEF IInv, Labels
<1>6. /\ view' \in [Runners -> [started : SUBSET Games, terminal : SUBSET Records]]
      /\ view'[r].started = StartedGames(journal')
      /\ view'[r].terminal = TerminalRecords(journal')
  <2>1. /\ view[r] \in [started : SUBSET Games, terminal : SUBSET Records]
        /\ view[r].started = StartedGames(journal) /\ view[r].terminal = TerminalRecords(journal)
    BY <1>1 DEF IInv, RuntimeTypeOK, MemoryInv, Loaded
  <2>2. CASE e.kind = "started"
    <3>1. view' = [view EXCEPT ![r].started = @ \cup {e.game}]
      BY <2>2 DEF FinishAppend
    <3> QED BY <1>3, <2>1, <2>2, <3>1, JournalGrows DEF IInv, RuntimeTypeOK, StartOf, EndOf
  <2>3. CASE e.kind = "terminal"
    <3>1. view' = [view EXCEPT ![r].terminal = @ \cup {Record(e.game, e.status)}]
      BY <2>3 DEF FinishAppend
    <3>2. Record(e.game, e.status) \in Records
      BY <1>3, <2>3, EventShapes DEF Record, Records
    <3> QED BY <1>3, <2>1, <2>3, <3>1, <3>2, JournalGrows DEF IInv, RuntimeTypeOK, StartOf, EndOf
  <2> QED BY <1>3, <2>2, <2>3
<1>7. RuntimeTypeOK'
  BY <1>1, <1>5, <1>6, JournalGrows DEF IInv, RuntimeTypeOK
<1>8. LockInv'
  BY <1>1, <1>2, <1>4, <1>5 DEF LockInv, Locked, Loaded
<1>9. PromptsInv'
  BY <1>1, <1>4, <1>5 DEF IInv, PromptsInv, Locked, Loaded
<1>10. MemoryInv'
  BY <1>1, <1>2, <1>5, <1>6 DEF MemoryInv, Locked
<1>11. PlaceInv'
  <2>1. pc'[r] = "call" => GameInv(r)'
    BY <1>1, <1>3, <1>5, JournalGrows DEF GameInv
  <2> QED BY <1>2, <1>4, <1>5, <2>1 DEF PlaceInv, Locked, Loaded, Compiling
<1>12. OutputsInv'
  <2>1. Ended(journal) # Games
    BY JournalGrows
  <2>2. records = Absent /\ forecasts = Absent
    BY <2>1, FileStates DEF IInv, OutputsInv
  <2>3. \A q \in Runners : pc'[q] \notin Compiling
    BY <1>2, <1>4, <1>5 DEF Locked, Loaded, Compiling
  <2> QED BY <1>1, <2>2, <2>3 DEF OutputsInv, Compiling
<1> QED BY <1>7, <1>8, <1>9, <1>10, <1>11, <1>12, JournalGrows DEF IInv

-----------------------------------------------------------------------------
(* Compiling.                                                              *)

LEMMA BeginCompileStep ==
  ASSUME IInv, NEW r \in Runners, BeginCompile(r)
  PROVE  IInv'
<1>1. pc' \in [Runners -> Labels] /\ pc'[r] = "records" /\ \A q \in Runners : q # r => pc'[q] = pc[q]
  BY GotoMoves DEF IInv, BeginCompile, Continue, Labels
<1>2. /\ pc[r] = "terminalize"
      /\ UNCHANGED <<prompts, journal, torn, records, forecasts, calls, crashes>>
  BY DEF BeginCompile, fileVars
<1>3. Active(journal) = {} /\ Ended(journal) = Games
  BY JournalTypes DEF IInv, RuntimeTypeOK, MemoryInv, Loaded, BeginCompile, Interrupted, Pending,
                      Active, Ended
<1>4. PromptsInv' /\ OutputsInv'
  BY <1>1, <1>2 DEF IInv, PromptsInv, OutputsInv, Locked, Loaded, Compiling
<1> QED BY <1>2, <1>3, <1>4, ContinueStep DEF BeginCompile, Labels, Locked, Loaded, Compiling

LEMMA CreateRecordsStep ==
  ASSUME IInv, NEW r \in Runners, CreateRecords(r)
  PROVE  IInv'
<1>1. /\ pc' \in [Runners -> Labels] /\ pc'[r] = "recordsPartial"
      /\ \A q \in Runners : q # r => pc'[q] = pc[q]
  BY GotoMoves DEF IInv, CreateRecords, Continue, Labels
<1>2. /\ pc[r] = "records" /\ records = Absent /\ records' = Partial
      /\ UNCHANGED <<prompts, journal, torn, forecasts, calls, crashes>>
  BY DEF CreateRecords
<1>3. Active(journal) = {} /\ Ended(journal) = Games
  BY <1>2 DEF IInv, PlaceInv, Compiling
<1>4. \A q \in Runners : q # r => pc'[q] \notin Locked
  BY <1>1, <1>2, OthersOutside DEF Locked, Loaded, Compiling
<1>5. PromptsInv'
  BY <1>1, <1>2 DEF IInv, PromptsInv, Locked, Loaded, Compiling
<1>6. OutputsInv'
  BY <1>1, <1>2, <1>3, <1>4, FileStates DEF IInv, OutputsInv, Locked, Loaded, Compiling
<1> QED BY <1>2, <1>3, <1>5, <1>6, ContinueStep DEF CreateRecords, Labels, Locked, Loaded, Compiling

LEMMA FinishRecordsStep ==
  ASSUME IInv, NEW r \in Runners, FinishRecords(r)
  PROVE  IInv'
<1>1. /\ pc' \in [Runners -> Labels] /\ pc'[r] = "forecasts"
      /\ \A q \in Runners : q # r => pc'[q] = pc[q]
  BY GotoMoves DEF IInv, FinishRecords, Continue, Labels
<1>2. /\ pc[r] = "recordsPartial" /\ records' = Whole(TerminalRecords(journal))
      /\ UNCHANGED <<prompts, journal, torn, forecasts, calls, crashes>>
  BY DEF IInv, MemoryInv, Loaded, Compiling, FinishRecords
<1>3. Active(journal) = {} /\ Ended(journal) = Games
  BY <1>2 DEF IInv, PlaceInv, Compiling
<1>4. \A q \in Runners : q # r => pc'[q] \notin Locked
  BY <1>1, <1>2, OthersOutside DEF Locked, Loaded, Compiling
<1>5. PromptsInv'
  BY <1>1, <1>2 DEF IInv, PromptsInv, Locked, Loaded, Compiling
<1>6. OutputsInv'
  BY <1>1, <1>2, <1>3, <1>4, FileStates DEF IInv, OutputsInv, Locked, Loaded, Compiling
<1> QED BY <1>2, <1>3, <1>5, <1>6, ContinueStep DEF FinishRecords, Labels, Locked, Loaded, Compiling

LEMMA VerifyRecordsStep ==
  ASSUME IInv, NEW r \in Runners, VerifyRecords(r)
  PROVE  IInv'
<1>1. CASE Leave(r)
  BY <1>1, LeaveStep DEF VerifyRecords, fileVars, IInv, RuntimeTypeOK
<1>2. CASE records = Whole(view[r].terminal) /\ Continue(r, "forecasts")
  <2>1. /\ pc' \in [Runners -> Labels] /\ pc'[r] = "forecasts"
        /\ \A q \in Runners : q # r => pc'[q] = pc[q]
    BY <1>2, GotoMoves DEF IInv, Continue, Labels
  <2>2. /\ pc[r] = "records" /\ records = Whole(TerminalRecords(journal))
        /\ UNCHANGED <<prompts, journal, torn, records, forecasts, calls, crashes>>
    BY <1>2 DEF IInv, MemoryInv, Loaded, Compiling, VerifyRecords, fileVars
  <2>3. Active(journal) = {} /\ Ended(journal) = Games
    BY <2>2 DEF IInv, PlaceInv, Compiling
  <2>4. PromptsInv' /\ OutputsInv'
    BY <2>1, <2>2 DEF IInv, PromptsInv, OutputsInv, Locked, Loaded, Compiling
  <2> QED BY <1>2, <2>2, <2>3, <2>4, ContinueStep DEF Labels, Locked, Loaded, Compiling
<1> QED BY <1>1, <1>2 DEF VerifyRecords

LEMMA CreateForecastsStep ==
  ASSUME IInv, NEW r \in Runners, CreateForecasts(r)
  PROVE  IInv'
<1>1. /\ pc' \in [Runners -> Labels] /\ pc'[r] = "forecastsPartial"
      /\ \A q \in Runners : q # r => pc'[q] = pc[q]
  BY GotoMoves DEF IInv, CreateForecasts, Continue, Labels
<1>2. /\ pc[r] = "forecasts" /\ forecasts = Absent /\ forecasts' = Partial
      /\ UNCHANGED <<prompts, journal, torn, records, calls, crashes>>
  BY DEF CreateForecasts
<1>3. Active(journal) = {} /\ Ended(journal) = Games
  BY <1>2 DEF IInv, PlaceInv, Compiling
<1>4. \A q \in Runners : q # r => pc'[q] \notin Locked
  BY <1>1, <1>2, OthersOutside DEF Locked, Loaded, Compiling
<1>5. PromptsInv'
  BY <1>1, <1>2 DEF IInv, PromptsInv, Locked, Loaded, Compiling
<1>6. OutputsInv'
  BY <1>1, <1>2, <1>4, FileStates DEF IInv, OutputsInv, Locked, Loaded, Compiling
<1> QED BY <1>2, <1>3, <1>5, <1>6, ContinueStep DEF CreateForecasts, Labels, Locked, Loaded, Compiling

LEMMA FinishForecastsStep ==
  ASSUME IInv, NEW r \in Runners, FinishForecasts(r)
  PROVE  IInv'
<1>1. /\ pc[r] = "forecastsPartial"
      /\ forecasts' = Whole(ForecastsOf(TerminalRecords(journal)))
  BY DEF IInv, MemoryInv, Loaded, Compiling, FinishForecasts
<1> QED BY <1>1, LeaveStep DEF FinishForecasts, IInv, RuntimeTypeOK

LEMMA VerifyForecastsStep ==
  ASSUME IInv, NEW r \in Runners, VerifyForecasts(r)
  PROVE  IInv'
BY LeaveStep DEF VerifyForecasts, fileVars, IInv, RuntimeTypeOK

LEMMA CrashStep ==
  ASSUME IInv, NEW r \in Runners, Crash(r)
  PROVE  IInv'
<1>1. torn' \in BOOLEAN /\ crashes' \in 0..MaxCrashes
  BY MaxCrashesAssumption DEF IInv, RuntimeTypeOK, Crash
<1>2. torn' = torn \/ pc[r] \in Locked
  BY DEF Crash, Locked, Loaded
<1> QED BY <1>1, <1>2, LeaveStep DEF Crash

-----------------------------------------------------------------------------
(* The theorems.                                                           *)

LEMMA NextIInv == IInv /\ [Next]_vars => IInv'
<1> SUFFICES ASSUME IInv, [Next]_vars PROVE IInv'
  OBVIOUS
<1>1. CASE UNCHANGED vars
  BY <1>1 DEF vars, IInv, RuntimeTypeOK, LockInv, PromptsInv, JournalInv, CallsInv, MemoryInv,
              PlaceInv, AppendInv, GameInv, OutputsInv
<1>2. ASSUME NEW r \in Runners, Step(r) PROVE IInv'
  BY <1>2, PrepareStep, VerifyPromptsStep, CreatePromptsStep, FinishPromptsStep, OpenJournalStep,
     RecoverPartialTailStep, ReadJournalStep, TerminalizeInterruptedStep, NextGameStep,
     FinishAppendStep, CallProviderStep, ScoreGameStep, BeginCompileStep, CreateRecordsStep,
     FinishRecordsStep, VerifyRecordsStep, CreateForecastsStep, FinishForecastsStep,
     VerifyForecastsStep DEF Step
<1>3. ASSUME NEW r \in Runners, Crash(r) PROVE IInv'
  BY <1>3, CrashStep
<1> QED BY <1>1, <1>2, <1>3 DEF Next

\* The strengthened invariant holds in every reachable state.
THEOREM Invariance == Spec => []IInv
<1> QED BY InitIInv, NextIInv, PTL DEF Spec

\* Every variable of the runtime keeps its type.
THEOREM TypeCorrectness == Spec => []RuntimeTypeOK
<1>1. IInv => RuntimeTypeOK
  BY DEF IInv
<1> QED BY <1>1, Invariance, PTL

\* No game is put to the provider before all prompts are whole on disk and its start is
\* durable -- for every number of games, overlapping invocations and deaths.
THEOREM PromptsComeFirst == Spec => []CallsFollowPrompts
<1>1. IInv => CallsFollowPrompts
  BY DEF IInv, CallsInv, CallsFollowPrompts
<1> QED BY <1>1, Invariance, PTL

\* Whatever dies and whoever compiles, whole outputs are the journal's verdicts and the
\* forecasts derived from them, one for every game.
THEOREM OutputsAgree == Spec => []CompiledOutputsAgree
<1>1. IInv => CompiledOutputsAgree
  <2> SUFFICES ASSUME IInv PROVE CompiledOutputsAgree
    OBVIOUS
  <2> DEFINE recs == TerminalRecords(journal)
  <2>1. records.state = "whole" => records.content = recs /\ GamesOf(records.content) = Games
    BY FileStates DEF IInv, OutputsInv, Ended
  <2>2. forecasts.state # "absent" => records.state = "whole"
    BY FileStates DEF IInv, OutputsInv
  <2>3. ASSUME forecasts.state = "whole", NEW g \in Games
        PROVE  [game |-> g, failed |-> Record(g, "failed") \in records.content] \in forecasts.content
    <3>1. forecasts.content = ForecastsOf(recs) /\ records.content = recs /\ g \in GamesOf(recs)
      BY <2>1, <2>2, <2>3, FileStates DEF IInv, OutputsInv
    <3>2. PICK rec \in recs : rec.game = g
      BY <3>1 DEF GamesOf
    <3>3. rec \in Records /\ rec = Record(g, rec.status) /\ rec.status \in Outcomes
      BY <3>2, JournalTypes DEF IInv, RuntimeTypeOK, Records, Record
    <3>4. rec.status = "failed" <=> Record(g, "failed") \in recs
      <4>1. Record(g, "failed").game = g /\ Record(g, "failed").status = "failed"
        BY DEF Record
      <4> QED BY <3>2, <3>3, <4>1 DEF IInv, JournalInv
    <3>5. [game |-> rec.game, failed |-> rec.status = "failed"] \in ForecastsOf(recs)
      BY DEF ForecastsOf
    <3> QED BY <3>1, <3>2, <3>4, <3>5
  <2> QED BY <2>1, <2>2, <2>3 DEF CompiledOutputsAgree
<1> QED BY <1>1, Invariance, PTL

-----------------------------------------------------------------------------
(* The runtime implements the single-attempt promise.                      *)

LEMMA VerdictCases ==
  ASSUME NEW g
  PROVE  /\ VerdictOf(g) = "none" <=> g \notin Ended(journal)
         /\ VerdictOf(g) = "completed" <=> Record(g, "completed") \in TerminalRecords(journal)
         /\ VerdictOf(g) \in {"none", "completed", "failed"}
<1>1. Record(g, "completed") \in TerminalRecords(journal) => g \in Ended(journal)
  BY DEF Record, Ended, GamesOf
<1> QED BY <1>1 DEF VerdictOf, Ended

LEMMA InitAbs == Init => Abs!AbsInit
<1> SUFFICES ASSUME Init PROVE Abs!AbsInit
  OBVIOUS
<1>1. Ended(journal) = {}
  BY DEF Init, TerminalRecords, Ended, GamesOf
<1>2. [g \in Games |-> VerdictOf(g)] = [g \in Games |-> "none"]
  BY <1>1, VerdictCases
<1>3. ~(forecasts.state = "whole")
  BY FileStates DEF Init
<1> QED BY <1>2, <1>3 DEF Abs!AbsInit, Init

\* A step that leaves the journal, the calls and the forecasts' state alone is no step above.
LEMMA QuietStep ==
  ASSUME UNCHANGED <<journal, calls>>, (forecasts.state = "whole") = (forecasts'.state = "whole")
  PROVE  UNCHANGED Abs!absVars
BY DEF Abs!absVars, VerdictOf

LEMMA CallIsAttempt ==
  ASSUME IInv, NEW r \in Runners, CallProvider(r)
  PROVE  \E g \in Games : Abs!Attempt(g)
<1> DEFINE g == event[r].game
<1>1. g \in Active(journal) /\ calls[g] = 0
  BY DEF IInv, PlaceInv, GameInv, CallProvider
<1>2. g \in Games /\ g \notin Ended(journal)
  BY <1>1, JournalTypes DEF IInv, RuntimeTypeOK, Active
<1>3. calls' = [calls EXCEPT ![g] = 1] /\ journal' = journal /\ forecasts' = forecasts
  BY <1>1, <1>2 DEF IInv, RuntimeTypeOK, CallProvider, fileVars
<1>4. \A h \in Games : ~(calls[h] > 0 /\ VerdictOf(h) = "none")
  BY <1>1, VerdictCases DEF IInv, JournalInv, CallsInv, Active
<1>5. VerdictOf(g) = "none"
  BY <1>2, VerdictCases
<1>6. [h \in Games |-> VerdictOf(h)]' = [h \in Games |-> VerdictOf(h)]
  BY <1>3 DEF VerdictOf
<1>7. ~(forecasts.state = "whole")
  BY <1>2, FileStates DEF IInv, OutputsInv
<1> HIDE DEF g
<1> QED BY <1>1, <1>2, <1>3, <1>4, <1>5, <1>6, <1>7 DEF Abs!Attempt, Abs!Outstanding

LEMMA EndIsDecide ==
  ASSUME IInv, NEW r \in Runners, FinishAppend(r), event[r].kind = "terminal"
  PROVE  \E g \in Games, result \in {"completed", "failed"} : Abs!Decide(g, result)
<1>1. PICK g \in Games, s \in Outcomes : event[r].game = g /\ event[r].status = s
  BY JournalGrows, EventShapes
<1>2. /\ g \notin Ended(journal)
      /\ TerminalRecords(journal') = TerminalRecords(journal) \cup {Record(g, s)}
  BY <1>1, JournalGrows DEF EndOf
<1>3. /\ calls' = calls /\ forecasts' = forecasts /\ ~(forecasts.state = "whole")
      /\ s = "completed" => calls[g] = 1
  BY <1>1, <1>2, FileStates DEF IInv, PlaceInv, AppendInv, OutputsInv, FinishAppend
<1>4. VerdictOf(g) = "none"
  BY <1>2, VerdictCases
<1>5. \A h \in Games : h # g => VerdictOf(h)' = VerdictOf(h)
  <2> SUFFICES ASSUME NEW h \in Games, h # g PROVE VerdictOf(h)' = VerdictOf(h)
    OBVIOUS
  <2>1. \A t : Record(g, s) # Record(h, t)
    BY DEF Record
  <2>2. Record(g, s).game # h
    BY DEF Record
  <2> QED BY <1>2, <2>1, <2>2 DEF VerdictOf, GamesOf
<1>6. VerdictOf(g)' = s
  <2>1. Record(g, "completed") \notin TerminalRecords(journal)
    BY <1>4, VerdictCases
  <2>2. Record(g, "completed") = Record(g, s) <=> s = "completed"
    BY DEF Record
  <2>3. g \in GamesOf(TerminalRecords(journal'))
    BY <1>2 DEF GamesOf, Record
  <2> QED BY <1>2, <2>1, <2>2, <2>3 DEF VerdictOf, Outcomes
<1>7. [h \in Games |-> VerdictOf(h)]' = [[h \in Games |-> VerdictOf(h)] EXCEPT ![g] = s]
  BY <1>5, <1>6
<1> QED BY <1>3, <1>4, <1>7 DEF Abs!Decide, Outcomes

LEMMA FinishIsSeal ==
  ASSUME IInv, NEW r \in Runners, FinishForecasts(r)
  PROVE  Abs!Seal
<1>1. /\ Ended(journal) = Games /\ journal' = journal /\ calls' = calls
      /\ ~(forecasts.state = "whole") /\ forecasts'.state = "whole"
  BY FileStates DEF IInv, PlaceInv, OutputsInv, Compiling, FinishForecasts
<1>2. \A g \in Games : VerdictOf(g) # "none"
  BY <1>1, VerdictCases
<1>3. [h \in Games |-> VerdictOf(h)]' = [h \in Games |-> VerdictOf(h)]
  BY <1>1 DEF VerdictOf
<1> QED BY <1>1, <1>2, <1>3 DEF Abs!Seal

\* Every behaviour of the runtime, deaths and overlaps included, is a behaviour of the
\* abstract specification: one attempt, one lasting verdict, forecasts over complete games.
THEOREM Implements == Spec => RuntimeSingleAttempt
<1>1. ASSUME IInv, [Next]_vars
      PROVE  [Abs!AbsNext]_(Abs!absVars)
  <2>1. CASE UNCHANGED vars
    BY <2>1, QuietStep DEF vars
  <2>2. ASSUME NEW r \in Runners, CallProvider(r)
        PROVE  [Abs!AbsNext]_(Abs!absVars)
    BY <1>1, <2>2, CallIsAttempt DEF Abs!AbsNext
  <2>3. ASSUME NEW r \in Runners, FinishAppend(r)
        PROVE  [Abs!AbsNext]_(Abs!absVars)
    <3>1. CASE event[r].kind = "terminal"
      BY <1>1, <2>3, <3>1, EndIsDecide DEF Abs!AbsNext, Abs!Verdicts
    <3>2. CASE event[r].kind # "terminal"
      <4>1. TerminalRecords(journal') = TerminalRecords(journal)
        BY <1>1, <2>3, <3>2, JournalGrows DEF EndOf
      <4> QED BY <2>3, <4>1 DEF FinishAppend, Abs!absVars, VerdictOf
    <3> QED BY <3>1, <3>2
  <2>4. ASSUME NEW r \in Runners, FinishForecasts(r)
        PROVE  [Abs!AbsNext]_(Abs!absVars)
    BY <1>1, <2>4, FinishIsSeal DEF Abs!AbsNext
  <2>5. ASSUME NEW r \in Runners, CreateForecasts(r)
        PROVE  [Abs!AbsNext]_(Abs!absVars)
    BY <2>5, FileStates, QuietStep DEF CreateForecasts
  <2>6. ASSUME NEW r \in Runners, Crash(r)
        PROVE  [Abs!AbsNext]_(Abs!absVars)
    BY <2>6, QuietStep DEF Crash
  <2>7. ASSUME NEW r \in Runners, Step(r), ~CallProvider(r), ~FinishAppend(r),
               ~CreateForecasts(r), ~FinishForecasts(r)
        PROVE  [Abs!AbsNext]_(Abs!absVars)
    <3>1. UNCHANGED <<journal, calls, forecasts>>
      BY <2>7 DEF Step, Prepare, VerifyPrompts, CreatePrompts, FinishPrompts, OpenJournal,
           RecoverPartialTail, ReadJournal, TerminalizeInterrupted, NextGame, ScoreGame,
           BeginAppend, BeginCompile, CreateRecords, FinishRecords, VerifyRecords,
           VerifyForecasts, fileVars
    <3> QED BY <3>1, QuietStep
  <2> QED BY <1>1, <2>1, <2>2, <2>3, <2>4, <2>5, <2>6, <2>7 DEF Next
<1>2. IInv /\ [Next]_vars => [Abs!AbsNext]_(Abs!absVars)
  BY <1>1
<1> QED BY <1>2, InitAbs, Invariance, PTL DEF Spec, RuntimeSingleAttempt, Abs!AbsSpec
=============================================================================
