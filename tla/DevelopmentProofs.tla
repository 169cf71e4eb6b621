------------------------- MODULE DevelopmentProofs -------------------------
(***************************************************************************)
(* Proofs about DevelopmentRun and DevelopmentEvaluation, for every number *)
(* of games, of runners and scorers at work at once and of deaths.         *)
(*                                                                         *)
(* The runner first: the lemmas that say what appending one event does to  *)
(* what the reader makes of a journal; the inductive invariant IInv; one   *)
(* lemma per action, that a step preserves it. The evaluation after it,    *)
(* over that invariant: from the moment a scorer has proved the outputs    *)
(* public, seal, journal and arms on disk are those at the published head. *)
(***************************************************************************)
EXTENDS DevelopmentEvaluation, TLAPS

-----------------------------------------------------------------------------
(* The journal, one event longer.                                          *)

StartOf(e) == IF e.kind = "started" THEN {e.unit} ELSE {}
EndOf(e) == IF e.kind = "completed" THEN {Record(e.unit, e.status)} ELSE {}

LEMMA AppendIndices ==
  ASSUME NEW j \in Seq(Events), NEW e \in Events
  PROVE  /\ Append(j, e) \in Seq(Events)
         /\ Append(j, e) # <<>>
         /\ DOMAIN j = 1..Len(j)
         /\ Len(j) \in Nat
         /\ DOMAIN Append(j, e) = 1..(Len(j) + 1)
         /\ Append(j, e)[Len(j) + 1] = e
         /\ \A i \in 1..Len(j) : Append(j, e)[i] = j[i]
OBVIOUS

LEMMA StartedUnitsAppend ==
  ASSUME NEW j \in Seq(Events), NEW e \in Events
  PROVE  StartedUnits(Append(j, e)) = StartedUnits(j) \cup StartOf(e)
<1> DEFINE k == Append(j, e)
<1>1. \A i \in DOMAIN j : i \in DOMAIN k /\ k[i] = j[i]
  BY AppendIndices
<1>2. \A i \in DOMAIN k : i \in DOMAIN j \/ (i = Len(j) + 1 /\ k[i] = e)
  BY AppendIndices
<1>3. Len(j) + 1 \in DOMAIN k /\ k[Len(j) + 1] = e
  BY AppendIndices
<1> HIDE DEF k
<1> QED BY <1>1, <1>2, <1>3 DEF StartedUnits, StartOf, k

LEMMA TerminalRecordsAppend ==
  ASSUME NEW j \in Seq(Events), NEW e \in Events
  PROVE  TerminalRecords(Append(j, e)) = TerminalRecords(j) \cup EndOf(e)
<1> DEFINE k == Append(j, e)
<1>1. \A i \in DOMAIN j : i \in DOMAIN k /\ k[i] = j[i]
  BY AppendIndices
<1>2. \A i \in DOMAIN k : i \in DOMAIN j \/ (i = Len(j) + 1 /\ k[i] = e)
  BY AppendIndices
<1>3. Len(j) + 1 \in DOMAIN k /\ k[Len(j) + 1] = e
  BY AppendIndices
<1> HIDE DEF k
<1> QED BY <1>1, <1>2, <1>3 DEF TerminalRecords, EndOf, k

\* The arms that a journal leaves open, and those it ends.
Ended(j) == UnitsOf(TerminalRecords(j))
Active(j) == StartedUnits(j) \ Ended(j)

LEMMA EndedUnits ==
  ASSUME NEW j, NEW u
  PROVE  u \in Ended(j) <=> \E i \in DOMAIN j : j[i].kind = "completed" /\ j[i].unit = u
<1>1. u \in Ended(j) <=> \E rec \in TerminalRecords(j) : rec.unit = u
  BY DEF Ended, UnitsOf
<1>2. \A v, s : Record(v, s).unit = v
  BY DEF Record
<1> QED BY <1>1, <1>2 DEF TerminalRecords

\* What the reader requires of one more event, in terms of the sets it keeps.
Acceptable(j, e) ==
  /\ e.kind = "started" => e.unit \notin StartedUnits(j) /\ Active(j) = {}
  /\ e.kind = "completed" => e.unit \in Active(j)

LEMMA ReadableAppend ==
  ASSUME NEW j \in Seq(Events), NEW e \in Events, Readable(j), Acceptable(j, e)
  PROVE  Readable(Append(j, e))
<1> DEFINE k == Append(j, e)
           n == Len(j) + 1
<1>0. /\ DOMAIN j = 1..(n - 1) /\ DOMAIN k = 1..n /\ n \in Nat /\ k[n] = e
      /\ \A i \in 1..(n - 1) : k[i] = j[i]
  BY AppendIndices
<1>1. \A i \in DOMAIN j : /\ StartsBefore(k, i) = StartsBefore(j, i)
                          /\ \A u : EndsBefore(k, i, u) = EndsBefore(j, i, u)
                          /\ k[i] = j[i]
  BY <1>0 DEF StartsBefore, EndsBefore
<1>2. \A i \in DOMAIN j : /\ k[i].kind = "started" => StartAccepted(k, i)
                          /\ k[i].kind = "completed" => EndAccepted(k, i)
  <2> TAKE i \in DOMAIN j
  <2>1. i \in 1..(n - 1) /\ (\A l \in 1..(i - 1) : l \in DOMAIN j)
    BY <1>0
  <2>2. StartAccepted(j, i) => StartAccepted(k, i)
    BY <1>1, <2>1 DEF StartAccepted, StartsBefore
  <2>3. EndAccepted(j, i) => EndAccepted(k, i)
    BY <1>1, <2>1 DEF EndAccepted, StartsBefore
  <2> QED BY <1>1, <2>2, <2>3 DEF Readable
<1>3. /\ StartsBefore(k, n) = {l \in DOMAIN j : j[l].kind = "started"}
      /\ \A u : EndsBefore(k, n, u) = {l \in DOMAIN j : j[l].kind = "completed" /\ j[l].unit = u}
  BY <1>0 DEF StartsBefore, EndsBefore
<1>4. \A l \in StartsBefore(k, n) : l \in DOMAIN j /\ k[l] = j[l] /\ j[l].unit \in StartedUnits(j)
  BY <1>0, <1>3 DEF StartedUnits
<1>5. \A u : u \in StartedUnits(j) => \E l \in StartsBefore(k, n) : k[l].unit = u
  BY <1>0, <1>3 DEF StartedUnits
<1>6. \A u : u \in Ended(j) <=> EndsBefore(k, n, u) # {}
  <2> TAKE u
  <2>1. u \in Ended(j) <=> \E i \in DOMAIN j : j[i].kind = "completed" /\ j[i].unit = u
    BY EndedUnits
  <2>2. EndsBefore(k, n, u) = {l \in DOMAIN j : j[l].kind = "completed" /\ j[l].unit = u}
    BY <1>3
  <2> HIDE DEF k, n
  <2> QED BY <2>1, <2>2
<1> HIDE DEF k, n
<1>7. e.kind = "started" => StartAccepted(k, n)
  BY <1>0, <1>4, <1>6 DEF Acceptable, Active, StartAccepted
<1>8. e.kind = "completed" => EndAccepted(k, n)
  BY <1>0, <1>5, <1>6 DEF Acceptable, Active, EndAccepted
<1>9. \A i \in DOMAIN k : i \in DOMAIN j \/ i = n
  BY <1>0
<1> QED BY <1>0, <1>2, <1>7, <1>8, <1>9 DEF Readable, k

LEMMA StartedShape ==
  ASSUME NEW u \in Units
  PROVE  Started(u) \in Events /\ Started(u).kind = "started" /\ Started(u).unit = u
BY DEF Events, Started

LEMMA CompletedShape ==
  ASSUME NEW u \in Units, NEW s \in Outcomes
  PROVE  /\ Completed(u, s) \in Events
         /\ Completed(u, s).kind = "completed"
         /\ Completed(u, s).unit = u /\ Completed(u, s).status = s
<1>1. Completed(u, s) \in {Completed(v, t) : v \in Units, t \in Outcomes}
  OBVIOUS
<1> QED BY <1>1 DEF Events, Completed

LEMMA RecoveredShape == Recovered \in Events /\ Recovered.kind = "recovered_partial_tail"
BY DEF Events, Recovered

LEMMA EventShapes ==
  ASSUME NEW e \in Events
  PROVE  /\ e.kind \in {"started", "completed", "recovered_partial_tail"}
         /\ e.kind # "recovered_partial_tail" => e.unit \in Units
         /\ e.kind = "completed" => e.status \in Outcomes
         /\ e.kind # "completed" => e.status = "none"
<1>1. CASE e \in {Started(u) : u \in Units}
  BY <1>1 DEF Started
<1>2. CASE e \in {Completed(u, s) : u \in Units, s \in Outcomes}
  BY <1>2 DEF Completed
<1>3. CASE e = Recovered
  BY <1>3 DEF Recovered
<1> QED BY <1>1, <1>2, <1>3 DEF Events

LEMMA JournalTypes ==
  ASSUME NEW j \in Seq(Events)
  PROVE  /\ StartedUnits(j) \subseteq Units
         /\ TerminalRecords(j) \subseteq Records
         /\ Ended(j) \subseteq Units
<1>1. \A i \in DOMAIN j : j[i] \in Events
  OBVIOUS
<1>2. StartedUnits(j) \subseteq Units
  BY <1>1, EventShapes DEF StartedUnits
<1>3. \A u \in Units, s \in Outcomes : Record(u, s) \in Records
  BY DEF Record, Records
<1>4. TerminalRecords(j) \subseteq Records
  BY <1>1, <1>3, EventShapes DEF TerminalRecords
<1> QED BY <1>2, <1>4 DEF Ended, UnitsOf, Records

LEMMA EndedAppend ==
  ASSUME NEW j \in Seq(Events), NEW e \in Events
  PROVE  Ended(Append(j, e)) = Ended(j) \cup (IF e.kind = "completed" THEN {e.unit} ELSE {})
<1>1. \A u, s : Record(u, s).unit = u
  BY DEF Record
<1> QED BY <1>1, TerminalRecordsAppend DEF Ended, UnitsOf, EndOf

-----------------------------------------------------------------------------
(* The inductive invariant.                                                *)

\* Only the holder of the lock is under way.
OneAtWork == \A r \in Runners : pc[r] # "idle" <=> lock = r

\* A torn tail waits for the next reader: nobody appends or reads behind it.
TailInv ==
  /\ torn => exists
  /\ journal # <<>> => exists
  /\ \A r \in Runners : /\ pc[r] \notin {"idle", "inputs", "journal"} => ~torn
                        /\ pc[r] = "append" => exists

\* Arms run one at a time, each journaled as started before it is ended, once.
JournalInv ==
  /\ Readable(journal)
  /\ Ended(journal) \subseteq StartedUnits(journal)
  /\ \A u, v \in Active(journal) : u = v
  /\ \A p, q \in TerminalRecords(journal) : p.unit = q.unit => p = q

\* Every arm put to the provider is journaled as started.
AttemptsAreJournaled == \A u \in Units : calls[u] > 0 => u \in StartedUnits(journal)

\* A verdict other than "interrupted" was obtained from one attempt at that arm.
VerdictsComeFromAttempts ==
  \A rec \in TerminalRecords(journal) : rec.status # "interrupted" => calls[rec.unit] = 1

\* Calls are made for started arms, and a verdict of the provider's for called ones.
CallsInv ==
  /\ AtMostOneAttempt
  /\ AttemptsAreJournaled
  /\ VerdictsComeFromAttempts

\* The holder's maps are the journal's, from the moment it has read it.
Loaded(r) ==
  \/ pc[r] \in {"terminalize", "pending", "call", "await", "base", "adapter", "match", "seal"}
  \/ pc[r] = "append" /\ event[r].kind # "recovered_partial_tail"
MemoryInv ==
  \A r \in Runners : Loaded(r) => /\ view[r].started = StartedUnits(journal)
                                  /\ view[r].completed = TerminalRecords(journal)

\* What the place of the holder says of the arm it is working on.
AppendInv(r) ==
  /\ event[r] \in Events
  /\ Acceptable(journal, event[r])
  /\ event[r].kind = "completed" /\ event[r].status # "interrupted" => calls[event[r].unit] = 1
ArmInv(r) ==
  /\ event[r] \in Events
  /\ event[r].unit \in Active(journal)
  /\ calls[event[r].unit] = IF pc[r] = "call" THEN 0 ELSE 1
PlaceInv ==
  \A r \in Runners :
    /\ pc[r] = "append" => AppendInv(r)
    /\ pc[r] \in {"call", "await"} => ArmInv(r)
    /\ pc[r] \in {"pending", "base", "adapter", "match", "seal"} => Active(journal) = {}
    /\ pc[r] \in {"base", "adapter", "match", "seal"} => Ended(journal) = Units

\* What has been compiled, and that a sealed evaluation is not entered again.
ArmRecords(role) == {rec \in TerminalRecords(journal) : rec.unit[2] = role}
SealInv ==
  /\ \A r \in Runners :
       /\ pc[r] \notin {"idle", "inputs"} => seal = None
       /\ pc[r] \in {"adapter", "match", "seal"} => compiled["base"] = ArmRecords("base")
       /\ pc[r] \in {"match", "seal"} => compiled["adapter"] = ArmRecords("adapter")
  /\ SealedOutputsAreTheJournal

\* A provider failure ends the invocation that journals it.
NoFailureSurvived == \A r \in Runners : "failed" \notin failures[r]

IInv ==
  /\ TypeOK /\ OneAtWork /\ TailInv /\ JournalInv /\ CallsInv /\ MemoryInv
  /\ PlaceInv /\ SealInv /\ NoFailureSurvived

LEMMA InitIInv == Init => IInv
<1> SUFFICES ASSUME Init PROVE IInv
  OBVIOUS
<1>1. /\ StartedUnits(journal) = {} /\ TerminalRecords(journal) = {}
      /\ Ended(journal) = {} /\ Active(journal) = {}
  BY DEF Init, StartedUnits, TerminalRecords, Ended, Active, UnitsOf
<1>2. TypeOK
  <2>1. crashes \in 0..MaxCrashes /\ journal \in Seq(Events)
    BY MaxCrashesAssumption DEF Init
  <2>2. view \in [Runners -> [started : SUBSET Units, completed : SUBSET Records]]
    BY DEF Init, EmptyView
  <2>3. compiled \in [Roles -> {None} \cup SUBSET Records]
    BY DEF Init
  <2> QED BY <2>1, <2>2, <2>3 DEF Init, TypeOK, Labels
<1>3. OneAtWork /\ TailInv /\ NoFailureSurvived
  BY NoneAssumption DEF Init, OneAtWork, TailInv, NoFailureSurvived
<1>4. JournalInv
  BY <1>1 DEF Init, JournalInv, Readable
<1>5. CallsInv
  BY <1>1 DEF Init, CallsInv, AtMostOneAttempt, AttemptsAreJournaled, VerdictsComeFromAttempts
<1>6. MemoryInv /\ PlaceInv
  BY DEF Init, MemoryInv, Loaded, PlaceInv
<1>7. SealInv
  BY DEF Init, SealInv, SealedOutputsAreTheJournal
<1> QED BY <1>2, <1>3, <1>4, <1>5, <1>6, <1>7 DEF IInv

-----------------------------------------------------------------------------
(* Steps that every action is made of.                                     *)

LEMMA OthersIdle ==
  ASSUME OneAtWork, NEW r \in Runners, pc[r] # "idle"
  PROVE  lock = r /\ \A q \in Runners : q # r => pc[q] = "idle"
BY DEF OneAtWork

\* Ending an invocation, with nothing else changed but perhaps the tail.
LEMMA LeaveStep ==
  ASSUME IInv, NEW r \in Runners, pc[r] # "idle", Leave(r),
         UNCHANGED <<journal, exists, compiled, seal, calls>>,
         torn' \in BOOLEAN, torn' => exists, seal # None => ~torn',
         crashes' \in 0..MaxCrashes
  PROVE  IInv'
<1>1. lock' = None /\ pc' \in [Runners -> {"idle"}]
  BY OthersIdle DEF IInv, TypeOK, Leave, Goto
<1>2. TypeOK'
  <2>1. /\ view' \in [Runners -> [started : SUBSET Units, completed : SUBSET Records]]
        /\ event' \in [Runners -> Events \cup {None}]
        /\ failures' \in [Runners -> SUBSET {"failed", "interrupted"}]
    BY DEF IInv, TypeOK, Leave, EmptyView
  <2>2. pc' \in [Runners -> Labels]
    BY <1>1 DEF Labels
  <2> QED BY <1>1, <2>1, <2>2 DEF IInv, TypeOK
<1>3. OneAtWork'
  BY <1>1, NoneAssumption DEF OneAtWork
<1>4. TailInv'
  BY <1>1 DEF IInv, TailInv
<1>5. JournalInv' /\ CallsInv'
  BY DEF IInv, JournalInv, CallsInv, AtMostOneAttempt, AttemptsAreJournaled, VerdictsComeFromAttempts
<1>6. MemoryInv' /\ PlaceInv'
  BY <1>1 DEF MemoryInv, Loaded, PlaceInv
<1>7. SealInv'
  BY <1>1 DEF IInv, SealInv, SealedOutputsAreTheJournal
<1>8. NoFailureSurvived'
  BY DEF IInv, TypeOK, NoFailureSurvived, Leave
<1> QED BY <1>2, <1>3, <1>4, <1>5, <1>6, <1>7, <1>8 DEF IInv

\* Opening the journal for an event the reader will accept.
LEMMA OpenAppendStep ==
  ASSUME IInv, NEW r \in Runners, NEW e \in Events, OpenAppend(r, e),
         pc[r] \notin {"idle", "inputs", "journal"},
         Loaded(r) \/ e.kind = "recovered_partial_tail",
         Acceptable(journal, e),
         e.kind = "completed" /\ e.status # "interrupted" => calls[e.unit] = 1
  PROVE  IInv'
<1>1. lock = r /\ \A q \in Runners : q # r => pc[q] = "idle" /\ pc'[q] = "idle"
  BY OthersIdle DEF IInv, TypeOK, OpenAppend, Goto
<1>2. pc'[r] = "append" /\ event'[r] = e
  BY DEF IInv, TypeOK, OpenAppend, Goto
<1>3. TypeOK'
  <2>1. pc' \in [Runners -> Labels] /\ event' \in [Runners -> Events \cup {None}]
    BY DEF IInv, TypeOK, OpenAppend, Goto, Labels
  <2> QED BY <2>1 DEF IInv, TypeOK, OpenAppend
<1>4. OneAtWork'
  BY <1>1, <1>2 DEF OneAtWork, OpenAppend
<1>5. TailInv'
  BY <1>1 DEF IInv, TailInv, OpenAppend
<1>6. JournalInv' /\ CallsInv'
  BY DEF IInv, JournalInv, CallsInv, AtMostOneAttempt, AttemptsAreJournaled,
         VerdictsComeFromAttempts, OpenAppend
<1>7. MemoryInv'
  BY <1>1, <1>2 DEF IInv, MemoryInv, Loaded, OpenAppend
<1>8. PlaceInv'
  BY <1>1, <1>2 DEF PlaceInv, AppendInv, OpenAppend
<1>9. SealInv'
  BY <1>1, <1>2 DEF IInv, SealInv, SealedOutputsAreTheJournal, OpenAppend
<1>10. NoFailureSurvived'
  BY DEF IInv, NoFailureSurvived, OpenAppend
<1> QED BY <1>3, <1>4, <1>5, <1>6, <1>7, <1>8, <1>9, <1>10 DEF IInv

\* Going on to another place with nothing written and nothing learnt.
LEMMA MoveStep ==
  ASSUME IInv, NEW r \in Runners, pc[r] # "idle",
         NEW label \in {"journal", "pending", "base", "seal"}, Goto(r, label),
         UNCHANGED <<fileVars, compiled, seal, lock, view, event, calls, failures, crashes>>,
         seal = None,
         label # "journal" => ~torn /\ Loaded(r) /\ Active(journal) = {},
         label \in {"base", "seal"} => Ended(journal) = Units,
         label = "seal" => pc[r] = "match"
  PROVE  IInv'
<1>1. lock = r /\ \A q \in Runners : q # r => pc[q] = "idle" /\ pc'[q] = "idle"
  BY OthersIdle DEF IInv, TypeOK, Goto
<1>2. pc'[r] = label /\ pc' \in [Runners -> Labels]
  BY DEF IInv, TypeOK, Goto, Labels
<1>3. TypeOK'
  BY <1>2 DEF IInv, TypeOK, fileVars
<1>4. OneAtWork' /\ NoFailureSurvived'
  BY <1>1, <1>2 DEF IInv, OneAtWork, NoFailureSurvived
<1>5. TailInv'
  BY <1>1, <1>2 DEF IInv, TailInv, fileVars
<1>6. JournalInv' /\ CallsInv'
  BY DEF IInv, JournalInv, CallsInv, AtMostOneAttempt, AttemptsAreJournaled,
         VerdictsComeFromAttempts, fileVars
<1>7. MemoryInv'
  BY <1>1, <1>2 DEF IInv, MemoryInv, Loaded, fileVars
<1>8. PlaceInv'
  BY <1>1, <1>2 DEF PlaceInv, fileVars
<1>9. SealInv'
  BY <1>1, <1>2 DEF IInv, SealInv, SealedOutputsAreTheJournal, ArmRecords, fileVars
<1> QED BY <1>3, <1>4, <1>5, <1>6, <1>7, <1>8, <1>9 DEF IInv

-----------------------------------------------------------------------------
(* Every action preserves the invariant.                                   *)

LEMMA AcquireStep ==
  ASSUME IInv, NEW r \in Runners, Acquire(r)
  PROVE  IInv'
<1>1. \A q \in Runners : pc[q] = "idle" /\ (q # r => pc'[q] = "idle")
  BY NoneAssumption DEF IInv, TypeOK, OneAtWork, Acquire, Goto
<1>2. pc'[r] = "inputs" /\ pc' \in [Runners -> Labels] /\ lock' = r
  BY DEF IInv, TypeOK, Acquire, Goto, Labels
<1>3. TypeOK'
  BY <1>2 DEF IInv, TypeOK, Acquire, fileVars
<1>4. OneAtWork' /\ NoFailureSurvived'
  BY <1>1, <1>2 DEF IInv, OneAtWork, NoFailureSurvived, Acquire
<1>5. TailInv'
  BY <1>1, <1>2 DEF IInv, TailInv, Acquire, fileVars
<1>6. JournalInv' /\ CallsInv'
  BY DEF IInv, JournalInv, CallsInv, AtMostOneAttempt, AttemptsAreJournaled,
         VerdictsComeFromAttempts, Acquire, fileVars
<1>7. MemoryInv' /\ PlaceInv'
  BY <1>1, <1>2 DEF MemoryInv, Loaded, PlaceInv
<1>8. SealInv'
  BY <1>1, <1>2 DEF IInv, SealInv, SealedOutputsAreTheJournal, ArmRecords, Acquire, fileVars
<1> QED BY <1>3, <1>4, <1>5, <1>6, <1>7, <1>8 DEF IInv

LEMMA RequireInputsStep ==
  ASSUME IInv, NEW r \in Runners, RequireInputs(r)
  PROVE  IInv'
<1>1. CASE seal = None
  <2>1. CASE Goto(r, "journal") /\ UNCHANGED <<lock, view, event, failures>>
    BY <1>1, <2>1, MoveStep DEF RequireInputs
  <2>2. CASE seal # None /\ Leave(r)
    BY <1>1, <2>2
  <2> QED BY <2>1, <2>2 DEF RequireInputs
<1>2. CASE seal # None
  BY <1>2, LeaveStep DEF RequireInputs, IInv, TypeOK, TailInv, SealInv,
                         SealedOutputsAreTheJournal, fileVars
<1> QED BY <1>1, <1>2

LEMMA TruncateTailStep ==
  ASSUME IInv, NEW r \in Runners, TruncateTail(r)
  PROVE  IInv'
<1>1. lock = r /\ \A q \in Runners : q # r => pc[q] = "idle" /\ pc'[q] = "idle"
  BY OthersIdle DEF IInv, TypeOK, TruncateTail, Goto
<1>2. pc'[r] = "recovery" /\ pc' \in [Runners -> Labels]
  BY DEF IInv, TypeOK, TruncateTail, Goto, Labels
<1>3. TypeOK'
  BY <1>2 DEF IInv, TypeOK, TruncateTail
<1>4. OneAtWork' /\ NoFailureSurvived'
  BY <1>1, <1>2 DEF IInv, OneAtWork, NoFailureSurvived, TruncateTail
<1>5. TailInv'
  BY <1>1, <1>2 DEF IInv, TailInv, TruncateTail
<1>6. JournalInv' /\ CallsInv'
  BY DEF IInv, JournalInv, CallsInv, AtMostOneAttempt, AttemptsAreJournaled,
         VerdictsComeFromAttempts, TruncateTail
<1>7. MemoryInv' /\ PlaceInv'
  BY <1>1, <1>2 DEF MemoryInv, Loaded, PlaceInv
<1>8. SealInv'
  BY <1>1, <1>2 DEF IInv, SealInv, SealedOutputsAreTheJournal, TruncateTail
<1> QED BY <1>3, <1>4, <1>5, <1>6, <1>7, <1>8 DEF IInv

LEMMA RecordRecoveryStep ==
  ASSUME IInv, NEW r \in Runners, RecordRecovery(r)
  PROVE  IInv'
BY OpenAppendStep, RecoveredShape DEF RecordRecovery, Acceptable

LEMMA ReadJournalStep ==
  ASSUME IInv, NEW r \in Runners, ReadJournal(r)
  PROVE  IInv'
<1>1. CASE Readable(journal) /\ Goto(r, "terminalize")
  <2> SUFFICES ASSUME /\ view' = [view EXCEPT ![r] = [started |-> StartedUnits(journal),
                                                      completed |-> TerminalRecords(journal)]]
                      /\ Goto(r, "terminalize")
                      /\ UNCHANGED <<lock, event, failures>>
                      /\ pc[r] = "journal" /\ ~NeedsRecovery
                      /\ UNCHANGED <<fileVars, compiled, seal, calls, crashes>>
               PROVE  IInv'
    BY <1>1, LeaveStep DEF ReadJournal, IInv, JournalInv
  <2>1. lock = r /\ \A q \in Runners : q # r => pc[q] = "idle" /\ pc'[q] = "idle"
    BY OthersIdle DEF IInv, TypeOK, Goto
  <2>2. pc'[r] = "terminalize" /\ pc' \in [Runners -> Labels]
    BY DEF IInv, TypeOK, Goto, Labels
  <2>3. TypeOK'
    <3>1. view' \in [Runners -> [started : SUBSET Units, completed : SUBSET Records]]
      BY JournalTypes DEF IInv, TypeOK
    <3> QED BY <2>2, <3>1 DEF IInv, TypeOK, fileVars
  <2>4. OneAtWork' /\ NoFailureSurvived'
    BY <2>1, <2>2 DEF IInv, OneAtWork, NoFailureSurvived
  <2>5. TailInv'
    BY <2>1, <2>2 DEF IInv, TailInv, NeedsRecovery, fileVars
  <2>6. JournalInv' /\ CallsInv'
    BY DEF IInv, JournalInv, CallsInv, AtMostOneAttempt, AttemptsAreJournaled,
           VerdictsComeFromAttempts, fileVars
  <2>7. MemoryInv'
    BY <2>1, <2>2 DEF IInv, TypeOK, MemoryInv, Loaded, fileVars
  <2>8. PlaceInv'
    BY <2>1, <2>2 DEF PlaceInv
  <2>9. SealInv'
    BY <2>1, <2>2 DEF IInv, SealInv, SealedOutputsAreTheJournal, fileVars
  <2> QED BY <2>3, <2>4, <2>5, <2>6, <2>7, <2>8, <2>9 DEF IInv
<1>2. CASE ~Readable(journal)
  BY <1>2 DEF IInv, JournalInv
<1> QED BY <1>1, <1>2 DEF ReadJournal

LEMMA TerminalizeStep ==
  ASSUME IInv, NEW r \in Runners, Terminalize(r)
  PROVE  IInv'
<1>1. Loaded(r) /\ Interrupted(r) = Active(journal)
  BY DEF IInv, MemoryInv, Loaded, Terminalize, Interrupted, Active, Ended
<1>2. PICK u \in Active(journal) : OpenAppend(r, Completed(u, "interrupted"))
  BY <1>1 DEF Terminalize, First
<1>3. u \in Units /\ "interrupted" \in Outcomes
  BY JournalTypes DEF IInv, TypeOK, Active, Outcomes
<1> DEFINE e == Completed(u, "interrupted")
<1>4. e \in Events /\ e.kind = "completed" /\ e.unit = u /\ e.status = "interrupted"
  BY <1>3, CompletedShape
<1>5. Acceptable(journal, e)
  BY <1>4 DEF Acceptable
<1> QED BY <1>1, <1>2, <1>4, <1>5, OpenAppendStep DEF Terminalize

LEMMA ValidateCompiledStep ==
  ASSUME IInv, NEW r \in Runners, ValidateCompiled(r)
  PROVE  IInv'
<1>1. Loaded(r) /\ Active(journal) = {} /\ ~torn /\ seal = None
  BY DEF IInv, MemoryInv, Loaded, ValidateCompiled, Interrupted, Active, Ended, TailInv, SealInv
<1>2. CASE Goto(r, "pending") /\ UNCHANGED <<lock, view, event, failures>>
  BY <1>1, <1>2, MoveStep DEF ValidateCompiled
<1>3. CASE Leave(r)
  BY <1>1, <1>3, LeaveStep DEF ValidateCompiled, IInv, TypeOK, fileVars
<1> QED BY <1>2, <1>3 DEF ValidateCompiled

LEMMA StartArmStep ==
  ASSUME IInv, NEW r \in Runners, StartArm(r)
  PROVE  IInv'
<1>1. Loaded(r) /\ Active(journal) = {} /\ Pending(r) = Units \ StartedUnits(journal)
  BY DEF IInv, MemoryInv, Loaded, PlaceInv, JournalInv, StartArm, Pending, Active, Ended
<1>2. PICK u \in Units \ StartedUnits(journal) : OpenAppend(r, Started(u))
  BY <1>1 DEF StartArm, First
<1>3. Acceptable(journal, Started(u))
  BY <1>1, StartedShape DEF Acceptable
<1> QED BY <1>1, <1>2, <1>3, StartedShape, OpenAppendStep DEF StartArm

LEMMA ScoreArmStep ==
  ASSUME IInv, NEW r \in Runners, ScoreArm(r)
  PROVE  IInv'
<1> DEFINE u == event[r].unit
<1>1. Loaded(r) /\ u \in Active(journal) /\ calls[u] = 1
  BY DEF IInv, Loaded, PlaceInv, ArmInv, ScoreArm
<1>2. u \in Units
  BY <1>1, JournalTypes DEF IInv, TypeOK, Active
<1>3. PICK s \in {"completed", "failed"} : OpenAppend(r, Completed(u, s))
  BY DEF ScoreArm
<1>4. s \in Outcomes
  BY DEF Outcomes
<1> HIDE DEF u
<1>5. Acceptable(journal, Completed(u, s))
  BY <1>1, <1>2, <1>4, CompletedShape DEF Acceptable
<1> QED BY <1>1, <1>2, <1>3, <1>4, <1>5, CompletedShape, OpenAppendStep DEF ScoreArm

LEMMA BeginCompileStep ==
  ASSUME IInv, NEW r \in Runners, BeginCompile(r)
  PROVE  IInv'
<1>1. Loaded(r) /\ Active(journal) = {} /\ ~torn /\ seal = None
  BY DEF IInv, Loaded, BeginCompile, PlaceInv, TailInv, SealInv
<1>2. Ended(journal) = Units
  BY <1>1, JournalTypes DEF IInv, TypeOK, MemoryInv, BeginCompile, Pending, Ended
<1> QED BY <1>1, <1>2, MoveStep DEF BeginCompile

LEMMA RequireJournalMatchesStep ==
  ASSUME IInv, NEW r \in Runners, RequireJournalMatches(r)
  PROVE  IInv'
<1>1. /\ Loaded(r) /\ Active(journal) = {} /\ ~torn /\ seal = None
      /\ Ended(journal) = Units
  BY DEF IInv, Loaded, RequireJournalMatches, PlaceInv, TailInv, SealInv
<1>2. CASE Goto(r, "seal") /\ UNCHANGED <<lock, view, event, failures>>
  BY <1>1, <1>2, MoveStep DEF RequireJournalMatches
<1>3. CASE Leave(r)
  BY <1>1, <1>3, LeaveStep DEF RequireJournalMatches, IInv, TypeOK, fileVars
<1> QED BY <1>2, <1>3 DEF RequireJournalMatches

LEMMA CallProviderStep ==
  ASSUME IInv, NEW r \in Runners, CallProvider(r)
  PROVE  IInv'
<1> DEFINE u == event[r].unit
<1>1. lock = r /\ \A q \in Runners : q # r => pc[q] = "idle" /\ pc'[q] = "idle"
  BY OthersIdle DEF IInv, TypeOK, CallProvider, Goto
<1>2. pc'[r] = "await" /\ pc' \in [Runners -> Labels] /\ pc[r] = "call"
  BY DEF IInv, TypeOK, CallProvider, Goto, Labels
<1>3. u \in Active(journal) /\ calls[u] = 0 /\ event[r] \in Events
  BY <1>2 DEF IInv, PlaceInv, ArmInv
<1>4. u \in Units /\ u \in StartedUnits(journal) /\ u \notin Ended(journal)
  BY <1>3, JournalTypes DEF IInv, TypeOK, Active
<1>5. calls' = [calls EXCEPT ![u] = 1] /\ calls' \in [Units -> Nat]
  BY <1>3, <1>4 DEF IInv, TypeOK, CallProvider
<1> HIDE DEF u
<1>6. TypeOK'
  BY <1>2, <1>5 DEF IInv, TypeOK, CallProvider, fileVars
<1>7. OneAtWork' /\ NoFailureSurvived'
  BY <1>1, <1>2 DEF IInv, OneAtWork, NoFailureSurvived, CallProvider
<1>8. TailInv'
  BY <1>1, <1>2 DEF IInv, TailInv, CallProvider, fileVars
<1>9. JournalInv'
  BY DEF IInv, JournalInv, CallProvider, fileVars
<1>10. CallsInv'
  <2>1. \A v \in Units : calls'[v] = IF v = u THEN 1 ELSE calls[v]
    BY <1>4, <1>5 DEF IInv, TypeOK
  <2>2. AtMostOneAttempt'
    <3> SUFFICES ASSUME NEW v \in Units PROVE calls'[v] <= 1
      BY DEF AtMostOneAttempt
    <3> QED BY <2>1 DEF IInv, CallsInv, AtMostOneAttempt
  <2>3. AttemptsAreJournaled'
    <3> SUFFICES ASSUME NEW v \in Units, calls'[v] > 0 PROVE v \in StartedUnits(journal)
      BY DEF AttemptsAreJournaled, CallProvider, fileVars
    <3> QED BY <2>1, <1>4 DEF IInv, CallsInv, AttemptsAreJournaled
  <2>4. \A rec \in TerminalRecords(journal) : rec.unit # u /\ rec.unit \in Units
    BY <1>4, JournalTypes DEF IInv, TypeOK, Ended, UnitsOf, Records
  <2>5. VerdictsComeFromAttempts'
    BY <1>5, <2>4 DEF IInv, TypeOK, CallsInv, VerdictsComeFromAttempts, CallProvider, fileVars
  <2> QED BY <2>2, <2>3, <2>5 DEF CallsInv
<1>11. MemoryInv'
  BY <1>1, <1>2 DEF IInv, MemoryInv, Loaded, CallProvider, fileVars
<1>12. PlaceInv'
  <2>1. ArmInv(r)'
    BY <1>2, <1>3, <1>4, <1>5 DEF IInv, TypeOK, ArmInv, CallProvider, fileVars, u
  <2> QED BY <1>1, <1>2, <2>1 DEF PlaceInv
<1>13. SealInv'
  BY <1>1, <1>2 DEF IInv, SealInv, SealedOutputsAreTheJournal, CallProvider, fileVars
<1> QED BY <1>6, <1>7, <1>8, <1>9, <1>10, <1>11, <1>12, <1>13 DEF IInv

LEMMA CompileArmStep ==
  ASSUME IInv, NEW r \in Runners, CompileArm(r)
  PROVE  IInv'
<1>1. CASE Leave(r) /\ UNCHANGED compiled
  BY <1>1, LeaveStep DEF CompileArm, Roles, IInv, TypeOK, TailInv, SealInv,
                         SealedOutputsAreTheJournal, fileVars
<1>2. CASE /\ compiled' = [compiled EXCEPT ![pc[r]] = Expected(r, pc[r])]
           /\ Goto(r, NextRole[pc[r]])
           /\ UNCHANGED <<lock, view, event, failures>>
  <2>1. pc[r] \in Roles /\ UNCHANGED <<fileVars, seal, calls, crashes>>
    BY DEF CompileArm
  <2>2. lock = r /\ \A q \in Runners : q # r => pc[q] = "idle" /\ pc'[q] = "idle"
    BY <1>2, <2>1, OthersIdle DEF IInv, TypeOK, Goto, Roles
  <2>3. /\ pc'[r] = NextRole[pc[r]] /\ pc' \in [Runners -> Labels]
        /\ \/ pc[r] = "base" /\ pc'[r] = "adapter"
           \/ pc[r] = "adapter" /\ pc'[r] = "match"
    BY <1>2, <2>1 DEF IInv, TypeOK, Goto, Labels, Roles, NextRole
  <2>4. Expected(r, pc[r]) = ArmRecords(pc[r])
    BY <2>1 DEF IInv, MemoryInv, Loaded, Expected, ArmRecords, Roles
  <2>5. ArmRecords(pc[r]) \subseteq Records
    BY JournalTypes DEF IInv, TypeOK, ArmRecords
  <2>6. compiled' = [compiled EXCEPT ![pc[r]] = ArmRecords(pc[r])]
    BY <1>2, <2>4
  <2>7. TypeOK'
    BY <1>2, <2>1, <2>3, <2>5, <2>6 DEF IInv, TypeOK, fileVars
  <2>8. OneAtWork' /\ NoFailureSurvived'
    BY <1>2, <2>2, <2>3 DEF IInv, OneAtWork, NoFailureSurvived
  <2>9. TailInv'
    BY <2>1, <2>2, <2>3 DEF IInv, TailInv, fileVars
  <2>10. JournalInv' /\ CallsInv'
    BY <2>1 DEF IInv, JournalInv, CallsInv, AtMostOneAttempt, AttemptsAreJournaled,
                VerdictsComeFromAttempts, fileVars
  <2>11. MemoryInv'
    BY <1>2, <2>1, <2>2, <2>3 DEF IInv, MemoryInv, Loaded, fileVars
  <2>12. PlaceInv'
    BY <2>1, <2>2, <2>3 DEF IInv, PlaceInv, fileVars
  <2>13. SealInv'
    BY <2>1, <2>2, <2>3, <2>6 DEF IInv, TypeOK, SealInv, SealedOutputsAreTheJournal,
                                  ArmRecords, Roles, fileVars
  <2> QED BY <2>7, <2>8, <2>9, <2>10, <2>11, <2>12, <2>13 DEF IInv
<1> QED BY <1>1, <1>2 DEF CompileArm

LEMMA SealOutputsStep ==
  ASSUME IInv, NEW r \in Runners, SealOutputs(r)
  PROVE  IInv'
<1>1. pc[r] = "seal" /\ seal = None /\ seal' = SealContent /\ ~torn
  BY DEF IInv, SealOutputs, SealInv, TailInv
<1>2. /\ compiled["base"] = ArmRecords("base") /\ compiled["adapter"] = ArmRecords("adapter")
      /\ Ended(journal) = Units
  BY <1>1 DEF IInv, SealInv, PlaceInv
<1>3. \A rec \in TerminalRecords(journal) : rec.unit[2] \in Roles
  BY JournalTypes DEF IInv, TypeOK, Records, Units
<1>4. ArmRecords("base") \cup ArmRecords("adapter") = TerminalRecords(journal)
  BY <1>3 DEF ArmRecords, Roles
<1>5. seal'.base = ArmRecords("base") /\ seal'.adapter = ArmRecords("adapter") /\ seal'.journal = journal
  BY <1>1, <1>2 DEF SealContent
<1>6. SealedOutputsAreTheJournal'
  BY <1>1, <1>2, <1>4, <1>5 DEF SealedOutputsAreTheJournal, SealOutputs, ArmRecords, Roles,
                                Ended, fileVars
<1>7. seal' \in [base : SUBSET Records, adapter : SUBSET Records, journal : Seq(Events)]
  BY <1>1, <1>2, JournalTypes DEF IInv, TypeOK, SealContent, ArmRecords
<1>8. lock' = None /\ pc' \in [Runners -> {"idle"}]
  BY <1>1, OthersIdle DEF IInv, TypeOK, SealOutputs, Leave, Goto
<1>9. TypeOK'
  <2>1. /\ view' \in [Runners -> [started : SUBSET Units, completed : SUBSET Records]]
        /\ event' \in [Runners -> Events \cup {None}]
        /\ failures' \in [Runners -> SUBSET {"failed", "interrupted"}]
    BY DEF IInv, TypeOK, SealOutputs, Leave, EmptyView
  <2>2. pc' \in [Runners -> Labels]
    BY <1>8 DEF Labels
  <2> QED BY <1>7, <1>8, <2>1, <2>2 DEF IInv, TypeOK, SealOutputs, fileVars
<1>10. OneAtWork'
  BY <1>8, NoneAssumption DEF OneAtWork
<1>11. TailInv'
  BY <1>8 DEF IInv, TailInv, SealOutputs, fileVars
<1>12. JournalInv' /\ CallsInv'
  BY DEF IInv, JournalInv, CallsInv, AtMostOneAttempt, AttemptsAreJournaled,
         VerdictsComeFromAttempts, SealOutputs, fileVars
<1>13. MemoryInv' /\ PlaceInv'
  BY <1>8 DEF MemoryInv, Loaded, PlaceInv
<1>14. SealInv'
  BY <1>6, <1>8 DEF SealInv
<1>15. NoFailureSurvived'
  BY DEF IInv, TypeOK, NoFailureSurvived, SealOutputs, Leave
<1> QED BY <1>9, <1>10, <1>11, <1>12, <1>13, <1>14, <1>15 DEF IInv

LEMMA CrashStep ==
  ASSUME IInv, NEW r \in Runners, Crash(r)
  PROVE  IInv'
<1>1. torn' \in BOOLEAN /\ crashes' \in 0..MaxCrashes
  BY MaxCrashesAssumption DEF IInv, TypeOK, Crash
<1>2. pc[r] = "append" => exists
  BY DEF IInv, TailInv
<1>3. torn' => exists
  BY <1>2 DEF IInv, TailInv, Crash
<1>4. seal # None => ~torn'
  BY DEF IInv, SealInv, SealedOutputsAreTheJournal, Crash
<1> QED BY <1>1, <1>3, <1>4, LeaveStep DEF Crash

\* The only step that lengthens the journal.
LEMMA JournalGrows ==
  ASSUME IInv, NEW r \in Runners, FinishAppend(r)
  PROVE  /\ JournalInv' /\ CallsInv'
         /\ journal' \in Seq(Events) /\ journal' # <<>>
         /\ event[r] \in Events /\ Acceptable(journal, event[r])
         /\ StartedUnits(journal') = StartedUnits(journal) \cup StartOf(event[r])
         /\ TerminalRecords(journal') = TerminalRecords(journal) \cup EndOf(event[r])
         /\ event[r].kind = "started" =>
              Active(journal') = {event[r].unit} /\ calls[event[r].unit] = 0
         /\ event[r].kind = "completed" => Active(journal') = {}
<1> DEFINE e == event[r]
           u == e.unit
<1>1. /\ journal \in Seq(Events) /\ journal' = Append(journal, e) /\ calls' = calls
      /\ calls \in [Units -> Nat]
  BY DEF IInv, TypeOK, FinishAppend
<1>2. /\ e \in Events /\ Acceptable(journal, e)
      /\ e.kind = "completed" /\ e.status # "interrupted" => calls[u] = 1
  BY DEF IInv, PlaceInv, AppendInv, FinishAppend
<1> HIDE DEF e
<1>3. /\ StartedUnits(journal') = StartedUnits(journal) \cup StartOf(e)
      /\ TerminalRecords(journal') = TerminalRecords(journal) \cup EndOf(e)
      /\ Ended(journal') = Ended(journal) \cup (IF e.kind = "completed" THEN {u} ELSE {})
      /\ Readable(journal')
      /\ journal' \in Seq(Events) /\ journal' # <<>>
  BY <1>1, <1>2, StartedUnitsAppend, TerminalRecordsAppend, EndedAppend, ReadableAppend,
     AppendIndices DEF IInv, JournalInv
<1>4. CASE e.kind = "started"
  <2>1. u \in Units /\ u \notin StartedUnits(journal) /\ Active(journal) = {}
    BY <1>2, <1>4, EventShapes DEF Acceptable
  <2>2. /\ StartedUnits(journal') = StartedUnits(journal) \cup {u}
        /\ TerminalRecords(journal') = TerminalRecords(journal)
        /\ Ended(journal') = Ended(journal)
    BY <1>3, <1>4 DEF StartOf, EndOf
  <2>3. Ended(journal) = StartedUnits(journal)
    BY <2>1 DEF IInv, JournalInv, Active
  <2>4. Active(journal') = {u}
    BY <2>1, <2>2, <2>3 DEF Active
  <2>5. calls[u] = 0
    BY <1>1, <2>1 DEF IInv, CallsInv, AttemptsAreJournaled
  <2>6. JournalInv'
    BY <1>3, <2>2, <2>4 DEF IInv, JournalInv
  <2>7. CallsInv'
    BY <1>1, <2>2 DEF IInv, CallsInv, AtMostOneAttempt, AttemptsAreJournaled, VerdictsComeFromAttempts
  <2> QED BY <1>2, <1>3, <1>4, <2>4, <2>5, <2>6, <2>7 DEF e
<1>5. CASE e.kind = "completed"
  <2> DEFINE rec == Record(u, e.status)
  <2>1. u \in Units /\ u \in StartedUnits(journal) /\ u \notin Ended(journal)
    BY <1>2, <1>5, EventShapes DEF Acceptable, Active
  <2>2. /\ StartedUnits(journal') = StartedUnits(journal)
        /\ TerminalRecords(journal') = TerminalRecords(journal) \cup {rec}
        /\ Ended(journal') = Ended(journal) \cup {u}
    BY <1>3, <1>5 DEF StartOf, EndOf
  <2>3. Active(journal') = {}
    BY <1>2, <1>5, <2>1, <2>2 DEF IInv, JournalInv, Active, Acceptable
  <2>4. rec.unit = u /\ rec.status = e.status
    BY DEF Record
  <2>5. \A p \in TerminalRecords(journal) : p.unit # u
    BY <2>1 DEF Ended, UnitsOf
  <2> HIDE DEF rec
  <2>6. JournalInv'
    <3>1. \A p, q \in TerminalRecords(journal') : p.unit = q.unit => p = q
      BY <2>2, <2>4, <2>5 DEF IInv, JournalInv
    <3> QED BY <1>3, <2>1, <2>2, <2>3, <3>1 DEF IInv, JournalInv
  <2>7. CallsInv'
    <3>1. VerdictsComeFromAttempts'
      BY <1>1, <1>2, <1>5, <2>2, <2>4 DEF IInv, CallsInv, VerdictsComeFromAttempts
    <3> QED BY <1>1, <2>2, <3>1 DEF IInv, CallsInv, AtMostOneAttempt, AttemptsAreJournaled
  <2> QED BY <1>2, <1>3, <1>5, <2>3, <2>6, <2>7 DEF e
<1>6. CASE e.kind = "recovered_partial_tail"
  <2>1. /\ StartedUnits(journal') = StartedUnits(journal)
        /\ TerminalRecords(journal') = TerminalRecords(journal)
        /\ Ended(journal') = Ended(journal)
    BY <1>3, <1>6 DEF StartOf, EndOf
  <2>2. JournalInv'
    BY <1>3, <2>1 DEF IInv, JournalInv, Active
  <2>3. CallsInv'
    BY <1>1, <2>1 DEF IInv, CallsInv, AtMostOneAttempt, AttemptsAreJournaled, VerdictsComeFromAttempts
  <2> QED BY <1>2, <1>3, <1>6, <2>2, <2>3 DEF e
<1> QED BY <1>2, <1>4, <1>5, <1>6, EventShapes

LEMMA FinishAppendStep ==
  ASSUME IInv, NEW r \in Runners, FinishAppend(r)
  PROVE  IInv'
<1> DEFINE e == event[r]
<1>1. /\ pc[r] = "append" /\ seal = None /\ exists /\ torn' = FALSE
      /\ UNCHANGED <<exists, compiled, seal, calls, crashes>>
  BY DEF IInv, FinishAppend, SealInv, TailInv
<1>2. lock = r /\ \A q \in Runners : q # r => pc[q] = "idle"
  BY <1>1, OthersIdle DEF IInv
<1>3. SealInv' \/ \E q \in Runners : pc'[q] \in {"adapter", "match", "seal"}
  BY <1>1 DEF SealInv, SealedOutputsAreTheJournal
<1>4. CASE Leave(r)
  <2>1. lock' = None /\ pc' \in [Runners -> {"idle"}]
    BY <1>2, <1>4 DEF IInv, TypeOK, Leave, Goto
  <2>2. TypeOK'
    <3>1. /\ view' \in [Runners -> [started : SUBSET Units, completed : SUBSET Records]]
          /\ event' \in [Runners -> Events \cup {None}]
          /\ failures' \in [Runners -> SUBSET {"failed", "interrupted"}]
      BY <1>4 DEF IInv, TypeOK, Leave, EmptyView
    <3>2. pc' \in [Runners -> Labels]
      BY <2>1 DEF Labels
    <3> QED BY <1>1, <2>1, <3>1, <3>2, JournalGrows DEF IInv, TypeOK
  <2>3. OneAtWork'
    BY <2>1, NoneAssumption DEF OneAtWork
  <2>4. TailInv'
    BY <1>1, <2>1 DEF TailInv
  <2>5. MemoryInv' /\ PlaceInv'
    BY <2>1 DEF MemoryInv, Loaded, PlaceInv
  <2>6. SealInv'
    BY <1>3, <2>1
  <2>7. NoFailureSurvived'
    BY <1>4 DEF IInv, TypeOK, NoFailureSurvived, Leave
  <2> QED BY <2>2, <2>3, <2>4, <2>5, <2>6, <2>7, JournalGrows DEF IInv
<1>5. CASE /\ ~StopsRun(e)
           /\ Goto(r, AfterAppend(e))
           /\ view' = [view EXCEPT ![r] = Remembered(@, e)]
           /\ failures' = [failures EXCEPT ![r] = @ \cup ({e.status} \cap {"failed", "interrupted"})]
           /\ UNCHANGED <<lock, event>>
  <2>1. /\ e \in Events
        /\ e.kind \in {"started", "completed", "recovered_partial_tail"}
        /\ e.kind # "recovered_partial_tail" => e.unit \in Units
        /\ e.kind = "completed" => e.status \in {"completed", "interrupted"}
        /\ e.kind # "completed" => e.status = "none"
    BY <1>5, JournalGrows, EventShapes DEF StopsRun, Outcomes
  <2>2. \A q \in Runners : q # r => pc'[q] = "idle"
    BY <1>2, <1>5 DEF IInv, TypeOK, Goto
  <2>3. /\ e.kind = "started" => pc'[r] = "call"
        /\ e.kind = "completed" => pc'[r] \in {"terminalize", "pending"}
        /\ e.kind = "recovered_partial_tail" => pc'[r] = "journal"
        /\ pc' \in [Runners -> Labels]
    BY <1>5, <2>1 DEF IInv, TypeOK, Goto, AfterAppend, Labels
  <2>4. e.status # "failed"
    BY <2>1
  <2>5. e.kind # "recovered_partial_tail" =>
          /\ view'[r].started = StartedUnits(journal')
          /\ view'[r].completed = TerminalRecords(journal')
    <3>1. Loaded(r) \/ e.kind = "recovered_partial_tail"
      BY <1>1 DEF Loaded
    <3>2. view[r] \in [started : SUBSET Units, completed : SUBSET Records]
      BY DEF IInv, TypeOK
    <3>3. view'[r] = Remembered(view[r], e)
      BY <1>5 DEF IInv, TypeOK
    <3> HIDE DEF e
    <3>4. CASE e.kind = "started"
      BY <3>1, <3>2, <3>3, <3>4, JournalGrows DEF IInv, MemoryInv, Remembered, StartOf, EndOf, e
    <3>5. CASE e.kind = "completed"
      BY <3>1, <3>2, <3>3, <3>5, JournalGrows DEF IInv, MemoryInv, Remembered, StartOf, EndOf, e
    <3> QED BY <2>1, <3>4, <3>5
  <2>6. TypeOK'
    <3>1. /\ StartedUnits(journal') \subseteq Units /\ TerminalRecords(journal') \subseteq Records
      BY JournalGrows, JournalTypes
    <3>2. view' \in [Runners -> [started : SUBSET Units, completed : SUBSET Records]]
      <4>1. view[r] \in [started : SUBSET Units, completed : SUBSET Records]
        BY DEF IInv, TypeOK
      <4>2. e.kind = "completed" => Record(e.unit, e.status) \in Records
        BY <2>1 DEF Record, Records, Outcomes
      <4>3. Remembered(view[r], e) \in [started : SUBSET Units, completed : SUBSET Records]
        BY <2>1, <4>1, <4>2 DEF Remembered
      <4> QED BY <1>5, <4>3 DEF IInv, TypeOK
    <3>3. failures' \in [Runners -> SUBSET {"failed", "interrupted"}]
      BY <1>5 DEF IInv, TypeOK
    <3> QED BY <1>1, <1>5, <2>3, <3>2, <3>3, JournalGrows DEF IInv, TypeOK
  <2>7. OneAtWork'
    BY <1>2, <1>5, <2>1, <2>2, <2>3 DEF OneAtWork
  <2>8. TailInv'
    BY <1>1, <2>1, <2>2, <2>3 DEF TailInv
  <2>9. MemoryInv'
    BY <2>1, <2>2, <2>3, <2>5 DEF MemoryInv, Loaded
  <2>10. PlaceInv'
    <3>1. CASE e.kind = "started"
      <4>1. ArmInv(r)'
        BY <1>1, <1>5, <2>3, <3>1, JournalGrows DEF ArmInv
      <4> QED BY <2>2, <2>3, <3>1, <4>1 DEF PlaceInv
    <3>2. CASE e.kind # "started"
      BY <2>1, <2>2, <2>3, <3>2, JournalGrows DEF PlaceInv
    <3> QED BY <3>1, <3>2
  <2>11. SealInv'
    BY <1>3, <2>1, <2>2, <2>3
  <2>12. NoFailureSurvived'
    BY <1>5, <2>4 DEF IInv, TypeOK, NoFailureSurvived
  <2> QED BY <2>6, <2>7, <2>8, <2>9, <2>10, <2>11, <2>12, JournalGrows DEF IInv
<1> QED BY <1>4, <1>5 DEF FinishAppend

-----------------------------------------------------------------------------
(* The theorems.                                                           *)

LEMMA NextIInv == IInv /\ [Next]_vars => IInv'
<1> SUFFICES ASSUME IInv, [Next]_vars PROVE IInv'
  OBVIOUS
<1>1. CASE UNCHANGED vars
  BY <1>1 DEF vars, IInv, TypeOK, OneAtWork, TailInv, JournalInv, CallsInv, AtMostOneAttempt,
              AttemptsAreJournaled, VerdictsComeFromAttempts, MemoryInv, Loaded, PlaceInv,
              AppendInv, ArmInv, SealInv, ArmRecords, SealedOutputsAreTheJournal, NoFailureSurvived
<1>2. ASSUME NEW r \in Runners, Step(r) PROVE IInv'
  BY <1>2, AcquireStep, RequireInputsStep, TruncateTailStep, RecordRecoveryStep,
     FinishAppendStep, ReadJournalStep, TerminalizeStep, ValidateCompiledStep, StartArmStep,
     CallProviderStep, ScoreArmStep, BeginCompileStep, CompileArmStep,
     RequireJournalMatchesStep, SealOutputsStep DEF Step
<1>3. ASSUME NEW r \in Runners, Crash(r) PROVE IInv'
  BY <1>3, CrashStep
<1> QED BY <1>1, <1>2, <1>3 DEF Next

\* The strengthened invariant holds in every reachable state.
THEOREM Invariance == Spec => []IInv
<1> QED BY InitIInv, NextIInv, PTL DEF Spec

\* Every variable of the runner keeps its type.
THEOREM TypeCorrectness == Spec => []TypeOK
<1>1. IInv => TypeOK
  BY DEF IInv
<1> QED BY <1>1, Invariance, PTL

\* No arm is ever put to the provider twice, none before its start is journaled, and
\* a verdict of the provider's comes from exactly one attempt -- for every number of
\* games, overlapping invocations and deaths.
THEOREM PaidOnce == Spec => [](AtMostOneAttempt /\ AttemptsAreJournaled /\ VerdictsComeFromAttempts)
<1>1. IInv => AtMostOneAttempt /\ AttemptsAreJournaled /\ VerdictsComeFromAttempts
  BY DEF IInv, CallsInv
<1> QED BY <1>1, Invariance, PTL

\* The journal a dead invocation leaves is one the strict reader accepts.
THEOREM AlwaysReadable == Spec => []JournalStaysReadable
<1>1. IInv => JournalStaysReadable
  BY DEF IInv, JournalInv, JournalStaysReadable
<1> QED BY <1>1, Invariance, PTL

\* What is sealed is the journal, complete and still on disk.
THEOREM SealedIsJournal == Spec => []SealedOutputsAreTheJournal
<1>1. IInv => SealedOutputsAreTheJournal
  BY DEF IInv, SealInv
<1> QED BY <1>1, Invariance, PTL

\* The invocation that journals a provider failure makes no further call.
THEOREM FailureStops == Spec => []StopsAfterProviderFailure
<1>1. IInv => StopsAfterProviderFailure
  BY DEF IInv, NoFailureSurvived, StopsAfterProviderFailure
<1> QED BY <1>1, Invariance, PTL

\* What holds a sealed run's journal, outputs and calls in place.
LEMMA NothingIsTouched ==
  ASSUME IInv, [Next]_vars, seal # None
  PROVE  UNCHANGED <<journal, torn, compiled, seal, calls>>
<1>1. \A r \in Runners : pc[r] \in {"idle", "inputs"}
  BY DEF IInv, TypeOK, SealInv
<1>2. CASE UNCHANGED vars
  BY <1>2 DEF vars
<1>3. ASSUME NEW r \in Runners, Step(r)
      PROVE  UNCHANGED <<journal, torn, compiled, seal, calls>>
  <2>1. Acquire(r) \/ RequireInputs(r)
    BY <1>1, <1>3 DEF Step, Acquire, RequireInputs, TruncateTail, RecordRecovery, FinishAppend,
         ReadJournal, Terminalize, ValidateCompiled, StartArm, CallProvider, ScoreArm,
         BeginCompile, CompileArm, RequireJournalMatches, SealOutputs, Roles
  <2> QED BY <2>1 DEF Acquire, RequireInputs, fileVars
<1>4. ASSUME NEW r \in Runners, Crash(r)
      PROVE  UNCHANGED <<journal, torn, compiled, seal, calls>>
  BY <1>1, <1>4 DEF Crash
<1> QED BY <1>2, <1>3, <1>4 DEF Next

\* Once the outputs are sealed, no step writes, appends, truncates or calls.
THEOREM NothingAfterSeal == Spec => SealIsFinal
<1>1. IInv /\ [Next]_vars => [seal # None => UNCHANGED <<journal, torn, compiled, seal, calls>>]_vars
  BY NothingIsTouched
<1> QED BY <1>1, Invariance, PTL DEF Spec, SealIsFinal

-----------------------------------------------------------------------------
(* The runner implements the single-attempt promise.                       *)

LEMMA VerdictCases ==
  ASSUME NEW u
  PROVE  /\ VerdictOf(u) = "none" <=> u \notin Ended(journal)
         /\ VerdictOf(u) = "completed" <=> Record(u, "completed") \in TerminalRecords(journal)
         /\ VerdictOf(u) \in {"none", "completed", "failed"}
<1>1. Record(u, "completed") \in TerminalRecords(journal) => u \in Ended(journal)
  BY DEF Record, Ended, UnitsOf
<1> QED BY <1>1 DEF VerdictOf, Ended

LEMMA InitAbs == Init => Abs!AbsInit
<1> SUFFICES ASSUME Init PROVE Abs!AbsInit
  OBVIOUS
<1>1. Ended(journal) = {}
  BY DEF Init, TerminalRecords, Ended, UnitsOf
<1>2. [u \in Units |-> VerdictOf(u)] = [u \in Units |-> "none"]
  BY <1>1, VerdictCases
<1> QED BY <1>2 DEF Abs!AbsInit, Init

\* A step that leaves the journal, the calls and the seal alone is no step above.
LEMMA QuietStep ==
  ASSUME UNCHANGED <<journal, calls, seal>>
  PROVE  UNCHANGED Abs!absVars
BY DEF Abs!absVars, VerdictOf

LEMMA CallIsAttempt ==
  ASSUME IInv, NEW r \in Runners, CallProvider(r)
  PROVE  \E u \in Units : Abs!Attempt(u)
<1> DEFINE u == event[r].unit
<1>1. u \in Active(journal) /\ calls[u] = 0 /\ seal = None
  BY DEF IInv, PlaceInv, ArmInv, SealInv, CallProvider
<1>2. u \in Units /\ u \notin Ended(journal)
  BY <1>1, JournalTypes DEF IInv, TypeOK, Active
<1>3. calls' = [calls EXCEPT ![u] = 1] /\ journal' = journal /\ seal' = seal
  BY <1>1, <1>2 DEF IInv, TypeOK, CallProvider, fileVars
<1>4. \A v \in Units : ~(calls[v] > 0 /\ VerdictOf(v) = "none")
  BY <1>1, VerdictCases DEF IInv, JournalInv, CallsInv, AttemptsAreJournaled, Active
<1>5. VerdictOf(u) = "none"
  BY <1>2, VerdictCases
<1>6. [v \in Units |-> VerdictOf(v)]' = [v \in Units |-> VerdictOf(v)]
  BY <1>3 DEF VerdictOf
<1> HIDE DEF u
<1> QED BY <1>1, <1>2, <1>3, <1>4, <1>5, <1>6 DEF Abs!Attempt, Abs!Outstanding

LEMMA EndIsDecide ==
  ASSUME IInv, NEW r \in Runners, FinishAppend(r), event[r].kind = "completed"
  PROVE  \E u \in Units, result \in {"completed", "failed"} : Abs!Decide(u, result)
<1>1. PICK u \in Units, s \in Outcomes : event[r].unit = u /\ event[r].status = s
  BY JournalGrows, EventShapes
<1>2. /\ u \notin Ended(journal)
      /\ TerminalRecords(journal') = TerminalRecords(journal) \cup {Record(u, s)}
  BY <1>1, JournalGrows DEF Acceptable, Active, EndOf
<1>3. /\ calls' = calls /\ seal' = seal /\ seal = None
      /\ s = "completed" => calls[u] = 1
  BY <1>1 DEF IInv, PlaceInv, AppendInv, SealInv, FinishAppend
<1> DEFINE result == IF s = "completed" THEN "completed" ELSE "failed"
<1>4. VerdictOf(u) = "none"
  BY <1>2, VerdictCases
<1>5. \A v \in Units : v # u => VerdictOf(v)' = VerdictOf(v)
  <2> SUFFICES ASSUME NEW v \in Units, v # u PROVE VerdictOf(v)' = VerdictOf(v)
    OBVIOUS
  <2>1. \A t : Record(u, s) # Record(v, t)
    BY DEF Record
  <2>2. Record(u, s).unit # v
    BY DEF Record
  <2> QED BY <1>2, <2>1, <2>2 DEF VerdictOf, UnitsOf
<1>6. VerdictOf(u)' = result
  <2>1. Record(u, "completed") \notin TerminalRecords(journal)
    BY <1>4, VerdictCases
  <2>2. Record(u, "completed") = Record(u, s) <=> s = "completed"
    BY DEF Record
  <2>3. u \in UnitsOf(TerminalRecords(journal'))
    BY <1>2 DEF UnitsOf, Record
  <2> QED BY <1>2, <2>1, <2>2, <2>3 DEF VerdictOf
<1> HIDE DEF result
<1>7. [v \in Units |-> VerdictOf(v)]' = [[v \in Units |-> VerdictOf(v)] EXCEPT ![u] = result]
  BY <1>5, <1>6
<1>8. result \in {"completed", "failed"} /\ (result = "completed" => calls[u] = 1)
  BY <1>3 DEF result
<1> QED BY <1>3, <1>4, <1>7, <1>8 DEF Abs!Decide

LEMMA SealIsSeal ==
  ASSUME IInv, NEW r \in Runners, SealOutputs(r)
  PROVE  Abs!Seal \/ UNCHANGED Abs!absVars
<1>1. seal = None /\ Ended(journal) = Units /\ journal' = journal /\ calls' = calls
  BY DEF IInv, SealInv, PlaceInv, SealOutputs, fileVars
<1>2. CASE seal' = None
  BY <1>1, <1>2, QuietStep
<1>3. CASE seal' # None
  <2>1. \A u \in Units : VerdictOf(u) # "none"
    BY <1>1, VerdictCases
  <2>2. [v \in Units |-> VerdictOf(v)]' = [v \in Units |-> VerdictOf(v)]
    BY <1>1 DEF VerdictOf
  <2> QED BY <1>1, <1>3, <2>1, <2>2 DEF Abs!Seal
<1> QED BY <1>2, <1>3

\* Every behaviour of the runner, deaths and overlaps included, is a behaviour of the
\* abstract specification: one attempt, one lasting verdict, a seal over complete units.
THEOREM Implements == Spec => SingleAttemptSpec
<1>1. ASSUME IInv, [Next]_vars
      PROVE  [Abs!AbsNext]_(Abs!absVars)
  <2>1. CASE UNCHANGED vars
    BY <2>1, QuietStep DEF vars
  <2>2. ASSUME NEW r \in Runners, CallProvider(r)
        PROVE  [Abs!AbsNext]_(Abs!absVars)
    BY <1>1, <2>2, CallIsAttempt DEF Abs!AbsNext
  <2>3. ASSUME NEW r \in Runners, FinishAppend(r)
        PROVE  [Abs!AbsNext]_(Abs!absVars)
    <3>1. CASE event[r].kind = "completed"
      BY <1>1, <2>3, <3>1, EndIsDecide DEF Abs!AbsNext, Abs!Verdicts
    <3>2. CASE event[r].kind # "completed"
      <4>1. TerminalRecords(journal') = TerminalRecords(journal)
        BY <1>1, <2>3, <3>2, JournalGrows DEF EndOf
      <4> QED BY <2>3, <4>1 DEF FinishAppend, Abs!absVars, VerdictOf
    <3> QED BY <3>1, <3>2
  <2>4. ASSUME NEW r \in Runners, SealOutputs(r)
        PROVE  [Abs!AbsNext]_(Abs!absVars)
    BY <1>1, <2>4, SealIsSeal DEF Abs!AbsNext
  <2>5. ASSUME NEW r \in Runners, Crash(r)
        PROVE  [Abs!AbsNext]_(Abs!absVars)
    BY <2>5, QuietStep DEF Crash
  <2>6. ASSUME NEW r \in Runners, Step(r), ~CallProvider(r), ~FinishAppend(r), ~SealOutputs(r)
        PROVE  [Abs!AbsNext]_(Abs!absVars)
    <3>1. UNCHANGED <<journal, calls, seal>>
      BY <2>6 DEF Step, Acquire, RequireInputs, TruncateTail, RecordRecovery, ReadJournal,
           Terminalize, ValidateCompiled, StartArm, ScoreArm, BeginCompile, CompileArm,
           RequireJournalMatches, OpenAppend, fileVars
    <3> QED BY <3>1, QuietStep
  <2> QED BY <1>1, <2>1, <2>2, <2>3, <2>4, <2>5, <2>6 DEF Next
<1>2. IInv /\ [Next]_vars => [Abs!AbsNext]_(Abs!absVars)
  BY <1>1
<1> QED BY <1>2, InitAbs, Invariance, PTL DEF Spec, SingleAttemptSpec, Abs!AbsSpec

-----------------------------------------------------------------------------
(* The evaluation, over the invariant of the runner.                        *)

Scoring == {"published", "loaded", "opened"}

SealPublic ==
  seal # None /\ head.seal = seal /\ head.journal = journal /\ head.compiled = compiled

Complete(records) == records = TerminalRecords(journal) /\ UnitsOf(records) = Units

ScorerInv ==
  /\ scorerPc \in [Scorers -> {"idle"} \cup Scoring] /\ DOMAIN loaded = Scorers
  /\ answersOpened \/ scores # None \/ (\E s \in Scorers : scorerPc[s] # "idle") => SealPublic
  /\ \A s \in Scorers : scorerPc[s] \in {"loaded", "opened"} => Complete(loaded[s])
  /\ scores # None => Complete(scores)

EvaluationInv == IInv /\ ScorerInv

LEMMA EvaluationInitInv == EvaluationInit => EvaluationInv
<1> SUFFICES ASSUME EvaluationInit PROVE EvaluationInv
  OBVIOUS
<1>1. IInv
  BY InitIInv DEF EvaluationInit
<1>2. ScorerInv
  BY DEF EvaluationInit, ScorerInv
<1> QED BY <1>1, <1>2 DEF EvaluationInv

\* The runner's steps, which leave a sealed run alone.
LEMMA RunnerPart ==
  ASSUME EvaluationInv, IInv', seal # None => UNCHANGED <<journal, compiled, seal>>,
         UNCHANGED evidenceVars
  PROVE  EvaluationInv'
<1>1. answersOpened \/ scores # None \/ (\E s \in Scorers : scorerPc[s] # "idle") =>
        SealPublic /\ UNCHANGED <<journal, compiled, seal>>
  BY DEF EvaluationInv, ScorerInv, SealPublic
<1>2. ScorerInv'
  BY <1>1 DEF EvaluationInv, ScorerInv, SealPublic, Complete, Scoring, evidenceVars
<1> QED BY <1>2 DEF EvaluationInv

LEMMA RunnerNext ==
  ASSUME EvaluationInv, [Next]_vars, UNCHANGED evidenceVars
  PROVE  EvaluationInv'
<1>1. IInv' /\ (seal # None => UNCHANGED <<journal, compiled, seal>>)
  BY NextIInv, NothingIsTouched DEF EvaluationInv
<1> QED BY <1>1, RunnerPart

LEMMA RefuseStep ==
  ASSUME EvaluationInv, NEW r \in Runners, RefuseUnpublished(r), UNCHANGED evidenceVars
  PROVE  EvaluationInv'
<1>1. IInv'
  BY LeaveStep DEF EvaluationInv, RefuseUnpublished, IInv, TypeOK, TailInv, SealInv,
                   SealedOutputsAreTheJournal, fileVars
<1> QED BY <1>1, RunnerPart DEF RefuseUnpublished, fileVars

\* The runner's invariant does not depend on who else has died.
LEMMA DeathElsewhere ==
  ASSUME IInv, UNCHANGED <<journal, exists, torn, compiled, seal, lock, pc, view, event, calls,
                           failures>>, crashes' \in 0..MaxCrashes
  PROVE  IInv'
BY DEF IInv, TypeOK, OneAtWork, TailInv, JournalInv, CallsInv, AtMostOneAttempt,
       AttemptsAreJournaled, VerdictsComeFromAttempts, MemoryInv, Loaded, PlaceInv,
       AppendInv, ArmInv, SealInv, ArmRecords, SealedOutputsAreTheJournal, NoFailureSurvived

LEMMA DiesElsewhereStep ==
  ASSUME EvaluationInv, DiesElsewhere
  PROVE  IInv'
<1>1. crashes' \in 0..MaxCrashes
  BY MaxCrashesAssumption DEF EvaluationInv, IInv, TypeOK, DiesElsewhere
<1> QED BY <1>1, DeathElsewhere DEF EvaluationInv, DiesElsewhere

LEMMA VarsKept ==
  ASSUME IInv, UNCHANGED vars
  PROVE  IInv' /\ UNCHANGED <<journal, compiled, seal>>
BY NextIInv DEF vars

LEMMA PublishStep ==
  ASSUME EvaluationInv, Publish
  PROVE  EvaluationInv'
<1>1. IInv' /\ UNCHANGED <<journal, compiled, seal>>
  BY VarsKept DEF EvaluationInv, Publish
<1>2. head'.seal = seal /\ head'.journal = journal /\ head'.compiled = compiled
  BY DEF Publish, Tree
<1>3. ScorerInv'
  BY <1>1, <1>2 DEF EvaluationInv, ScorerInv, SealPublic, Complete, Scoring, Publish
<1> QED BY <1>1, <1>3 DEF EvaluationInv

\* The records of a seal that the scorer finds to match are the whole journal's.
LEMMA SealIsComplete ==
  ASSUME IInv, seal # None
  PROVE  Complete(seal.base \cup seal.adapter)
BY DEF IInv, SealInv, SealedOutputsAreTheJournal, Complete

LEMMA ScorerPart ==
  ASSUME EvaluationInv, NEW s \in Scorers, ScorerStep(s)
  PROVE  EvaluationInv'
<1>1. IInv' /\ UNCHANGED <<journal, compiled, seal>> /\ UNCHANGED head
  BY VarsKept DEF EvaluationInv, ScorerStep, ProvePublished, LoadSealed, OpenAnswers, WriteScores
<1>2. CASE ProvePublished(s)
  <2>1. SealPublic /\ scorerPc' = [scorerPc EXCEPT ![s] = "published"]
    BY <1>2 DEF ProvePublished, RawOutputsAtHead, SealPublic, ScorerAt
  <2>2. SealPublic'
    BY <1>1, <2>1 DEF SealPublic
  <2>3. ScorerInv'
    BY <1>1, <1>2, <2>1, <2>2 DEF EvaluationInv, ScorerInv, Scoring, Complete, ProvePublished
  <2> QED BY <1>1, <2>3 DEF EvaluationInv
<1>3. CASE LoadSealed(s)
  <2>1. SealPublic /\ SealPublic'
    BY <1>1, <1>3 DEF LoadSealed, ScorerAt, EvaluationInv, ScorerInv, SealPublic
  <2>2. Complete(seal.base \cup seal.adapter)
    BY <2>1, SealIsComplete DEF EvaluationInv, SealPublic
  <2>3. CASE ScorerAt(s, "published", "loaded")
             /\ loaded' = [loaded EXCEPT ![s] = seal.base \cup seal.adapter]
    <3>1. ScorerInv'
      BY <1>1, <1>3, <2>1, <2>2, <2>3
         DEF EvaluationInv, ScorerInv, Scoring, Complete, LoadSealed, ScorerAt
    <3> QED BY <1>1, <3>1 DEF EvaluationInv
  <2>4. CASE ScorerAt(s, "published", "idle") /\ UNCHANGED loaded
    <3>1. ScorerInv'
      BY <1>1, <1>3, <2>1, <2>4
         DEF EvaluationInv, ScorerInv, Scoring, Complete, LoadSealed, ScorerAt
    <3> QED BY <1>1, <3>1 DEF EvaluationInv
  <2> QED BY <1>3, <2>3, <2>4 DEF LoadSealed
<1>4. CASE OpenAnswers(s)
  <2>1. SealPublic'
    BY <1>1, <1>4 DEF OpenAnswers, ScorerAt, EvaluationInv, ScorerInv, SealPublic
  <2>2. ScorerInv'
    BY <1>1, <1>4, <2>1 DEF EvaluationInv, ScorerInv, Scoring, Complete, OpenAnswers, ScorerAt
  <2> QED BY <1>1, <2>2 DEF EvaluationInv
<1>5. CASE WriteScores(s)
  <2>1. SealPublic'
    BY <1>1, <1>5 DEF WriteScores, ScorerAt, EvaluationInv, ScorerInv, SealPublic
  <2>2. scores' # None => Complete(scores')
    BY <1>5 DEF WriteScores, ScorerAt, EvaluationInv, ScorerInv
  <2>3. scorerPc' = [scorerPc EXCEPT ![s] = "idle"] /\ loaded' = [loaded EXCEPT ![s] = {}]
    BY <1>5 DEF WriteScores, ScorerAt
  <2>4. ScorerInv'
    BY <1>1, <2>1, <2>2, <2>3 DEF EvaluationInv, ScorerInv, Scoring, Complete
  <2> QED BY <1>1, <2>4 DEF EvaluationInv
<1> QED BY <1>2, <1>3, <1>4, <1>5 DEF ScorerStep

LEMMA ScorerDiesStep ==
  ASSUME EvaluationInv, NEW s \in Scorers, ScorerDies(s)
  PROVE  EvaluationInv'
<1>1. IInv' /\ UNCHANGED <<journal, compiled, seal, head>>
  BY DiesElsewhereStep DEF ScorerDies, DiesElsewhere
<1>2. ScorerInv'
  BY <1>1 DEF EvaluationInv, ScorerInv, Scoring, SealPublic, Complete, ScorerDies
<1> QED BY <1>1, <1>2 DEF EvaluationInv

LEMMA EvaluationNextInv == EvaluationInv /\ [EvaluationNext]_evaluationVars => EvaluationInv'
<1> SUFFICES ASSUME EvaluationInv, [EvaluationNext]_evaluationVars PROVE EvaluationInv'
  OBVIOUS
<1>1. CASE UNCHANGED evaluationVars
  BY <1>1, RunnerNext DEF evaluationVars
<1>2. CASE StartBuild \/ FreezeNext
  <2>1. IInv' /\ UNCHANGED <<journal, compiled, seal>>
    BY <1>2, VarsKept DEF EvaluationInv, StartBuild, FreezeNext
  <2>2. ScorerInv'
    BY <1>2, <2>1 DEF EvaluationInv, ScorerInv, SealPublic, Complete, Scoring, StartBuild, FreezeNext
  <2> QED BY <2>1, <2>2 DEF EvaluationInv
<1>3. CASE BuilderDies
  <2>1. IInv' /\ UNCHANGED <<journal, compiled, seal>>
    BY <1>3, DiesElsewhereStep DEF BuilderDies, DiesElsewhere
  <2>2. ScorerInv'
    BY <1>3, <2>1 DEF EvaluationInv, ScorerInv, SealPublic, Complete, Scoring, BuilderDies
  <2> QED BY <2>1, <2>2 DEF EvaluationInv
<1>4. CASE Publish
  BY <1>4, PublishStep
<1>5. ASSUME NEW r \in Runners, RunnerStep(r) PROVE EvaluationInv'
  <2>1. CASE Step(r)
    BY <1>5, <2>1, RunnerNext DEF RunnerStep, Next
  <2>2. CASE RefuseUnpublished(r)
    BY <1>5, <2>2, RefuseStep DEF RunnerStep
  <2> QED BY <1>5, <2>1, <2>2 DEF RunnerStep
<1>6. ASSUME NEW r \in Runners, RunnerDies(r) PROVE EvaluationInv'
  BY <1>6, RunnerNext DEF RunnerDies, Next
<1>7. ASSUME NEW s \in Scorers, ScorerStep(s) \/ ScorerDies(s) PROVE EvaluationInv'
  BY <1>7, ScorerPart, ScorerDiesStep
<1> QED BY <1>1, <1>2, <1>3, <1>4, <1>5, <1>6, <1>7 DEF EvaluationNext, Progress

\* The runner's invariant, and what every scorer has proved of the seal, hold throughout.
THEOREM EvaluationInvariance == EvaluationSpec => []EvaluationInv
<1> QED BY EvaluationInitInv, EvaluationNextInv, PTL DEF EvaluationSpec

-----------------------------------------------------------------------------
(* The theorems.                                                           *)

\* Answers are opened only over the sealed files that are at the published head, and they
\* stay those files, whatever overlaps and dies.
THEOREM AnswersFollowTheSeal == EvaluationSpec => []AnswersOpenedAfterPublishedSeal
<1>1. EvaluationInv => AnswersOpenedAfterPublishedSeal
  BY DEF EvaluationInv, ScorerInv, SealPublic, AnswersOpenedAfterPublishedSeal
<1> QED BY <1>1, EvaluationInvariance, PTL

\* Scores are those of the sealed run: every arm with its journaled verdict.
THEOREM ScoresAreTheRun == EvaluationSpec => []ScoresCoverTheSealedRun
<1>1. EvaluationInv => ScoresCoverTheSealedRun
  BY DEF EvaluationInv, ScorerInv, Complete, ScoresCoverTheSealedRun
<1> QED BY <1>1, EvaluationInvariance, PTL

\* Once the answers are read, no arm is put to the provider and no verdict is added.
THEOREM GenerationIsOver == EvaluationSpec => NoGenerationAfterAnswers
<1>1. ASSUME EvaluationInv, [EvaluationNext]_evaluationVars, answersOpened
      PROVE  UNCHANGED <<calls, journal>>
  <2>1. IInv /\ seal # None
    BY <1>1 DEF EvaluationInv, ScorerInv, SealPublic
  <2>2. ASSUME [Next]_vars PROVE UNCHANGED <<calls, journal>>
    BY <2>1, <2>2, NothingIsTouched
  <2>3. CASE \E r \in Runners : RunnerStep(r) \/ RunnerDies(r)
    BY <2>2, <2>3 DEF RunnerStep, RunnerDies, RefuseUnpublished, Next, fileVars
  <2>4. CASE ~\E r \in Runners : RunnerStep(r) \/ RunnerDies(r)
    BY <1>1, <2>4 DEF EvaluationNext, Progress, StartBuild, FreezeNext, BuilderDies, Publish,
       ScorerStep, ProvePublished, LoadSealed, OpenAnswers, WriteScores, ScorerDies,
       DiesElsewhere, evaluationVars, vars
  <2> QED BY <2>3, <2>4
<1>2. EvaluationInv /\ [EvaluationNext]_evaluationVars =>
        [answersOpened => UNCHANGED <<calls, journal>>]_evaluationVars
  BY <1>1
<1> QED BY <1>2, EvaluationInvariance, PTL DEF EvaluationSpec, NoGenerationAfterAnswers
=============================================================================
