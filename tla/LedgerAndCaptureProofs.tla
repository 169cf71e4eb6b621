----------------------- MODULE LedgerAndCaptureProofs -----------------------
(***************************************************************************)
(* Proofs about the two stores of this repository that are written outside *)
(* of its experiments: the prospective ledger (ProspectiveLedger), then    *)
(* the captured provider responses (ProviderCapture).                      *)
(*                                                                         *)
(* The ledger's safety needs what the code takes for granted and does not  *)
(* enforce: that one process appends at a time and that no text holds a    *)
(* line separator.  Both are hypotheses of its theorems.  A separator      *)
(* makes the ledger unreadable (the run MCProspectiveLedgerText), and a    *)
(* second writer drops lines of the first.                                 *)
(***************************************************************************)
EXTENDS ProspectiveLedger, ProviderCapture, TLAPS

SingleWriter == \A v, w \in Writers : v = w
PlainText ==
  \A batch \in ForecastBatches \cup ResolutionBatches : \A k \in DOMAIN batch : ~batch[k].breaks

-----------------------------------------------------------------------------
(* A ledger, one event longer.                                             *)

LEMMA AppendIndices ==
  ASSUME NEW S, NEW lines \in Seq(S), NEW event \in S
  PROVE  /\ Append(lines, event) \in Seq(S)
         /\ Append(lines, event) # <<>>
         /\ Len(lines) \in Nat /\ DOMAIN lines = 1..Len(lines)
         /\ Len(Append(lines, event)) = Len(lines) + 1
         /\ DOMAIN Append(lines, event) = 1..(Len(lines) + 1)
         /\ Append(lines, event)[Len(lines) + 1] = event
         /\ \A i \in 1..Len(lines) : Append(lines, event)[i] = lines[i] /\ lines[i] \in S
OBVIOUS

LEMMA HeadOfAppend ==
  ASSUME NEW lines \in Seq(Events), NEW event \in Events
  PROVE  LedgerHead(Append(lines, event)) = event.hash
BY AppendIndices DEF LedgerHead

LEMMA HeadIsHash ==
  ASSUME NEW lines \in Seq(Events)
  PROVE  LedgerHead(lines) \in Hashes
<1>1. CASE lines = <<>>
  BY <1>1 DEF LedgerHead, GENESIS_HASH, Hashes
<1>2. CASE lines # <<>>
  <2>1. lines[Len(lines)] \in Events
    BY <1>2
  <2> QED BY <1>2, <2>1 DEF LedgerHead, Events
<1> QED BY <1>1, <1>2

\* The audit of a line looks at no later line.
LEMMA AuditIsPrefix ==
  ASSUME NEW a, NEW b, NEW i \in Nat \ {0}, \A k \in 1..i : a[k] = b[k]
  PROVE  LineAudited(a, i) = LineAudited(b, i)
<1>1. a[i] = b[i] /\ (i # 1 => a[i - 1] = b[i - 1] /\ i - 1 \in Nat /\ i - 1 > 0)
  OBVIOUS
<1>2. \A k \in 1..(i - 1) : a[k] = b[k]
  OBVIOUS
<1>3. Forecasts(a, i - 1) = Forecasts(b, i - 1) /\ Resolutions(a, i - 1) = Resolutions(b, i - 1)
  BY <1>2 DEF Forecasts, Resolutions
<1>4. EventAllowed(a, i - 1, a[i]) = EventAllowed(b, i - 1, b[i])
  <2>1. \A k \in Forecasts(b, i - 1) \cup Resolutions(b, i - 1) : a[k] = b[k]
    BY <1>2 DEF Forecasts, Resolutions
  <2>2. ForecastAllowed(a, i - 1, a[i]) = ForecastAllowed(b, i - 1, b[i])
    BY <1>1, <1>3, <2>1 DEF ForecastAllowed
  <2>3. ResolutionAllowed(a, i - 1, a[i]) = ResolutionAllowed(b, i - 1, b[i])
    BY <1>1, <1>3, <2>1 DEF ResolutionAllowed
  <2> QED BY <1>1, <2>2, <2>3 DEF EventAllowed
<1>5. EventTimeAllowed(a, i - 1, a[i].recordedAt) = EventTimeAllowed(b, i - 1, b[i].recordedAt)
  BY <1>1 DEF EventTimeAllowed
<1> QED BY <1>1, <1>4, <1>5 DEF LineAudited

LEMMA AuditableAppend ==
  ASSUME NEW lines \in Seq(Events), NEW event \in Events, Auditable(lines),
         LineAudited(Append(lines, event), Len(lines) + 1)
  PROVE  Auditable(Append(lines, event))
<1> DEFINE longer == Append(lines, event)
<1>1. \A i \in 1..Len(lines) : longer[i] = lines[i]
  BY AppendIndices
<1>2. Len(lines) \in Nat /\ DOMAIN lines = 1..Len(lines) /\ DOMAIN longer = 1..(Len(lines) + 1)
  BY AppendIndices
<1> HIDE DEF longer
<1>3. ASSUME NEW i \in 1..Len(lines)
      PROVE  LineAudited(longer, i)
  <2>1. i \in Nat \ {0} /\ \A k \in 1..i : longer[k] = lines[k]
    BY <1>1, <1>2
  <2> QED BY <1>2, <2>1, AuditIsPrefix DEF Auditable
<1> QED BY <1>2, <1>3 DEF Auditable, longer

-----------------------------------------------------------------------------
(* Types, for any number of writers.                                       *)

LEMMA MadeEvent ==
  ASSUME TypeOK, NEW type \in {"forecast_batch", "resolution_batch"}, NEW cohort \in Cohorts,
         NEW submissions \in ForecastBatches \cup ResolutionBatches, NEW t \in Times
  PROVE  /\ MakeEvent(type, cohort, submissions, t) \in Events
         /\ MakeEvent(type, cohort, submissions, t).sequence = Len(ledger) + 1
         /\ MakeEvent(type, cohort, submissions, t).type = type
         /\ MakeEvent(type, cohort, submissions, t).cohort = cohort
         /\ MakeEvent(type, cohort, submissions, t).submissions = submissions
         /\ MakeEvent(type, cohort, submissions, t).recordedAt = t
         /\ MakeEvent(type, cohort, submissions, t).previous = LedgerHead(ledger)
         /\ MakeEvent(type, cohort, submissions, t).hash = EventHash(MakeEvent(type, cohort, submissions, t))
<1> DEFINE body == [sequence |-> Len(ledger) + 1, type |-> type, cohort |-> cohort,
                    submissions |-> submissions, recordedAt |-> t]
<1>1. body \in Bodies
  BY DEF Bodies, TypeOK
<1>2. Append(LedgerHead(ledger), body) \in Hashes
  BY <1>1, HeadIsHash DEF TypeOK, Hashes
<1> QED BY <1>1, <1>2, HeadIsHash DEF TypeOK, MakeEvent, EventOf, Events, EventHash, Body, Bodies

\* Either append function comes down to Prepare, of a typed event.
LEMMA PrepareCases ==
  ASSUME TypeOK, NEW w \in Writers, PrepareForecast(w) \/ PrepareResolution(w)
  PROVE  \E event \in Events :
           /\ record' = [record EXCEPT ![w] = event]
           /\ pc' = [pc EXCEPT ![w] = "prepared"]
           /\ pc[w] = "idle"
           /\ UNCHANGED <<ledger, existing, published, crashes>>
           /\ event.sequence = Len(ledger) + 1
           /\ event.previous = LedgerHead(ledger)
           /\ event.hash = EventHash(event)
           /\ event.submissions \in ForecastBatches \cup ResolutionBatches
           /\ Auditable(ledger)
           /\ EventTimeAllowed(ledger, Len(ledger), event.recordedAt)
           /\ EventAllowed(ledger, Len(ledger), event)
<1>1. PICK type \in {"forecast_batch", "resolution_batch"}, cohort \in Cohorts,
           submissions \in ForecastBatches \cup ResolutionBatches, t \in Times,
           expected \in {None, published} : Prepare(w, type, cohort, submissions, t, expected)
  BY DEF PrepareForecast, PrepareResolution
<1> DEFINE event == MakeEvent(type, cohort, submissions, t)
<1>2. event \in Events
  BY MadeEvent
<1>3. /\ event.sequence = Len(ledger) + 1 /\ event.submissions = submissions
      /\ event.recordedAt = t /\ event.previous = LedgerHead(ledger)
      /\ event.hash = EventHash(event)
  BY MadeEvent
<1>4. /\ record' = [record EXCEPT ![w] = event]
      /\ pc' = [pc EXCEPT ![w] = "prepared"]
      /\ pc[w] = "idle"
      /\ UNCHANGED <<ledger, existing, published, crashes>>
      /\ Auditable(ledger)
      /\ EventTimeAllowed(ledger, Len(ledger), t)
      /\ EventAllowed(ledger, Len(ledger), event)
  BY <1>1 DEF Prepare
<1> HIDE DEF event
<1> QED BY <1>2, <1>3, <1>4

LEMMA InitTypes == Init => TypeOK
BY BoundsAssumption DEF Init, TypeOK, Hashes, GENESIS_HASH

LEMMA NextTypes == TypeOK /\ [Next]_vars => TypeOK'
<1> SUFFICES ASSUME TypeOK, [Next]_vars PROVE TypeOK'
  OBVIOUS
<1>1. CASE UNCHANGED vars
  BY <1>1 DEF vars, TypeOK
<1>2. ASSUME NEW w \in Writers, PrepareForecast(w) \/ PrepareResolution(w)
      PROVE  TypeOK'
  <2>1. PICK event \in Events : /\ record' = [record EXCEPT ![w] = event]
                                /\ pc' = [pc EXCEPT ![w] = "prepared"]
                                /\ UNCHANGED <<ledger, existing, published, crashes>>
    BY <1>2, PrepareCases
  <2> QED BY <2>1 DEF TypeOK
<1>3. ASSUME NEW w \in Writers, ReadBack(w)
      PROVE  TypeOK'
  BY <1>3 DEF TypeOK, ReadBack
<1>4. ASSUME NEW w \in Writers, Replace(w)
      PROVE  TypeOK'
  <2>1. record[w] \in Events /\ existing[w] \in Seq(Events)
    BY <1>4 DEF TypeOK, Replace
  <2>2. Append(existing[w], record[w]) \in Seq(Events) /\ record[w].hash \in Hashes
    BY <2>1 DEF Events
  <2> QED BY <1>4, <2>2 DEF TypeOK, Replace
<1>5. ASSUME NEW w \in Writers, Crash(w)
      PROVE  TypeOK'
  BY <1>5, BoundsAssumption DEF TypeOK, Crash
<1>6. CASE Publish
  BY <1>6, HeadIsHash DEF TypeOK, Publish
<1> QED BY <1>1, <1>2, <1>3, <1>4, <1>5, <1>6 DEF Next

\* Every variable of the ledger keeps its type, whoever appends.
THEOREM TypeCorrectness == Spec => []TypeOK
<1> QED BY InitTypes, NextTypes, PTL DEF Spec

-----------------------------------------------------------------------------
(* One writer, no separator: the inductive invariant.                      *)

\* The submissions are of the kind that the event's type names.
Shaped(event) ==
  /\ event.type = "forecast_batch" => event.submissions \in ForecastBatches
  /\ event.type = "resolution_batch" => event.submissions \in ResolutionBatches

ShapeInv == \A i \in DOMAIN ledger : Shaped(ledger[i])

\* A hash commits to every body up to its own.
ChainInv == \A i \in DOMAIN ledger : ledger[i].hash = [k \in 1..i |-> Body(ledger[k])]

\* A prepared event is the right next line until it is written: nobody else appends.
PreparedInv ==
  \A w \in Writers : pc[w] # "idle" =>
    /\ Shaped(record[w])
    /\ LineAudited(Append(ledger, record[w]), Len(ledger) + 1)
    /\ pc[w] = "writing" => existing[w] = ledger

PublishedInv == published # GENESIS_HASH => \E i \in DOMAIN ledger : ledger[i].hash = published

LInv ==
  /\ TypeOK /\ AlwaysAuditable /\ ShapeInv /\ ChainInv
  /\ PreparedInv /\ PublishedInv

\* At the start nothing is written, prepared or published.
LEMMA InitLedger == Init => LInv
<1> SUFFICES ASSUME Init PROVE LInv
  OBVIOUS
<1>1. DOMAIN ledger = {}
  BY DEF Init
<1> QED BY <1>1, InitTypes DEF Init, LInv, AlwaysAuditable, Auditable, ShapeInv, ChainInv,
             PreparedInv, PublishedInv

\* What Prepare has checked is what the auditor checks of the next line.
LEMMA PreparedIsAudited ==
  ASSUME PlainText, TypeOK, NEW event \in Events,
         event.sequence = Len(ledger) + 1, event.previous = LedgerHead(ledger),
         event.hash = EventHash(event),
         event.submissions \in ForecastBatches \cup ResolutionBatches,
         EventTimeAllowed(ledger, Len(ledger), event.recordedAt),
         EventAllowed(ledger, Len(ledger), event)
  PROVE  LineAudited(Append(ledger, event), Len(ledger) + 1)
<1> DEFINE longer == Append(ledger, event)
<1> DEFINE n == Len(ledger)
<1>1. /\ n \in Nat /\ longer[n + 1] = event
      /\ \A i \in 1..n : longer[i] = ledger[i]
      /\ (n = 0 => ledger = <<>>)
  BY AppendIndices DEF TypeOK
<1> HIDE DEF longer
<1>2. OneLine(longer[n + 1])
  BY <1>1 DEF OneLine, PlainText
<1>3. longer[n + 1].previous = IF n + 1 = 1 THEN GENESIS_HASH ELSE longer[n].hash
  <2>1. CASE n = 0
    BY <1>1, <2>1 DEF LedgerHead
  <2>2. CASE n # 0
    <3>1. n \in 1..n /\ ledger # <<>>
      BY <1>1, <2>2
    <3> QED BY <1>1, <3>1 DEF LedgerHead
  <2> QED BY <2>1, <2>2
<1>4. EventTimeAllowed(longer, n, event.recordedAt)
  BY <1>1 DEF EventTimeAllowed
<1>5. EventAllowed(longer, n, event)
  <2>1. Forecasts(longer, n) = Forecasts(ledger, n) /\ Resolutions(longer, n) = Resolutions(ledger, n)
    BY <1>1 DEF Forecasts, Resolutions
  <2>2. \A k \in Forecasts(ledger, n) \cup Resolutions(ledger, n) : longer[k] = ledger[k]
    BY <1>1 DEF Forecasts, Resolutions
  <2>3. ForecastAllowed(longer, n, event) = ForecastAllowed(ledger, n, event)
    BY <2>1, <2>2 DEF ForecastAllowed
  <2>4. ResolutionAllowed(longer, n, event) = ResolutionAllowed(ledger, n, event)
    BY <2>1, <2>2 DEF ResolutionAllowed
  <2> QED BY <2>3, <2>4 DEF EventAllowed
<1>6. n + 1 - 1 = n /\ event.sequence = n + 1 /\ event.hash = EventHash(event)
  BY <1>1
<1> HIDE DEF n
<1>7. LineAudited(longer, n + 1)
  BY <1>1, <1>2, <1>3, <1>4, <1>5, <1>6 DEF LineAudited
<1> QED BY <1>7 DEF longer, n

\* An acceptable batch holds what its type says.
LEMMA AllowedIsShaped ==
  ASSUME TypeOK, NEW w \in Writers, PrepareForecast(w) \/ PrepareResolution(w)
  PROVE  \E event \in Events : record' = [record EXCEPT ![w] = event] /\ Shaped(event)
<1>1. CASE PrepareForecast(w)
  <2>1. PICK cohort \in Cohorts, submissions \in ForecastBatches, t \in Times :
          record' = [record EXCEPT ![w] = MakeEvent("forecast_batch", cohort, submissions, t)]
    BY <1>1 DEF PrepareForecast, Prepare
  <2> DEFINE event == MakeEvent("forecast_batch", cohort, submissions, t)
  <2>2. event \in Events /\ event.type = "forecast_batch" /\ event.submissions = submissions
    BY MadeEvent
  <2> HIDE DEF event
  <2>3. Shaped(event)
    BY <2>2 DEF Shaped
  <2> QED BY <2>1, <2>2, <2>3 DEF event
<1>2. CASE PrepareResolution(w)
  <2>1. PICK cohort \in Cohorts, submissions \in ResolutionBatches, t \in Times :
          record' = [record EXCEPT ![w] = MakeEvent("resolution_batch", cohort, submissions, t)]
    BY <1>2 DEF PrepareResolution, Prepare
  <2> DEFINE event == MakeEvent("resolution_batch", cohort, submissions, t)
  <2>2. event \in Events /\ event.type = "resolution_batch" /\ event.submissions = submissions
    BY MadeEvent
  <2> HIDE DEF event
  <2>3. Shaped(event)
    BY <2>2 DEF Shaped
  <2> QED BY <2>1, <2>2, <2>3 DEF event
<1> QED BY <1>1, <1>2

-----------------------------------------------------------------------------
(* One lemma per action.                                                   *)

\* Preparing touches the writer alone.
LEMMA PrepareKeeps ==
  ASSUME PlainText, LInv, TypeOK', NEW w \in Writers, PrepareForecast(w) \/ PrepareResolution(w)
  PROVE  LInv'
<1>0. TypeOK
  BY DEF LInv
<1>1. PICK event \in Events :
        /\ record' = [record EXCEPT ![w] = event]
        /\ pc' = [pc EXCEPT ![w] = "prepared"]
        /\ UNCHANGED <<ledger, existing, published, crashes>>
        /\ event.sequence = Len(ledger) + 1
        /\ event.previous = LedgerHead(ledger)
        /\ event.hash = EventHash(event)
        /\ event.submissions \in ForecastBatches \cup ResolutionBatches
        /\ EventTimeAllowed(ledger, Len(ledger), event.recordedAt)
        /\ EventAllowed(ledger, Len(ledger), event)
  BY <1>0, PrepareCases
<1>2. LineAudited(Append(ledger, event), Len(ledger) + 1)
  BY <1>0, <1>1, PreparedIsAudited
<1>3. Shaped(event)
  <2>1. record \in [Writers -> Events \cup {None}]
    BY <1>0 DEF TypeOK
  <2>2. PICK other \in Events : record' = [record EXCEPT ![w] = other] /\ Shaped(other)
    BY <1>0, AllowedIsShaped
  <2>3. record'[w] = event /\ record'[w] = other
    BY <1>1, <2>1, <2>2
  <2> QED BY <2>2, <2>3
<1>4. PreparedInv'
  <2> SUFFICES ASSUME NEW v \in Writers, pc'[v] # "idle"
               PROVE  /\ Shaped(record'[v])
                      /\ LineAudited(Append(ledger, record'[v]), Len(ledger) + 1)
                      /\ pc'[v] = "writing" => existing[v] = ledger
    BY <1>1 DEF PreparedInv
  <2>1. pc \in [Writers -> {"idle", "prepared", "writing"}]
        /\ record \in [Writers -> Events \cup {None}]
    BY <1>0 DEF TypeOK
  <2>2. CASE v = w
    <3>1. record'[v] = event /\ pc'[v] = "prepared"
      BY <1>1, <2>1, <2>2
    <3> QED BY <1>2, <1>3, <3>1
  <2>3. CASE v # w
    <3>1. record'[v] = record[v] /\ pc'[v] = pc[v]
      BY <1>1, <2>1, <2>3
    <3> QED BY <3>1 DEF LInv, PreparedInv
  <2> QED BY <2>2, <2>3
<1>5. (AlwaysAuditable /\ ShapeInv /\ ChainInv /\ PublishedInv)'
  BY <1>1 DEF LInv, AlwaysAuditable, ShapeInv, ChainInv, PublishedInv
<1> QED BY <1>4, <1>5 DEF LInv

\* Reading back finds the ledger that the event was prepared for.
LEMMA ReadBackKeeps ==
  ASSUME LInv, TypeOK', NEW w \in Writers, ReadBack(w)
  PROVE  LInv'
<1>0. TypeOK /\ pc \in [Writers -> {"idle", "prepared", "writing"}]
      /\ existing \in [Writers -> Seq(Events)]
  BY DEF LInv, TypeOK
<1>1. PreparedInv'
  <2> SUFFICES ASSUME NEW v \in Writers, pc'[v] # "idle"
               PROVE  /\ Shaped(record[v])
                      /\ LineAudited(Append(ledger, record[v]), Len(ledger) + 1)
                      /\ pc'[v] = "writing" => existing'[v] = ledger
    BY DEF PreparedInv, ReadBack
  <2>1. CASE v = w
    <3>1. pc[v] = "prepared" /\ existing'[v] = ledger
      BY <1>0, <2>1 DEF ReadBack
    <3> QED BY <3>1 DEF LInv, PreparedInv
  <2>2. CASE v # w
    <3>1. existing'[v] = existing[v] /\ pc'[v] = pc[v]
      BY <1>0, <2>2 DEF ReadBack
    <3> QED BY <3>1 DEF LInv, PreparedInv
  <2> QED BY <2>1, <2>2
<1>2. (AlwaysAuditable /\ ShapeInv /\ ChainInv /\ PublishedInv)'
  BY DEF ReadBack, LInv, AlwaysAuditable, ShapeInv, ChainInv, PublishedInv
<1> QED BY <1>1, <1>2 DEF LInv

\* With one writer, the replacement is an append of the audited next line.
LEMMA ReplaceAppends ==
  ASSUME LInv, NEW w \in Writers, Replace(w)
  PROVE  /\ record[w] \in Events /\ ledger \in Seq(Events)
         /\ ledger' = Append(ledger, record[w])
         /\ Shaped(record[w])
         /\ LineAudited(Append(ledger, record[w]), Len(ledger) + 1)
<1>1. pc[w] = "writing" /\ ledger' = Append(existing[w], record[w])
  BY DEF Replace
<1> QED BY <1>1 DEF LInv, TypeOK, PreparedInv

\* The new line is audited and chained; no other writer stands prepared.
LEMMA ReplaceKeeps ==
  ASSUME SingleWriter, LInv, TypeOK', NEW w \in Writers, Replace(w)
  PROVE  LInv'
<1> DEFINE event == record[w]
<1>1. /\ event \in Events /\ ledger \in Seq(Events)
      /\ ledger' = Append(ledger, event) /\ Shaped(event)
      /\ LineAudited(Append(ledger, event), Len(ledger) + 1)
  BY ReplaceAppends
<1>2. published' = published /\ pc' = [pc EXCEPT ![w] = "idle"]
  BY DEF Replace
<1> HIDE DEF event
<1>3. /\ Len(ledger) \in Nat /\ DOMAIN ledger = 1..Len(ledger)
      /\ DOMAIN ledger' = 1..(Len(ledger) + 1)
      /\ ledger'[Len(ledger) + 1] = event
      /\ \A i \in 1..Len(ledger) : ledger'[i] = ledger[i]
      /\ (Len(ledger) = 0 => ledger = <<>>)
  BY <1>1, AppendIndices
<1>4. AlwaysAuditable'
  <2>1. Auditable(Append(ledger, event))
    BY <1>1, AuditableAppend DEF LInv, AlwaysAuditable
  <2> QED BY <1>1, <2>1 DEF AlwaysAuditable
<1>5. ShapeInv'
  BY <1>1, <1>3 DEF LInv, ShapeInv
<1>6. ChainInv'
  <2> SUFFICES ASSUME NEW i \in 1..(Len(ledger) + 1)
               PROVE  ledger'[i].hash = [k \in 1..i |-> Body(ledger'[k])]
    BY <1>3 DEF ChainInv
  <2>1. CASE i \in 1..Len(ledger)
    <3>1. ledger'[i].hash = [k \in 1..i |-> Body(ledger[k])]
      BY <1>3, <2>1 DEF LInv, ChainInv
    <3>2. \A k \in 1..i : Body(ledger'[k]) = Body(ledger[k])
      BY <1>3, <2>1
    <3> QED BY <3>1, <3>2
  <2>2. CASE i = Len(ledger) + 1
    <3>1. event.hash = Append(event.previous, Body(event))
      BY <1>1, <1>3 DEF LineAudited, EventHash
    <3>2. event.previous = [k \in 1..Len(ledger) |-> Body(ledger[k])]
      <4>1. CASE Len(ledger) = 0
        <5>1. event.previous = <<>>
          BY <1>1, <1>3, <4>1 DEF LineAudited, GENESIS_HASH
        <5>2. [k \in 1..Len(ledger) |-> Body(ledger[k])] = <<>>
          BY <4>1
        <5> QED BY <5>1, <5>2
      <4>2. CASE Len(ledger) # 0
        <5>1. Len(ledger) \in 1..Len(ledger) /\ Len(ledger) + 1 # 1 /\ Len(ledger) + 1 - 1 = Len(ledger)
          BY <1>3, <4>2
        <5>2. event.previous = ledger'[Len(ledger)].hash
          BY <1>1, <1>3, <5>1 DEF LineAudited
        <5>3. event.previous = ledger[Len(ledger)].hash
          BY <1>3, <5>1, <5>2
        <5> QED BY <1>3, <5>1, <5>3 DEF LInv, ChainInv
      <4> QED BY <4>1, <4>2
    <3>3. \A k \in 1..Len(ledger) : Body(ledger'[k]) = Body(ledger[k])
      BY <1>3
    <3>4. Body(ledger'[Len(ledger) + 1]) = Body(event)
      BY <1>3
    <3> DEFINE bodies == [k \in 1..Len(ledger) |-> Body(ledger[k])]
    <3>5. bodies \in Seq({Body(ledger[k]) : k \in 1..Len(ledger)} \cup {Body(event)})
          /\ Len(bodies) = Len(ledger)
      BY <1>3
    <3>6. Append(bodies, Body(event)) =
            [k \in 1..(Len(ledger) + 1) |-> IF k = Len(ledger) + 1 THEN Body(event) ELSE bodies[k]]
      BY <1>3, <3>5
    <3>7. \A k \in 1..(Len(ledger) + 1) :
            (IF k = Len(ledger) + 1 THEN Body(event) ELSE bodies[k]) = Body(ledger'[k])
      BY <1>3, <3>3, <3>4
    <3> QED BY <1>3, <2>2, <3>1, <3>2, <3>6, <3>7
  <2> QED BY <1>3, <2>1, <2>2
<1>7. PreparedInv'
  <2>1. \A v \in Writers : pc'[v] = "idle"
    BY <1>2 DEF SingleWriter, LInv, TypeOK
  <2> QED BY <2>1 DEF PreparedInv
<1>8. PublishedInv'
  BY <1>2, <1>3 DEF LInv, PublishedInv
<1> QED BY <1>4, <1>5, <1>6, <1>7, <1>8 DEF LInv

\* A writer's death forgets its own event.
LEMMA CrashKeeps ==
  ASSUME LInv, TypeOK', NEW w \in Writers, Crash(w)
  PROVE  LInv'
<1>1. PreparedInv'
  <2> SUFFICES ASSUME NEW v \in Writers, pc'[v] # "idle"
               PROVE  /\ Shaped(record'[v])
                      /\ LineAudited(Append(ledger, record'[v]), Len(ledger) + 1)
                      /\ pc'[v] = "writing" => existing'[v] = ledger
    BY DEF PreparedInv, Crash
  <2>1. v # w /\ pc'[v] = pc[v] /\ record'[v] = record[v] /\ existing'[v] = existing[v]
    BY DEF Crash, LInv, TypeOK
  <2> QED BY <2>1 DEF LInv, PreparedInv
<1>2. (AlwaysAuditable /\ ShapeInv /\ ChainInv /\ PublishedInv)'
  BY DEF Crash, LInv, AlwaysAuditable, ShapeInv, ChainInv, PublishedInv
<1> QED BY <1>1, <1>2 DEF LInv

\* The published head is the hash of the last line.
LEMMA PublishKeeps ==
  ASSUME LInv, TypeOK', Publish
  PROVE  LInv'
<1>1. (AlwaysAuditable /\ ShapeInv /\ ChainInv /\ PreparedInv)'
  BY DEF Publish, LInv, AlwaysAuditable, ShapeInv, ChainInv, PreparedInv
<1>2. PublishedInv'
  <2>1. ledger \in Seq(Events) /\ ledger' = ledger /\ published' = LedgerHead(ledger)
    BY DEF Publish, LInv, TypeOK
  <2>2. CASE ledger = <<>>
    BY <2>1, <2>2 DEF PublishedInv, LedgerHead
  <2>3. CASE ledger # <<>>
    <3>1. Len(ledger) \in DOMAIN ledger
      BY <2>1, <2>3
    <3> QED BY <2>1, <2>3, <3>1 DEF PublishedInv, LedgerHead
  <2> QED BY <2>2, <2>3
<1> QED BY <1>1, <1>2 DEF LInv

LEMMA NextLedger ==
  ASSUME SingleWriter, PlainText
  PROVE  LInv /\ [Next]_vars => LInv'
<1> SUFFICES ASSUME LInv, [Next]_vars PROVE LInv'
  OBVIOUS
<1>0. TypeOK'
  BY NextTypes DEF LInv
<1>1. CASE UNCHANGED vars
  BY <1>0, <1>1 DEF vars, LInv, AlwaysAuditable, ShapeInv, ChainInv, PreparedInv,
       PublishedInv
<1>2. ASSUME NEW w \in Writers, PrepareForecast(w) \/ PrepareResolution(w)
      PROVE  LInv'
  BY <1>0, <1>2, PrepareKeeps
<1>3. ASSUME NEW w \in Writers, ReadBack(w)
      PROVE  LInv'
  BY <1>0, <1>3, ReadBackKeeps
<1>4. ASSUME NEW w \in Writers, Replace(w)
      PROVE  LInv'
  BY <1>0, <1>4, ReplaceKeeps
<1>5. ASSUME NEW w \in Writers, Crash(w)
      PROVE  LInv'
  BY <1>0, <1>5, CrashKeeps
<1>6. CASE Publish
  BY <1>0, <1>6, PublishKeeps
<1> QED BY <1>1, <1>2, <1>3, <1>4, <1>5, <1>6 DEF Next

-----------------------------------------------------------------------------
(* What the ledger promises, while one writer appends plain text.          *)

LEMMA LedgerInvariance ==
  ASSUME SingleWriter, PlainText
  PROVE  Spec => []LInv
<1>1. Init => LInv
  BY InitLedger
<1>2. LInv /\ [Next]_vars => LInv'
  BY NextLedger
<1> QED BY <1>1, <1>2, PTL DEF Spec

\* What append_*_batch accepts, audit_ledger accepts: no sequence of appends, deaths and
\* publications leaves a ledger that cannot be verified or appended to.
THEOREM Audited ==
  ASSUME SingleWriter, PlainText
  PROVE  Spec => []AlwaysAuditable
<1>1. LInv => AlwaysAuditable
  BY DEF LInv
<1> QED BY <1>1, LedgerInvariance, PTL

\* A published head keeps standing for the lines it was published for.
THEOREM PublishedPrefix ==
  ASSUME SingleWriter, PlainText
  PROVE  Spec => []PublishedIsPrefix
<1>1. LInv => PublishedIsPrefix
  BY DEF LInv, PublishedInv, PublishedIsPrefix, ChainInv
<1> QED BY <1>1, LedgerInvariance, PTL

\* What is in a sequence.
LEMMA ElementOf ==
  ASSUME NEW S, NEW s \in Seq(S), NEW g \in 1..Len(s)
  PROVE  s[g] \in S
OBVIOUS

\* The clocks of a forecast and of the resolution of the same game.
LEMMA ClocksInOrder ==
  ASSUME NEW generated \in Nat, NEW recordedAt \in Nat, NEW deadline \in Nat, NEW tipoff \in Nat,
         NEW resolved \in Nat,
         generated <= recordedAt, recordedAt < deadline, deadline < tipoff, tipoff <= resolved
  PROVE  generated < deadline /\ recordedAt < resolved
OBVIOUS

\* Everything an auditable resolution line needs of the lines before it.
LEMMA ResolutionLine ==
  ASSUME LInv, NEW i \in DOMAIN ledger, ledger[i].type = "resolution_batch"
  PROVE  \E k \in 1..(i - 1) :
           /\ ledger[k].type = "forecast_batch"
           /\ ledger[k].cohort = ledger[i].cohort
           /\ \A g \in 1..Len(ledger[i].cohort.games) :
                /\ ledger[k].submissions[g].question = ledger[i].submissions[g].question
                /\ ledger[k].submissions[g].generated < ledger[i].cohort.games[g].deadline
                /\ ledger[k].recordedAt < ledger[i].submissions[g].resolved
<1>1. ledger \in Seq(Events) /\ i \in 1..Len(ledger) /\ Len(ledger) \in Nat
  BY DEF LInv, TypeOK
<1>2. LineAudited(ledger, i)
  BY DEF LInv, AlwaysAuditable, Auditable
<1>3. ResolutionAllowed(ledger, i - 1, ledger[i])
  BY <1>2 DEF LineAudited, EventAllowed
<1>4. PICK k \in Forecasts(ledger, i - 1) : ledger[k].cohort = ledger[i].cohort
  BY <1>3 DEF ResolutionAllowed
<1>5. k \in 1..(i - 1) /\ ledger[k].type = "forecast_batch" /\ k \in DOMAIN ledger
  BY <1>1, <1>4 DEF Forecasts
<1>6. ForecastBatchValid(ledger[k].cohort, ledger[k].submissions, ledger[k].recordedAt)
  <2>1. LineAudited(ledger, k)
    BY <1>5 DEF LInv, AlwaysAuditable, Auditable
  <2> QED BY <1>5, <2>1 DEF LineAudited, EventAllowed, ForecastAllowed
<1>7. ResolutionBatchValid(ledger[i].cohort, ledger[i].submissions, ledger[i].recordedAt)
  BY <1>3 DEF ResolutionAllowed
<1> DEFINE cohort == ledger[i].cohort
<1>8. /\ cohort.games \in Seq([question : STRING, deadline : Nat, tipoff : Nat])
      /\ ledger[k].recordedAt \in Nat
  <2>1. ledger[i] \in Events /\ ledger[k] \in Events
    BY <1>1, <1>5
  <2> QED BY <2>1, CohortsAssumption, TimesAssumption DEF Events
<1>9. /\ ledger[k].submissions \in Seq([question : STRING, input : Nat, generated : Nat, breaks : BOOLEAN])
      /\ ledger[i].submissions \in Seq([question : STRING, resolved : Nat, breaks : BOOLEAN])
  BY <1>5, BatchesAssumption DEF LInv, ShapeInv, Shaped
<1>10. ASSUME NEW g \in 1..Len(cohort.games)
       PROVE  /\ ledger[k].submissions[g].question = ledger[i].submissions[g].question
              /\ ledger[k].submissions[g].generated < cohort.games[g].deadline
              /\ ledger[k].recordedAt < ledger[i].submissions[g].resolved
  <2>1. ledger[k].submissions[g].question = ledger[i].submissions[g].question
    BY <1>4, <1>6, <1>7 DEF ForecastBatchValid, ResolutionBatchValid, ExactOrder
  <2>2. /\ cohort.games[g].deadline \in Nat /\ cohort.games[g].tipoff \in Nat
        /\ ledger[k].submissions[g].generated \in Nat
        /\ ledger[i].submissions[g].resolved \in Nat
    <3>1. Len(ledger[k].submissions) = Len(cohort.games) /\ Len(ledger[i].submissions) = Len(cohort.games)
      BY <1>4, <1>6, <1>7 DEF ForecastBatchValid, ResolutionBatchValid, ExactOrder
    <3>2. cohort.games[g] \in [question : STRING, deadline : Nat, tipoff : Nat]
      BY <1>8, ElementOf
    <3>3. ledger[k].submissions[g] \in [question : STRING, input : Nat, generated : Nat, breaks : BOOLEAN]
      BY <1>9, <3>1, ElementOf
    <3>4. ledger[i].submissions[g] \in [question : STRING, resolved : Nat, breaks : BOOLEAN]
      BY <1>9, <3>1, ElementOf
    <3> QED BY <3>2, <3>3, <3>4
  <2>3. /\ ledger[k].submissions[g].generated <= ledger[k].recordedAt
        /\ ledger[k].recordedAt < cohort.games[g].deadline
        /\ cohort.games[g].deadline < cohort.games[g].tipoff
    BY <1>4, <1>6 DEF ForecastBatchValid
  <2>4. cohort.games[g].tipoff <= ledger[i].submissions[g].resolved
    BY <1>7 DEF ResolutionBatchValid
  <2> DEFINE generated == ledger[k].submissions[g].generated
  <2> DEFINE recordedAt == ledger[k].recordedAt
  <2> DEFINE deadline == cohort.games[g].deadline
  <2> DEFINE tipoff == cohort.games[g].tipoff
  <2> DEFINE resolved == ledger[i].submissions[g].resolved
  <2>5. /\ generated \in Nat /\ recordedAt \in Nat /\ deadline \in Nat
        /\ tipoff \in Nat /\ resolved \in Nat
    BY <1>8, <2>2
  <2>6. /\ generated <= recordedAt /\ recordedAt < deadline
        /\ deadline < tipoff /\ tipoff <= resolved
    BY <2>3, <2>4
  <2>7. generated < deadline /\ recordedAt < resolved
    <3> HIDE DEF generated, recordedAt, deadline, tipoff, resolved
    <3> QED BY <2>5, <2>6, ClocksInOrder
  <2> QED BY <2>1, <2>7
<1> QED BY <1>4, <1>5, <1>10

\* Behind every resolved game stands a forecast of the same cohort, in time.
THEOREM Prospective ==
  ASSUME SingleWriter, PlainText
  PROVE  Spec => []ResolutionsFollowForecasts
<1>1. LInv => ResolutionsFollowForecasts
  BY ResolutionLine DEF ResolutionsFollowForecasts
<1> QED BY <1>1, LedgerInvariance, PTL

LEMMA StepAppendsOnly ==
  ASSUME LInv, [Next]_vars
  PROVE  [\A i \in DOMAIN ledger : i \in DOMAIN ledger' /\ ledger'[i] = ledger[i]]_vars
<1>1. CASE ledger' = ledger
  BY <1>1
<1>2. ASSUME NEW w \in Writers, Replace(w)
      PROVE  \A i \in DOMAIN ledger : i \in DOMAIN ledger' /\ ledger'[i] = ledger[i]
  <2>1. record[w] \in Events /\ ledger \in Seq(Events) /\ ledger' = Append(ledger, record[w])
    BY <1>2, ReplaceAppends
  <2> QED BY <2>1, AppendIndices
<1> QED BY <1>1, <1>2 DEF vars, Next, PrepareForecast, PrepareResolution, Prepare, ReadBack, Crash, Publish

\* No line is ever changed or removed, although every append replaces the whole file.
THEOREM OnlyAppends ==
  ASSUME SingleWriter, PlainText
  PROVE  Spec => AppendOnly
<1>1. LInv /\ [Next]_vars =>
        [\A i \in DOMAIN ledger : i \in DOMAIN ledger' /\ ledger'[i] = ledger[i]]_vars
  BY StepAppendsOnly
<1> QED BY <1>1, LedgerInvariance, PTL DEF Spec, AppendOnly

-----------------------------------------------------------------------------
(* ProviderCapture, for any number of commands and targets and any number  *)
(* of deaths and losses of power.  The invariant follows a capture through *)
(* the command: what is held where it stands, and that the file under its  *)
(* name is its own, synced, from the link on.                              *)

Asked == {"waiting", "reading", "read", "captured", "writing", "linking", "linked", "published"}
Stamped == {"captured", "writing", "linking", "linked", "published"}
Linked == {"linked", "published"}
Stopped == {"start", "failed", "done", "dead"}
Places == {"asking"} \cup Asked \cup Stopped

\* A capture in order: asked for, made, and only then stamped; complete where that shows.
Orderly ==
  {capture \in Captures :
     /\ capture.request \in Registered
     /\ capture.asked <= capture.body.made /\ capture.body.made <= capture.retrievedAt
     /\ capture.body.answer.framing = "declared" => capture.body.answer.whole}

Synced(capture) == [capture |-> capture, synced |-> TRUE]

Typed ==
  /\ now \in Nat
  /\ cmd \in [Commands -> [pc : Places, request : Requests \cup {Absent},
                           target : Names \cup {Absent}, asked : Nat,
                           response : ReceivedBodies \cup {Absent}, capture : Captures \cup {Absent}]]
  /\ partial \in [Commands -> {"none", "buffered", "synced"}]
  /\ files \in [Targets -> {Absent} \cup {Synced(capture) : capture \in Orderly}]
  /\ entries \subseteq Captured

Held(c) ==
  /\ cmd[c].pc \notin Stopped => cmd[c].request \in Registered /\ cmd[c].target \in Targets
  /\ cmd[c].pc \in Asked => cmd[c].asked <= now
  /\ cmd[c].pc \in {"reading", "read"} =>
       /\ cmd[c].response \in ReceivedBodies
       /\ cmd[c].asked <= cmd[c].response.made /\ cmd[c].response.made <= now
  /\ cmd[c].pc = "read" => Accepted(cmd[c].response.answer)
  /\ cmd[c].pc \in Stamped => cmd[c].capture \in Orderly
  /\ cmd[c].pc = "linking" => partial[c] = "synced"
  /\ cmd[c].pc \in Linked => files[cmd[c].target] = Synced(cmd[c].capture)
  /\ cmd[c].pc = "published" => cmd[c].target \in entries

Kept ==
  \A r \in reported : r.target \in entries /\ files[r.target] = Synced(r.capture)

IInv == Typed /\ (\A c \in Commands : Held(c)) /\ Kept

-----------------------------------------------------------------------------
(* A step of one command.                                                  *)

\* Another command holds what it held while the files stay and no entry is lost.
LEMMA OthersHold ==
  ASSUME NEW d \in Commands, Held(d), Typed,
         cmd'[d] = cmd[d], partial'[d] = partial[d],
         files' = files, entries \subseteq entries', now' \in Nat, now <= now'
  PROVE  Held(d)'
<1>1. cmd[d].asked \in Nat /\ now \in Nat
  BY DEF Typed
<1>2. cmd[d].response \in ReceivedBodies => cmd[d].response.made \in Nat
  BY DEF ReceivedBodies
<1> QED BY <1>1, <1>2 DEF Held

LEMMA KeptStays ==
  ASSUME Kept, reported' = reported, files' = files, entries \subseteq entries'
  PROVE  Kept'
BY DEF Kept

\* A step that touches no file: what is left to show is what its command holds.
LEMMA PrivateStep ==
  ASSUME IInv, NEW c \in Commands,
         NEW held \in [pc : Places, request : Requests \cup {Absent},
                       target : Names \cup {Absent}, asked : Nat,
                       response : ReceivedBodies \cup {Absent}, capture : Captures \cup {Absent}],
         NEW temporary \in {"none", "buffered", "synced"},
         cmd' = [cmd EXCEPT ![c] = held], partial' = [partial EXCEPT ![c] = temporary],
         now' = now, files' = files, entries' = entries, reported' = reported,
         Held(c)'
  PROVE  IInv'
<1>1. Typed'
  BY DEF IInv, Typed, Captured
<1>2. \A d \in Commands : d # c => Held(d)'
  <2> SUFFICES ASSUME NEW d \in Commands, d # c PROVE Held(d)'
    OBVIOUS
  <2>1. cmd'[d] = cmd[d] /\ partial'[d] = partial[d]
    BY DEF IInv, Typed
  <2> QED BY <2>1, OthersHold DEF IInv, Typed
<1>3. Kept'
  BY KeptStays DEF IInv
<1> QED BY <1>1, <1>2, <1>3 DEF IInv

LEMMA EndedHolds ==
  ASSUME NEW how \in {"failed", "done", "dead"}
  PROVE  /\ Ended(how) \in [pc : Places, request : Requests \cup {Absent},
                            target : Names \cup {Absent}, asked : Nat,
                            response : ReceivedBodies \cup {Absent}, capture : Captures \cup {Absent}]
         /\ Ended(how).pc = how
BY DEF Ended, Waiting, Places, Stopped

\* A command that has ended holds nothing.
LEMMA StoppedHolds ==
  ASSUME NEW c \in Commands, cmd[c].pc \in Stopped
  PROVE  Held(c)
BY DEF Held, Stopped, Asked, Stamped, Linked

LEMMA FailsKeeps ==
  ASSUME IInv, NEW c \in Commands, Fails(c),
         now' = now, files' = files, entries' = entries, reported' = reported
  PROVE  IInv'
<1>1. cmd'[c] = Ended("failed")
  BY DEF Fails, IInv, Typed
<1>2. Held(c)'
  BY <1>1, EndedHolds DEF Held, Asked, Stamped, Linked, Stopped
<1> QED BY <1>2, EndedHolds, PrivateStep DEF Fails

LEMMA InitHolds == CaptureInit => IInv
<1> SUFFICES ASSUME CaptureInit PROVE IInv
  OBVIOUS
<1>1. Typed
  BY DEF CaptureInit, Typed, Waiting, Places, Stopped, Captured
<1>2. \A c \in Commands : Held(c)
  BY StoppedHolds DEF CaptureInit, Waiting, Stopped
<1> QED BY <1>1, <1>2 DEF IInv, Kept, CaptureInit

-----------------------------------------------------------------------------
(* The request.                                                             *)

\* A step that only moves its command: partial stays what it is.
LEMMA PartialStays ==
  ASSUME Typed, NEW c \in Commands, UNCHANGED partial
  PROVE  /\ partial[c] \in {"none", "buffered", "synced"}
         /\ partial' = [partial EXCEPT ![c] = partial[c]]
BY DEF Typed

LEMMA BeginCaptureKeeps ==
  ASSUME IInv, NEW c \in Commands, BeginCapture(c)
  PROVE  IInv'
<1>1. PICK request \in Requests, target \in Names, keyReads \in KeyReads :
        IF StorageTarget(target) /\ files[target] = Absent /\ IsRegistered(request) /\ keyReads
        THEN cmd' = [cmd EXCEPT ![c].pc = "asking", ![c].request = request, ![c].target = target]
        ELSE cmd' = [cmd EXCEPT ![c] = Ended("failed")]
  BY DEF BeginCapture
<1>2. UNCHANGED <<now, files, entries, reported>> /\ UNCHANGED partial
  BY DEF BeginCapture, storage
<1>3. CASE StorageTarget(target) /\ files[target] = Absent /\ IsRegistered(request) /\ keyReads
  <2> DEFINE held == [cmd[c] EXCEPT !.pc = "asking", !.request = request, !.target = target]
  <2>1. cmd' = [cmd EXCEPT ![c] = held] /\ cmd'[c] = held
    BY <1>1, <1>3 DEF IInv, Typed
  <2>2. held \in [pc : Places, request : Requests \cup {Absent},
                  target : Names \cup {Absent}, asked : Nat,
                  response : ReceivedBodies \cup {Absent}, capture : Captures \cup {Absent}]
    BY DEF IInv, Typed, Places
  <2>3. Held(c)'
    <3>1. cmd'[c].pc = "asking" /\ cmd'[c].request = request /\ cmd'[c].target = target
      BY <2>1 DEF IInv, Typed
    <3> QED BY <3>1, <1>3 DEF Held, Asked, Stamped, Linked, IsRegistered, StorageTarget
  <2> HIDE DEF held
  <2> QED BY <1>2, <2>1, <2>2, <2>3, PrivateStep, PartialStays DEF IInv
<1>4. CASE ~(StorageTarget(target) /\ files[target] = Absent /\ IsRegistered(request) /\ keyReads)
  <2>1. cmd' = [cmd EXCEPT ![c] = Ended("failed")] /\ cmd'[c] = Ended("failed")
    BY <1>1, <1>4 DEF IInv, Typed
  <2>2. Held(c)'
    BY <2>1, EndedHolds DEF Held, Asked, Stamped, Linked, Stopped
  <2> QED BY <1>2, <2>1, <2>2, EndedHolds, PrivateStep, PartialStays DEF IInv
<1> QED BY <1>3, <1>4

LEMMA AskKeeps ==
  ASSUME IInv, NEW c \in Commands, Ask(c)
  PROVE  IInv'
<1> DEFINE held == [cmd[c] EXCEPT !.pc = "waiting", !.asked = now]
<1>1. cmd' = [cmd EXCEPT ![c] = held] /\ cmd'[c] = held
  BY DEF Ask, IInv, Typed
<1>2. held \in [pc : Places, request : Requests \cup {Absent},
                target : Names \cup {Absent}, asked : Nat,
                response : ReceivedBodies \cup {Absent}, capture : Captures \cup {Absent}]
  BY DEF IInv, Typed, Places, Asked
<1>3. Held(c)'
  <2>1. /\ cmd'[c].pc = "waiting" /\ cmd'[c].asked = now
        /\ cmd'[c].request = cmd[c].request /\ cmd'[c].target = cmd[c].target
    BY <1>1 DEF IInv, Typed
  <2>2. Held(c) /\ cmd[c].pc \notin Stopped /\ now' = now /\ now \in Nat
    BY DEF Ask, At, IInv, Typed, Stopped
  <2> QED BY <2>1, <2>2 DEF Held, Stopped, Stamped, Linked
<1>4. UNCHANGED <<now, files, entries, reported>> /\ UNCHANGED partial
  BY DEF Ask, storage
<1> HIDE DEF held
<1> QED BY <1>1, <1>2, <1>3, <1>4, PrivateStep, PartialStays DEF IInv

LEMMA AnswerKeeps ==
  ASSUME IInv, NEW c \in Commands, Answer(c)
  PROVE  IInv'
<1>1. PICK response \in Responses :
        cmd' = [cmd EXCEPT ![c].pc = "reading",
                           ![c].response = [made |-> now, answer |-> response]]
  BY DEF Answer
<1> DEFINE body == [made |-> now, answer |-> response]
           held == [cmd[c] EXCEPT !.pc = "reading", !.response = body]
<1>2. body \in ReceivedBodies /\ body.made = now
  BY DEF IInv, Typed, ReceivedBodies
<1>3. cmd' = [cmd EXCEPT ![c] = held] /\ cmd'[c] = held
  BY <1>1 DEF IInv, Typed
<1> HIDE DEF body
<1>4. held \in [pc : Places, request : Requests \cup {Absent},
                target : Names \cup {Absent}, asked : Nat,
                response : ReceivedBodies \cup {Absent}, capture : Captures \cup {Absent}]
  BY <1>2 DEF IInv, Typed, Places, Asked
<1>5. Held(c)'
  <2>1. /\ cmd'[c].pc = "reading" /\ cmd'[c].asked = cmd[c].asked /\ cmd'[c].response = body
        /\ cmd'[c].request = cmd[c].request /\ cmd'[c].target = cmd[c].target
    BY <1>3 DEF IInv, Typed
  <2>2. Held(c) /\ cmd[c].pc = "waiting" /\ now' = now /\ now \in Nat
    BY DEF Answer, At, IInv, Typed
  <2>3. cmd[c].asked <= now /\ cmd[c].request \in Registered /\ cmd[c].target \in Targets
    BY <2>2 DEF Held, Stopped, Asked
  <2> QED BY <1>2, <2>1, <2>2, <2>3 DEF Held, Stopped, Stamped, Linked
<1>6. UNCHANGED <<now, files, entries, reported>> /\ UNCHANGED partial
  BY DEF Answer, storage
<1> HIDE DEF held
<1> QED BY <1>3, <1>4, <1>5, <1>6, PrivateStep, PartialStays DEF IInv

\* A step that moves its command to another place and changes nothing that it holds.
LEMMA MoveKeeps ==
  ASSUME IInv, NEW c \in Commands, NEW place \in Places, Goes(c, place),
         NEW temporary \in {"none", "buffered", "synced"},
         partial' = [partial EXCEPT ![c] = temporary],
         UNCHANGED <<now, files, entries, reported>>,
         Held(c)'
  PROVE  IInv'
<1> DEFINE held == [cmd[c] EXCEPT !.pc = place]
<1>1. cmd' = [cmd EXCEPT ![c] = held]
  BY DEF Goes, IInv, Typed
<1>2. held \in [pc : Places, request : Requests \cup {Absent},
                target : Names \cup {Absent}, asked : Nat,
                response : ReceivedBodies \cup {Absent}, capture : Captures \cup {Absent}]
  BY DEF IInv, Typed
<1> HIDE DEF held
<1> QED BY <1>1, <1>2, PrivateStep

LEMMA Moved ==
  ASSUME Typed, NEW c \in Commands, NEW place, Goes(c, place)
  PROVE  /\ cmd'[c].pc = place
         /\ cmd'[c].request = cmd[c].request /\ cmd'[c].target = cmd[c].target
         /\ cmd'[c].asked = cmd[c].asked /\ cmd'[c].response = cmd[c].response
         /\ cmd'[c].capture = cmd[c].capture
         /\ \A d \in Commands : d # c => cmd'[d] = cmd[d]
BY DEF Goes, Typed

LEMMA ReadBodyKeeps ==
  ASSUME IInv, NEW c \in Commands, ReadBody(c)
  PROVE  IInv'
<1>1. UNCHANGED <<now, files, entries, reported>>
  BY DEF ReadBody
<1>2. CASE Accepted(cmd[c].response.answer)
  <2>1. Goes(c, "read") /\ UNCHANGED partial /\ cmd[c].pc = "reading"
    BY <1>2 DEF ReadBody, At
  <2>2. Held(c)
    BY DEF IInv
  <2>3. Held(c)'
    BY <1>1, <1>2, <2>1, <2>2, Moved DEF Held, IInv, Stopped, Asked, Stamped, Linked
  <2> QED BY <1>1, <2>1, <2>3, MoveKeeps, PartialStays DEF IInv, Places, Asked
<1>3. CASE ~Accepted(cmd[c].response.answer)
  BY <1>1, <1>3, FailsKeeps DEF ReadBody
<1> QED BY <1>2, <1>3

LEMMA StampKeeps ==
  ASSUME IInv, NEW c \in Commands, Stamp(c)
  PROVE  IInv'
<1> DEFINE capture == CaptureAt(c, now)
           held == [cmd[c] EXCEPT !.pc = "captured", !.capture = capture]
<1>1. Held(c) /\ cmd[c].pc = "read" /\ cmd[c].asked \in Nat /\ now \in Nat
  BY DEF Stamp, At, IInv, Typed
<1>2. /\ cmd[c].request \in Registered /\ cmd[c].target \in Targets
      /\ cmd[c].response \in ReceivedBodies /\ Accepted(cmd[c].response.answer)
      /\ cmd[c].asked <= cmd[c].response.made /\ cmd[c].response.made <= now
  BY <1>1 DEF Held, Stopped
<1>3. capture \in Captures
  BY <1>1, <1>2, CaptureAssumption DEF CaptureAt, Captures
<1>4. capture \in Orderly
  BY <1>2, <1>3 DEF CaptureAt, Orderly, Accepted, FramingAccepted
<1>5. cmd' = [cmd EXCEPT ![c] = held] /\ cmd'[c] = held
  BY DEF Stamp, IInv, Typed
<1> HIDE DEF capture
<1>6. held \in [pc : Places, request : Requests \cup {Absent},
                target : Names \cup {Absent}, asked : Nat,
                response : ReceivedBodies \cup {Absent}, capture : Captures \cup {Absent}]
  BY <1>3 DEF IInv, Typed, Places, Asked
<1>7. Held(c)'
  <2>1. /\ cmd'[c].pc = "captured" /\ cmd'[c].asked = cmd[c].asked /\ cmd'[c].capture = capture
        /\ cmd'[c].request = cmd[c].request /\ cmd'[c].target = cmd[c].target
    BY <1>5 DEF IInv, Typed
  <2>2. cmd[c].asked <= now /\ now' = now
    BY <1>1 DEF Held, Asked, Stamp
  <2> QED BY <1>2, <1>4, <2>1, <2>2 DEF Held, Linked
<1>8. UNCHANGED <<now, files, entries, reported>> /\ UNCHANGED partial
  BY DEF Stamp, storage
<1> HIDE DEF held
<1> QED BY <1>5, <1>6, <1>7, <1>8, PrivateStep, PartialStays DEF IInv

-----------------------------------------------------------------------------
(* The artifact.                                                            *)

LEMMA WritePartialKeeps ==
  ASSUME IInv, NEW c \in Commands, WritePartial(c)
  PROVE  IInv'
<1>1. UNCHANGED <<now, files, entries, reported>>
  BY DEF WritePartial
<1>2. CASE StorageTarget(cmd[c].target)
  <2>1. /\ Goes(c, "writing") /\ partial' = [partial EXCEPT ![c] = "buffered"]
        /\ cmd[c].pc = "captured" /\ Held(c)
    BY <1>2 DEF WritePartial, At, IInv
  <2>2. Held(c)'
    BY <1>1, <2>1, Moved DEF Held, IInv, Stopped, Asked, Stamped, Linked
  <2> QED BY <1>1, <2>1, <2>2, MoveKeeps DEF Places, Asked
<1>3. CASE ~StorageTarget(cmd[c].target)
  BY <1>1, <1>3, FailsKeeps DEF WritePartial
<1> QED BY <1>2, <1>3

LEMMA SyncPartialKeeps ==
  ASSUME IInv, NEW c \in Commands, SyncPartial(c)
  PROVE  IInv'
<1>1. /\ UNCHANGED <<now, files, entries, reported>>
      /\ Goes(c, "linking") /\ partial' = [partial EXCEPT ![c] = "synced"]
      /\ cmd[c].pc = "writing" /\ Held(c)
  BY DEF SyncPartial, At, IInv
<1>2. Held(c)'
  <2>1. partial'[c] = "synced"
    BY <1>1 DEF IInv, Typed
  <2> QED BY <1>1, <2>1, Moved DEF Held, IInv, Stopped, Asked, Stamped, Linked
<1> QED BY <1>1, <1>2, MoveKeeps DEF Places, Asked

LEMMA SyncedIsAnArtifact ==
  ASSUME NEW capture \in Orderly
  PROVE  /\ Synced(capture) # Absent /\ Synced(capture) # Torn
         /\ Synced(capture).capture = capture /\ Synced(capture).synced
<1>1. Synced(capture) \in Artifacts
  BY DEF Synced, Artifacts, Orderly
<1>2. Synced(capture) # Absent /\ Synced(capture) # Torn
  BY <1>1, MarkersAssumption
<1> QED BY <1>2 DEF Synced

\* What is at a target is an artifact or nothing.
LEMMA FileKinds ==
  ASSUME Typed, NEW t \in Targets
  PROVE  /\ files[t] # Absent => \E capture \in Orderly : files[t] = Synced(capture)
         /\ files[t] # Absent => files[t].synced
         /\ files[t] # Torn
BY SyncedIsAnArtifact, MarkersAssumption DEF Typed

\* The one step that creates a file: no name that any command or report rests on was free.
LEMMA LinkKeeps ==
  ASSUME IInv, NEW c \in Commands, Link(c)
  PROVE  IInv'
<1> DEFINE target == cmd[c].target
<1>1. /\ cmd[c].pc = "linking" /\ Held(c) /\ Typed /\ Kept
      /\ UNCHANGED <<now, private, entries, reported, faults>>
  BY DEF Link, At, IInv
<1>2. /\ target \in Targets /\ cmd[c].capture \in Orderly /\ partial[c] = "synced"
      /\ cmd[c].request \in Registered /\ cmd[c].asked <= now
  BY <1>1 DEF Held, Stopped, Asked, Stamped
<1>3. CASE files[target] # Absent
  BY <1>1, <1>3, FailsKeeps DEF Link
<1>4. CASE files[target] = Absent
  <2>1. /\ files' = [files EXCEPT ![target] = Artifact(c)]
        /\ Goes(c, "linked") /\ UNCHANGED partial
    BY <1>4 DEF Link
  <2>2. Artifact(c) = Synced(cmd[c].capture) /\ Artifact(c) # Absent
    <3>1. Artifact(c) = Synced(cmd[c].capture)
      BY <1>2 DEF Artifact, Synced
    <3> QED BY <1>2, <3>1, SyncedIsAnArtifact
  <2>3. files'[target] = Synced(cmd[c].capture) /\ \A t \in Targets : t # target => files'[t] = files[t]
    BY <1>1, <1>2, <2>1, <2>2 DEF Typed
  <2>4. target \notin entries
    BY <1>1, <1>4 DEF Typed, Captured
  <2>5. Typed'
    <3>1. cmd' \in [Commands -> [pc : Places, request : Requests \cup {Absent},
                                 target : Names \cup {Absent}, asked : Nat,
                                 response : ReceivedBodies \cup {Absent}, capture : Captures \cup {Absent}]]
      BY <1>1, <2>1 DEF Typed, Goes, Places, Asked
    <3>2. files' \in [Targets -> {Absent} \cup {Synced(capture) : capture \in Orderly}]
      BY <1>1, <1>2, <2>1, <2>2 DEF Typed
    <3>3. entries' \subseteq Captured'
      BY <1>1, <2>3, <2>4 DEF Typed, Captured
    <3> QED BY <1>1, <2>1, <3>1, <3>2, <3>3 DEF Typed
  <2>6. Held(c)'
    <3>1. /\ cmd'[c].pc = "linked" /\ cmd'[c].request = cmd[c].request
          /\ cmd'[c].target = target /\ cmd'[c].asked = cmd[c].asked
          /\ cmd'[c].capture = cmd[c].capture
      BY <1>1, <2>1, Moved
    <3> QED BY <1>1, <1>2, <2>3, <3>1 DEF Held
  <2>7. \A d \in Commands : d # c => Held(d)'
    <3> SUFFICES ASSUME NEW d \in Commands, d # c PROVE Held(d)'
      OBVIOUS
    <3>1. Held(d) /\ cmd'[d] = cmd[d] /\ partial'[d] = partial[d]
      BY <1>1, <2>1, Moved DEF IInv
    <3>2. CASE cmd[d].pc \in Linked
      <4>1. cmd[d].target \in Targets /\ files[cmd[d].target] = Synced(cmd[d].capture)
            /\ cmd[d].capture \in Orderly
        BY <3>1, <3>2 DEF Held, Linked, Stopped, Stamped
      <4>2. Synced(cmd[d].capture) # Absent
        BY <4>1, SyncedIsAnArtifact
      <4>3. files'[cmd[d].target] = files[cmd[d].target]
        BY <1>4, <2>3, <4>1, <4>2
      <4> QED BY <1>1, <3>1, <4>3 DEF Held
    <3>3. CASE cmd[d].pc \notin Linked
      BY <1>1, <3>1, <3>3 DEF Held, Linked
    <3> QED BY <3>2, <3>3
  <2>8. Kept'
    BY <1>1, <2>3, <2>4 DEF Kept, Typed, Captured
  <2> QED BY <2>5, <2>6, <2>7, <2>8 DEF IInv
<1> QED BY <1>3, <1>4

LEMMA SyncDirectoryKeeps ==
  ASSUME IInv, NEW c \in Commands, SyncDirectory(c)
  PROVE  IInv'
<1>1. /\ cmd[c].pc = "linked" /\ Held(c) /\ Typed /\ Kept
      /\ UNCHANGED <<now, private, files, reported>>
  BY DEF SyncDirectory, At, IInv
<1>2. CASE entries' = {t \in Targets : files[t] # Absent} /\ Goes(c, "published") /\ UNCHANGED partial
  <2>1. entries' = Captured /\ entries \subseteq entries'
    BY <1>1, <1>2 DEF Typed, Captured
  <2>2. /\ cmd[c].target \in Targets /\ cmd[c].request \in Registered /\ cmd[c].asked <= now
        /\ cmd[c].capture \in Orderly /\ files[cmd[c].target] = Synced(cmd[c].capture)
    BY <1>1 DEF Held, Stopped, Asked, Stamped, Linked
  <2>3. cmd[c].target \in entries'
    BY <2>1, <2>2, SyncedIsAnArtifact DEF Captured
  <2>4. Typed'
    <3>1. cmd' \in [Commands -> [pc : Places, request : Requests \cup {Absent},
                                 target : Names \cup {Absent}, asked : Nat,
                                 response : ReceivedBodies \cup {Absent}, capture : Captures \cup {Absent}]]
      BY <1>1, <1>2 DEF Typed, Goes, Places, Asked
    <3> QED BY <1>1, <1>2, <2>1, <3>1 DEF Typed, Captured
  <2>5. Held(c)'
    BY <1>1, <1>2, <2>2, <2>3, Moved DEF Held
  <2>6. \A d \in Commands : d # c => Held(d)'
    <3> SUFFICES ASSUME NEW d \in Commands, d # c PROVE Held(d)'
      OBVIOUS
    <3>1. Held(d) /\ cmd'[d] = cmd[d] /\ partial'[d] = partial[d]
      BY <1>1, <1>2, Moved DEF IInv
    <3> QED BY <1>1, <2>1, <3>1, OthersHold DEF Typed
  <2>7. Kept'
    BY <1>1, <2>1, KeptStays
  <2> QED BY <2>4, <2>5, <2>6, <2>7 DEF IInv
<1>3. CASE Fails(c) /\ UNCHANGED entries
  BY <1>1, <1>3, FailsKeeps
<1> QED BY <1>2, <1>3 DEF SyncDirectory

LEMMA ReportKeeps ==
  ASSUME IInv, NEW c \in Commands, Report(c)
  PROVE  IInv'
<1>1. /\ cmd[c].pc = "published" /\ Held(c) /\ Typed /\ Kept
      /\ UNCHANGED <<now, files, entries>>
      /\ cmd' = [cmd EXCEPT ![c] = Ended("done")] /\ partial' = [partial EXCEPT ![c] = "none"]
      /\ reported' = reported \cup {[target |-> cmd[c].target, capture |-> cmd[c].capture]}
  BY DEF Report, At, IInv
<1>2. cmd[c].target \in entries /\ files[cmd[c].target] = Synced(cmd[c].capture)
  BY <1>1 DEF Held, Linked
<1>3. Kept'
  BY <1>1, <1>2 DEF Kept
<1>4. Typed'
  BY <1>1, EndedHolds DEF Typed, Captured
<1>5. Held(c)'
  <2>1. cmd'[c].pc = "done"
    BY <1>1, EndedHolds DEF Typed
  <2> QED BY <2>1 DEF Held, Asked, Stamped, Linked, Stopped
<1>6. \A d \in Commands : d # c => Held(d)'
  <2> SUFFICES ASSUME NEW d \in Commands, d # c PROVE Held(d)'
    OBVIOUS
  <2>1. Held(d) /\ cmd'[d] = cmd[d] /\ partial'[d] = partial[d]
    BY <1>1 DEF IInv, Typed
  <2> QED BY <1>1, <2>1, OthersHold DEF Typed
<1> QED BY <1>3, <1>4, <1>5, <1>6 DEF IInv

-----------------------------------------------------------------------------
(* Time, deaths, power and the operator.                                    *)

LEMMA TickKeeps == IInv /\ (Tick \/ ChangeMode \/ UNCHANGED captureVars) => IInv'
<1> SUFFICES ASSUME IInv, Tick \/ ChangeMode \/ UNCHANGED captureVars PROVE IInv'
  OBVIOUS
<1>1. /\ UNCHANGED <<cmd, partial, files, entries, reported>>
      /\ now' \in Nat /\ now <= now' /\ Typed
  BY DEF IInv, Typed, Tick, ChangeMode, captureVars, storage
<1>2. Typed'
  BY <1>1 DEF Typed, Captured
<1>3. \A d \in Commands : Held(d)'
  BY <1>1, OthersHold DEF IInv
<1>4. Kept'
  BY <1>1, KeptStays DEF IInv
<1> QED BY <1>2, <1>3, <1>4 DEF IInv

LEMMA DieKeeps ==
  ASSUME IInv, NEW c \in Commands, Die(c)
  PROVE  IInv'
<1>1. /\ cmd' = [cmd EXCEPT ![c] = Ended("dead")] /\ cmd'[c] = Ended("dead")
      /\ UNCHANGED <<now, files, entries, reported>> /\ UNCHANGED partial
  BY DEF Die, storage, IInv, Typed
<1>2. Held(c)'
  BY <1>1, EndedHolds DEF Held, Asked, Stamped, Linked, Stopped
<1> QED BY <1>1, <1>2, EndedHolds, PrivateStep, PartialStays DEF IInv

\* The machine loses power: no command is left, and a file that had its entry on the disk
\* was synced before it was linked.
LEMMA PowerLossKeeps == IInv /\ PowerLoss => IInv'
<1> SUFFICES ASSUME IInv, PowerLoss PROVE IInv'
  OBVIOUS
<1>1. /\ Typed /\ Kept /\ UNCHANGED <<now, private, entries, reported>>
      /\ cmd' = [c \in Commands |-> IF Running(c) THEN Ended("dead") ELSE cmd[c]]
      /\ partial' = [c \in Commands |-> "none"]
  BY DEF PowerLoss, IInv
<1>2. PICK lost \in SUBSET (Targets \ entries) :
        files' = [t \in Targets |->
                    IF t \in lost \/ files[t] = Absent THEN Absent
                    ELSE IF files[t] # Torn /\ ~files[t].synced THEN Torn ELSE files[t]]
  BY DEF PowerLoss
<1>3. \A t \in Targets : files'[t] = IF t \in lost THEN Absent ELSE files[t]
  <2> SUFFICES ASSUME NEW t \in Targets PROVE files'[t] = IF t \in lost THEN Absent ELSE files[t]
    OBVIOUS
  <2>1. files[t] # Absent => files[t].synced
    BY <1>1, FileKinds
  <2> QED BY <1>2, <2>1
<1>4. \A t \in entries : t \in Targets /\ files'[t] = files[t]
  BY <1>1, <1>2, <1>3 DEF Typed, Captured
<1>5. Typed'
  <2>1. files' \in [Targets -> {Absent} \cup {Synced(capture) : capture \in Orderly}]
    BY <1>1, <1>2, <1>3 DEF Typed
  <2>2. entries' \subseteq Captured'
    BY <1>1, <1>4 DEF Typed, Captured
  <2>3. cmd' \in [Commands -> [pc : Places, request : Requests \cup {Absent},
                               target : Names \cup {Absent}, asked : Nat,
                               response : ReceivedBodies \cup {Absent}, capture : Captures \cup {Absent}]]
    BY <1>1, EndedHolds DEF Typed
  <2> QED BY <1>1, <2>1, <2>2, <2>3 DEF Typed
<1>6. \A c \in Commands : Held(c)'
  <2> SUFFICES ASSUME NEW c \in Commands PROVE Held(c)'
    OBVIOUS
  <2>1. cmd'[c].pc \in Stopped
    BY <1>1, EndedHolds DEF Running, Stopped, Typed, Places, Asked
  <2> QED BY <2>1 DEF Held, Stopped, Asked, Stamped, Linked
<1>7. Kept'
  BY <1>1, <1>4 DEF Kept
<1> QED BY <1>5, <1>6, <1>7 DEF IInv

-----------------------------------------------------------------------------
(* The specification.                                                       *)

LEMMA NextKeeps == IInv /\ [CaptureNext]_captureVars => IInv'
<1> SUFFICES ASSUME IInv, [CaptureNext]_captureVars PROVE IInv'
  OBVIOUS
<1>1. CASE Tick \/ ChangeMode \/ UNCHANGED captureVars
  BY <1>1, TickKeeps
<1>2. CASE PowerLoss
  BY <1>2, PowerLossKeeps
<1>3. ASSUME NEW c \in Commands, Step(c) PROVE IInv'
  BY <1>3, BeginCaptureKeeps, AskKeeps, AnswerKeeps, ReadBodyKeeps, StampKeeps, WritePartialKeeps,
     SyncPartialKeeps, LinkKeeps, SyncDirectoryKeeps, ReportKeeps DEF Step
<1>4. ASSUME NEW c \in Commands, Die(c) PROVE IInv'
  BY <1>4, DieKeeps
<1> QED BY <1>1, <1>2, <1>3, <1>4 DEF CaptureNext

THEOREM Invariance == CaptureSpec => []IInv
BY InitHolds, NextKeeps, PTL DEF CaptureSpec

\* A capture whose digest was printed (capture_sportsdataio_nba.py main) stays the artifact
\* under its name, with any number of commands, deaths and losses of power.
THEOREM ReportedIsKeptAlways == CaptureSpec => []ReportedIsKept
<1>1. IInv => ReportedIsKept
  BY DEF IInv, Kept, ReportedIsKept, Synced
<1> QED BY <1>1, Invariance, PTL

\* What is under a target is a whole artifact of a registered request, and whole itself where
\* its answer declared its end (nba_raw_capture.py write_nba_raw_capture).
THEOREM TargetsAreWholeAlways == CaptureSpec => []TargetsAreWhole
<1>1. IInv => TargetsAreWhole
  <2> SUFFICES ASSUME IInv, NEW t \in Captured
               PROVE  /\ Loads(files[t])
                      /\ files[t].capture.request \in Registered
                      /\ files[t].capture.body.answer.framing = "declared"
                           => files[t].capture.body.answer.whole
    BY DEF TargetsAreWhole
  <2>1. PICK capture \in Orderly : files[t] = Synced(capture)
    BY FileKinds DEF Captured, IInv
  <2>2. files[t] # Absent /\ files[t] # Torn
    BY FileKinds DEF Captured, IInv
  <2> QED BY <2>1, <2>2 DEF Loads, Synced, Orderly
<1> QED BY <1>1, Invariance, PTL

\* An artifact's retrieved_at is no earlier than its bytes, nor than the request
\* (sportsdataio_nba_client.py SportsDataIONbaClient.capture).
THEOREM BytesPrecedeRetrievedAtAlways == CaptureSpec => []BytesPrecedeRetrievedAt
<1>1. IInv => BytesPrecedeRetrievedAt
  <2> SUFFICES ASSUME IInv, NEW t \in Captured
               PROVE  /\ files[t].capture.asked <= files[t].capture.body.made
                      /\ files[t].capture.body.made <= files[t].capture.retrievedAt
    BY DEF BytesPrecedeRetrievedAt
  <2>1. PICK capture \in Orderly : files[t] = Synced(capture)
    BY FileKinds DEF Captured, IInv
  <2> QED BY <2>1 DEF Synced, Orderly
<1> QED BY <1>1, Invariance, PTL
=============================================================================
