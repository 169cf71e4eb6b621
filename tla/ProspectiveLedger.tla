------------------------- MODULE ProspectiveLedger -------------------------
(***************************************************************************)
(* The prospective forecast ledger (forecastfm/ledger.py): an append-only  *)
(* JSONL file whose events are chained by hash.  A writer audits the file, *)
(* validates a complete batch against the audited state, builds the event, *)
(* reads the file again and replaces it by itself plus the event.  Nothing *)
(* locks the file between these steps.                                     *)
(*                                                                         *)
(* SHA-256 over the canonical body is the body itself, so the hash of an   *)
(* event is the sequence of the bodies that it commits to.  Of the text of *)
(* a submission only one thing matters: whether it holds a character that  *)
(* canonical_json leaves as it is and str.splitlines takes for the end of  *)
(* a line (U+0085, U+2028, U+2029).                                        *)
(***************************************************************************)
EXTENDS Naturals, Sequences

CONSTANTS
  Cohorts,              \* records [id, retrieved, games], games a sequence of
                        \* records [question, deadline, tipoff]
  ForecastBatches,      \* sequences of [question, input, generated, breaks]
  ResolutionBatches,    \* sequences of [question, resolved, breaks]
  Times,                \* the instants a caller may pass as recorded_at
  Writers,              \* processes that append
  None,                 \* nothing prepared, no expected head
  MaxEvents,            \* bound: events on the ledger
  MaxCrashes            \* bound: writers that die

ASSUME CohortsAssumption ==
  \A cohort \in Cohorts :
    /\ cohort.retrieved \in Nat
    /\ cohort.games \in Seq([question : STRING, deadline : Nat, tipoff : Nat])
ASSUME BatchesAssumption ==
  /\ ForecastBatches \subseteq
       Seq([question : STRING, input : Nat, generated : Nat, breaks : BOOLEAN])
  /\ ResolutionBatches \subseteq Seq([question : STRING, resolved : Nat, breaks : BOOLEAN])
ASSUME TimesAssumption == Times \subseteq Nat
ASSUME BoundsAssumption == MaxEvents \in Nat /\ MaxCrashes \in Nat

VARIABLES
  ledger,               \* ledger.jsonl, one event a line
  pc,                   \* where each writer stands
  record,               \* the event each writer has built
  existing,             \* the lines each writer has read back
  published,            \* the head the operator last published
  crashes               \* history: writers that died

vars == <<ledger, pc, record, existing, published, crashes>>

Bodies == [sequence : Nat \ {0}, type : {"forecast_batch", "resolution_batch"}, cohort : Cohorts,
           submissions : ForecastBatches \cup ResolutionBatches, recordedAt : Times]
Hashes == Seq(Bodies)
Events == [sequence : Nat \ {0}, type : {"forecast_batch", "resolution_batch"}, cohort : Cohorts,
           submissions : ForecastBatches \cup ResolutionBatches, recordedAt : Times,
           previous : Hashes, hash : Hashes]

GENESIS_HASH == <<>>

Body(event) == [sequence |-> event.sequence, type |-> event.type, cohort |-> event.cohort,
                submissions |-> event.submissions, recordedAt |-> event.recordedAt]
EventHash(event) == Append(event.previous, Body(event))

LedgerHead(lines) == IF lines = <<>> THEN GENESIS_HASH ELSE lines[Len(lines)].hash

-----------------------------------------------------------------------------
(* What makes a batch, and a ledger, acceptable.                           *)

ExactOrder(cohort, submissions) ==
  /\ Len(submissions) = Len(cohort.games)
  /\ \A k \in 1..Len(cohort.games) : submissions[k].question = cohort.games[k].question

\* _validate_forecast_batch: every game, in order, and every clock in order.
ForecastBatchValid(cohort, submissions, recordedAt) ==
  /\ ExactOrder(cohort, submissions)
  /\ \A k \in 1..Len(cohort.games) :
       /\ cohort.retrieved <= submissions[k].input
       /\ submissions[k].input <= submissions[k].generated
       /\ submissions[k].generated <= recordedAt
       /\ recordedAt < cohort.games[k].deadline
       /\ cohort.games[k].deadline < cohort.games[k].tipoff

\* _validate_resolution_batch.
ResolutionBatchValid(cohort, submissions, recordedAt) ==
  /\ ExactOrder(cohort, submissions)
  /\ \A k \in 1..Len(cohort.games) :
       cohort.games[k].tipoff <= submissions[k].resolved /\ submissions[k].resolved <= recordedAt

Forecasts(lines, n) == {k \in 1..n : lines[k].type = "forecast_batch"}
Resolutions(lines, n) == {k \in 1..n : lines[k].type = "resolution_batch"}

\* The batch may be the next event, given the first n lines.
ForecastAllowed(lines, n, event) ==
  /\ \A k \in Forecasts(lines, n) : lines[k].cohort.id # event.cohort.id
  /\ ForecastBatchValid(event.cohort, event.submissions, event.recordedAt)

\* Mutation: the resolved cohort need only have the forecasted cohort's id.
ResolutionAllowedById(lines, n, event) ==
  /\ \E k \in Forecasts(lines, n) : lines[k].cohort.id = event.cohort.id
  /\ \A k \in Resolutions(lines, n) : lines[k].cohort.id # event.cohort.id
  /\ ResolutionBatchValid(event.cohort, event.submissions, event.recordedAt)

ResolutionAllowed(lines, n, event) ==
  /\ \E k \in Forecasts(lines, n) : lines[k].cohort = event.cohort
  /\ \A k \in Resolutions(lines, n) : lines[k].cohort.id # event.cohort.id
  /\ ResolutionBatchValid(event.cohort, event.submissions, event.recordedAt)

EventAllowed(lines, n, event) ==
  \/ event.type = "forecast_batch" /\ ForecastAllowed(lines, n, event)
  \/ event.type = "resolution_batch" /\ ResolutionAllowed(lines, n, event)

\* _require_event_time.
EventTimeAllowed(lines, n, recordedAt) == n > 0 => lines[n].recordedAt <= recordedAt

\* text.splitlines() finds exactly the lines that were written.
OneLine(event) == \A k \in DOMAIN event.submissions : ~event.submissions[k].breaks

\* _audit_envelope and _audit_event.
LineAudited(lines, i) ==
  /\ OneLine(lines[i])
  /\ lines[i].sequence = i
  /\ lines[i].previous = IF i = 1 THEN GENESIS_HASH ELSE lines[i - 1].hash
  /\ lines[i].hash = EventHash(lines[i])
  /\ EventTimeAllowed(lines, i - 1, lines[i].recordedAt)
  /\ EventAllowed(lines, i - 1, lines[i])

Auditable(lines) == \A i \in DOMAIN lines : LineAudited(lines, i)

-----------------------------------------------------------------------------
Init ==
  /\ ledger = <<>>
  /\ pc = [w \in Writers |-> "idle"]
  /\ record = [w \in Writers |-> None]
  /\ existing = [w \in Writers |-> <<>>]
  /\ published = GENESIS_HASH
  /\ crashes = 0

EventOf(previous, body) ==
  [sequence |-> body.sequence, type |-> body.type, cohort |-> body.cohort,
   submissions |-> body.submissions, recordedAt |-> body.recordedAt,
   previous |-> previous, hash |-> Append(previous, body)]

\* _make_event.
MakeEvent(type, cohort, submissions, recordedAt) ==
  EventOf(LedgerHead(ledger),
          [sequence |-> Len(ledger) + 1, type |-> type, cohort |-> cohort,
           submissions |-> submissions, recordedAt |-> recordedAt])

\* Mutation: recorded_at is not compared with the last event's.
PrepareUntimed(w, type, cohort, submissions, recordedAt, expected) ==
  /\ pc[w] = "idle"
  /\ Len(ledger) < MaxEvents
  /\ Auditable(ledger)
  /\ LET event == MakeEvent(type, cohort, submissions, recordedAt) IN
       /\ EventAllowed(ledger, Len(ledger), event)
       /\ record' = [record EXCEPT ![w] = event]
  /\ pc' = [pc EXCEPT ![w] = "prepared"]
  /\ UNCHANGED <<ledger, existing, published, crashes>>

\* append_forecast_batch, append_resolution_batch, up to the finished event.  A caller
\* may pass the published head as the head it expects; anything unacceptable raises.
Prepare(w, type, cohort, submissions, recordedAt, expected) ==
  /\ pc[w] = "idle"
  /\ Len(ledger) < MaxEvents
  /\ Auditable(ledger)
  /\ expected \in {None, LedgerHead(ledger)}
  /\ EventTimeAllowed(ledger, Len(ledger), recordedAt)
  /\ LET event == MakeEvent(type, cohort, submissions, recordedAt) IN
       /\ EventAllowed(ledger, Len(ledger), event)
       /\ record' = [record EXCEPT ![w] = event]
  /\ pc' = [pc EXCEPT ![w] = "prepared"]
  /\ UNCHANGED <<ledger, existing, published, crashes>>

PrepareForecast(w) ==
  \E cohort \in Cohorts, submissions \in ForecastBatches, t \in Times, expected \in {None, published} :
    Prepare(w, "forecast_batch", cohort, submissions, t, expected)

PrepareResolution(w) ==
  \E cohort \in Cohorts, submissions \in ResolutionBatches, t \in Times, expected \in {None, published} :
    Prepare(w, "resolution_batch", cohort, submissions, t, expected)

\* Mutation: the temporary file begins empty.
ReadNothingBack(w) ==
  /\ pc[w] = "prepared"
  /\ pc' = [pc EXCEPT ![w] = "writing"]
  /\ UNCHANGED <<ledger, record, existing, published, crashes>>

\* _atomic_append reads the file once more ...
ReadBack(w) ==
  /\ pc[w] = "prepared"
  /\ existing' = [existing EXCEPT ![w] = ledger]
  /\ pc' = [pc EXCEPT ![w] = "writing"]
  /\ UNCHANGED <<ledger, record, published, crashes>>

\* ... and replaces it by the finished temporary file.
Replace(w) ==
  /\ pc[w] = "writing"
  /\ ledger' = Append(existing[w], record[w])
  /\ pc' = [pc EXCEPT ![w] = "idle"]
  /\ record' = [record EXCEPT ![w] = None]
  /\ existing' = [existing EXCEPT ![w] = <<>>]
  /\ UNCHANGED <<published, crashes>>

\* A writer that dies leaves at most a temporary file that nobody reads.
Crash(w) ==
  /\ pc[w] # "idle"
  /\ crashes < MaxCrashes
  /\ crashes' = crashes + 1
  /\ pc' = [pc EXCEPT ![w] = "idle"]
  /\ record' = [record EXCEPT ![w] = None]
  /\ existing' = [existing EXCEPT ![w] = <<>>]
  /\ UNCHANGED <<ledger, published>>

\* The operator verifies the ledger and publishes its head.
Publish ==
  /\ Auditable(ledger)
  /\ published' = LedgerHead(ledger)
  /\ UNCHANGED <<ledger, pc, record, existing, crashes>>

Next ==
  \/ \E w \in Writers : \/ PrepareForecast(w) \/ PrepareResolution(w)
                        \/ ReadBack(w) \/ Replace(w) \/ Crash(w)
  \/ Publish

Spec == Init /\ [][Next]_vars

-----------------------------------------------------------------------------
\* The variables hold what their comments say.
TypeOK ==
  /\ ledger \in Seq(Events)
  /\ pc \in [Writers -> {"idle", "prepared", "writing"}]
  /\ record \in [Writers -> Events \cup {None}]
  /\ \A w \in Writers : pc[w] # "idle" => record[w] \in Events
  /\ existing \in [Writers -> Seq(Events)]
  /\ published \in Hashes
  /\ crashes \in 0..MaxCrashes

\* What the append functions accept, the auditor accepts: the ledger can always be
\* verified, and so can always be appended to.
AlwaysAuditable == Auditable(ledger)

\* A published head is the hash of a prefix of the ledger from then on.
PublishedIsPrefix ==
  published # GENESIS_HASH =>
    \E i \in DOMAIN ledger :
      /\ ledger[i].hash = published
      /\ published = [k \in 1..i |-> Body(ledger[k])]

\* README: a forecast is prospective.  Behind every resolved game stands a forecast of
\* the very same cohort and question, generated before the game's deadline and recorded
\* before the game was resolved.
ResolutionsFollowForecasts ==
  \A i \in DOMAIN ledger : ledger[i].type = "resolution_batch" =>
    \E k \in 1..(i - 1) :
      /\ ledger[k].type = "forecast_batch"
      /\ ledger[k].cohort = ledger[i].cohort
      /\ \A g \in 1..Len(ledger[i].cohort.games) :
           /\ ledger[k].submissions[g].question = ledger[i].submissions[g].question
           /\ ledger[k].submissions[g].generated < ledger[i].cohort.games[g].deadline
           /\ ledger[k].recordedAt < ledger[i].submissions[g].resolved

\* No line is ever changed or removed.
AppendOnly ==
  [][\A i \in DOMAIN ledger : i \in DOMAIN ledger' /\ ledger'[i] = ledger[i]]_vars
=============================================================================
