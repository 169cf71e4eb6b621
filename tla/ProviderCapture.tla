--------------------------- MODULE ProviderCapture ---------------------------
(***************************************************************************)
(* Capturing one provider response into private local storage: a single    *)
(* request, a validated answer, a time taken after it, and a create-only   *)
(* artifact that is linked into place whole.  Commands overlap and die,    *)
(* and the machine may lose power.                                         *)
(*                                                                         *)
(*   src/examples/capture_sportsdataio_nba.py                              *)
(*   src/forecastfm/sportsdataio_nba_client.py, sportsdataio_nba_openapi.py *)
(*   src/forecastfm/nba_raw_capture.py                                     *)
(*                                                                         *)
(* A body is known by the moment the provider made it and by whether all   *)
(* of it arrived; the command's clock is right.                            *)
(***************************************************************************)
EXTENDS Naturals

CONSTANTS
  Commands,             \* invocations of the command, each made once
  Requests, Registered, \* what may be asked for, and the registered operations with their paths
  Names, Targets,       \* outputs asked for, and those that are a .json directly under the root
  Absent, Torn,         \* no file, a file whose content was lost with the power
  MaxTime,              \* bound: the clock
  MaxFaults             \* bound: deaths, power losses, failed syncs, changes of the root's mode

\* The end of a body is declared, by a length or a last chunk, or is that of the connection.
Responses ==
  [framing : {"declared", "close"}, whole : BOOLEAN,
   flaw : {"none", "status", "headers", "encoding", "size", "reflectsKey"}]

ReceivedBodies == [made : Nat, answer : Responses]
Captures == [request : Requests, body : ReceivedBodies, asked : Nat, retrievedAt : Nat]
Artifacts == [capture : Captures, synced : BOOLEAN]

ASSUME CaptureAssumption ==
  /\ Registered \subseteq Requests /\ Targets \subseteq Names
  /\ MaxTime \in Nat /\ MaxFaults \in Nat
ASSUME MarkersAssumption == Absent # Torn /\ {Absent, Torn} \cap Artifacts = {}

VARIABLES
  now,
  private,              \* whether the storage root is owned, private and no symbolic link
  cmd,                  \* the commands: where each stands and what it holds
  partial,              \* the temporary file of each: none, buffered, synced
  files,                \* the targets
  entries,              \* the targets whose directory entry has reached the disk
  reported,             \* what commands that succeeded printed
  faults

storage == <<partial, files, entries>>
captureVars == <<now, private, cmd, storage, reported, faults>>

Waiting == [pc |-> "start", request |-> Absent, target |-> Absent, asked |-> 0,
            response |-> Absent, capture |-> Absent]

CaptureInit ==
  /\ now = 0 /\ private = TRUE
  /\ cmd = [c \in Commands |-> Waiting]
  /\ partial = [c \in Commands |-> "none"]
  /\ files = [t \in Targets |-> Absent] /\ entries = {}
  /\ reported = {} /\ faults = 0

Goes(c, place) == cmd' = [cmd EXCEPT ![c].pc = place]
At(c, place) == cmd[c].pc = place

\* What a process that ended held is gone.
Ended(how) == [Waiting EXCEPT !.pc = how]

\* Every exception ends the command with status 1, and its temporary file with it.
Fails(c) == cmd' = [cmd EXCEPT ![c] = Ended("failed")] /\ partial' = [partial EXCEPT ![c] = "none"]

StorageTarget(target) == private /\ target \in Targets
IsRegistered(request) == request \in Registered

\* Whether the local key file is private and holds one key.
KeyReads == BOOLEAN

-----------------------------------------------------------------------------
(* The request.                                                             *)

\* The target is unused, then the request registered, then the key readable.
BeginCapture(c) ==
  /\ At(c, "start")
  /\ \E request \in Requests, target \in Names, keyReads \in KeyReads :
       IF StorageTarget(target) /\ files[target] = Absent /\ IsRegistered(request) /\ keyReads
       THEN cmd' = [cmd EXCEPT ![c].pc = "asking", ![c].request = request, ![c].target = target]
       ELSE cmd' = [cmd EXCEPT ![c] = Ended("failed")]
  /\ UNCHANGED <<now, private, storage, reported, faults>>

\* The one GET: no redirect is followed and nothing is asked again.
Ask(c) ==
  /\ At(c, "asking")
  /\ cmd' = [cmd EXCEPT ![c].pc = "waiting", ![c].asked = now]
  /\ UNCHANGED <<now, private, storage, reported, faults>>

Answer(c) ==
  /\ At(c, "waiting")
  /\ \E response \in Responses :
       cmd' = [cmd EXCEPT ![c].pc = "reading",
                          ![c].response = [made |-> now, answer |-> response]]
  /\ UNCHANGED <<now, private, storage, reported, faults>>

\* Header names and values are bounded and printable.
HeadersAccepted(response) == response.flaw # "headers"

\* No content encoding; a body that is cut is noticed where its end was declared.
FramingAccepted(response) ==
  /\ response.flaw # "encoding"
  /\ response.framing = "declared" => response.whole

\* Status 200, a body neither empty nor too large, and no trace of the key.
Accepted(response) ==
  /\ HeadersAccepted(response) /\ FramingAccepted(response)
  /\ response.flaw \notin {"status", "size", "reflectsKey"}

ReadBody(c) ==
  /\ At(c, "reading")
  /\ IF Accepted(cmd[c].response.answer)
     THEN Goes(c, "read") /\ UNCHANGED partial
     ELSE Fails(c)
  /\ UNCHANGED <<now, private, files, entries, reported, faults>>

CaptureAt(c, time) ==
  [request |-> cmd[c].request, body |-> cmd[c].response, asked |-> cmd[c].asked,
   retrievedAt |-> time]

\* Mutation: the time is that of the request.
StampAsked(c) ==
  /\ At(c, "read")
  /\ cmd' = [cmd EXCEPT ![c].pc = "captured", ![c].capture = CaptureAt(c, cmd[c].asked)]
  /\ UNCHANGED <<now, private, storage, reported, faults>>

\* The clock is read once the whole body is validated.
Stamp(c) ==
  /\ At(c, "read")
  /\ cmd' = [cmd EXCEPT ![c].pc = "captured", ![c].capture = CaptureAt(c, now)]
  /\ UNCHANGED <<now, private, storage, reported, faults>>

-----------------------------------------------------------------------------
(* The artifact.                                                            *)

\* The target is looked at again, except for being unused; the temporary file is the command's own.
WritePartial(c) ==
  /\ At(c, "captured")
  /\ IF StorageTarget(cmd[c].target)
     THEN Goes(c, "writing") /\ partial' = [partial EXCEPT ![c] = "buffered"]
     ELSE Fails(c)
  /\ UNCHANGED <<now, private, files, entries, reported, faults>>

\* Mutation: the file is not synced before it is linked.
SyncNothing(c) ==
  /\ At(c, "writing")
  /\ Goes(c, "linking")
  /\ UNCHANGED <<now, private, storage, reported, faults>>

SyncPartial(c) ==
  /\ At(c, "writing")
  /\ Goes(c, "linking")
  /\ partial' = [partial EXCEPT ![c] = "synced"]
  /\ UNCHANGED <<now, private, files, entries, reported, faults>>

Artifact(c) == [capture |-> cmd[c].capture, synced |-> partial[c] = "synced"]

\* Mutation: os.replace.
LinkOver(c) ==
  /\ At(c, "linking")
  /\ files' = [files EXCEPT ![cmd[c].target] = Artifact(c)]
  /\ entries' = entries \ {cmd[c].target}
  /\ Goes(c, "linked")
  /\ UNCHANGED <<now, private, partial, reported, faults>>

\* os.link: refused if the name was taken meanwhile.
Link(c) ==
  /\ At(c, "linking")
  /\ IF files[cmd[c].target] = Absent
     THEN /\ files' = [files EXCEPT ![cmd[c].target] = Artifact(c)]
          /\ Goes(c, "linked")
          /\ UNCHANGED partial
     ELSE Fails(c) /\ UNCHANGED files
  /\ UNCHANGED <<now, private, entries, reported, faults>>

\* The directory is synced: all its entries are. If that fails the artifact may be there or not.
SyncDirectory(c) ==
  /\ At(c, "linked")
  /\ \/ /\ entries' = {t \in Targets : files[t] # Absent}
        /\ Goes(c, "published")
        /\ UNCHANGED <<partial, faults>>
     \/ /\ faults < MaxFaults /\ faults' = faults + 1
        /\ Fails(c) /\ UNCHANGED entries
  /\ UNCHANGED <<now, private, files, reported>>

\* The temporary name is removed, and target and digest are printed.
Report(c) ==
  /\ At(c, "published")
  /\ cmd' = [cmd EXCEPT ![c] = Ended("done")]
  /\ partial' = [partial EXCEPT ![c] = "none"]
  /\ reported' = reported \cup {[target |-> cmd[c].target, capture |-> cmd[c].capture]}
  /\ UNCHANGED <<now, private, files, entries, faults>>

-----------------------------------------------------------------------------
(* Time, deaths, power and the operator.                                    *)

Tick == now < MaxTime /\ now' = now + 1 /\ UNCHANGED <<private, cmd, storage, reported, faults>>

Running(c) == cmd[c].pc \notin {"start", "failed", "done", "dead"}

\* A temporary file stays behind.
Die(c) ==
  /\ Running(c) /\ faults < MaxFaults
  /\ cmd' = [cmd EXCEPT ![c] = Ended("dead")]
  /\ faults' = faults + 1
  /\ UNCHANGED <<now, private, storage, reported>>

\* Entries that were not synced may be gone, and content that was not synced is.
PowerLoss ==
  /\ faults < MaxFaults /\ \E c \in Commands : cmd[c].pc # "start"
  /\ cmd' = [c \in Commands |-> IF Running(c) THEN Ended("dead") ELSE cmd[c]]
  /\ \E lost \in SUBSET (Targets \ entries) :
       files' = [t \in Targets |->
                   IF t \in lost \/ files[t] = Absent THEN Absent
                   ELSE IF files[t] # Torn /\ ~files[t].synced THEN Torn ELSE files[t]]
  /\ partial' = [c \in Commands |-> "none"]
  /\ faults' = faults + 1
  /\ UNCHANGED <<now, private, entries, reported>>

ChangeMode ==
  /\ faults < MaxFaults /\ private' = ~private /\ faults' = faults + 1
  /\ UNCHANGED <<now, cmd, storage, reported>>

Step(c) ==
  \/ BeginCapture(c) \/ Ask(c) \/ Answer(c) \/ ReadBody(c) \/ Stamp(c)
  \/ WritePartial(c) \/ SyncPartial(c) \/ Link(c) \/ SyncDirectory(c) \/ Report(c)

CaptureNext == Tick \/ PowerLoss \/ ChangeMode \/ \E c \in Commands : Step(c) \/ Die(c)

CaptureSpec == CaptureInit /\ [][CaptureNext]_captureVars

-----------------------------------------------------------------------------
(* Properties.                                                              *)

Captured == {t \in Targets : files[t] # Absent}

\* An artifact is read back if its bytes are the canonical ones of what they say.
Loads(file) == file \notin {Absent, Torn}

\* A capture whose digest was printed is the artifact under its name for good, through
\* commands that wanted the same name, deaths and losses of power.
ReportedIsKept ==
  \A r \in reported : files[r.target] = [capture |-> r.capture, synced |-> TRUE]

\* Under a target there is nothing or one whole artifact of a registered request, whenever
\* the writer or the machine stops; and its body is the whole entity wherever the answer
\* said where that ends.
TargetsAreWhole ==
  \A t \in Captured :
    /\ Loads(files[t])
    /\ files[t].capture.request \in Registered
    /\ files[t].capture.body.answer.framing = "declared" => files[t].capture.body.answer.whole

\* An artifact's retrieved_at is no earlier than its bytes: unlike the collector's captures,
\* one that precedes a cutoff by its own time holds nothing younger than the cutoff.
BytesPrecedeRetrievedAt ==
  \A t \in Captured : Loads(files[t]) =>
    LET capture == files[t].capture
    IN capture.asked <= capture.body.made /\ capture.body.made <= capture.retrievedAt
=============================================================================
