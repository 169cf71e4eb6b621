----------------------- MODULE OutcomeV2TrainingProofs -----------------------
(***************************************************************************)
(* Proofs about the paid outcome-v2 run, for every number of invocations.  *)
(*                                                                         *)
(* That it happens once, whatever the dataset says, however often files    *)
(* and code are edited, published and resealed, and whoever dies.  The     *)
(* preflight decides whether an invocation may go on; it does not keep two *)
(* of them apart.  What does is the run lock: from its creation on there   *)
(* is one owner, and no file is ever absent again that the others would    *)
(* have to find absent.                                                    *)
(*                                                                         *)
(* That what it trains on was admitted, by the checks an invocation made   *)
(* of the very contents its lock seals.  Each check reads its file anew,   *)
(* so this needs that no edit puts back bytes that were there before: the  *)
(* two passes of hashes around the checks cannot see such an edit.         *)
(***************************************************************************)
EXTENDS OutcomeV2Training, FiniteSetTheorems, WellFoundedInduction, TLAPS

-----------------------------------------------------------------------------
(* The inductive invariant.                                                *)

Fields == DOMAIN Idle

\* How far an invocation must have come to know each thing.
Paying == {"training", "trained", "sealing", "sealed", "done"}
Locks == {"locking", "locked", "verified", "loaded", "ready"} \cup Paying
Timed == {"rows", "proven", "reviewed", "prepared"} \cup Locks
Hashed == {"hashed"} \cup Timed
Manifested == {"manifest"} \cup Hashed
Published == {"published"} \cup Manifested
Over == {"refused", "unreviewed", "dead"}

Stamps == [Artifacts -> Builds]

InvocationOK(i) ==
  /\ DOMAIN inv[i] = Fields
  /\ inv[i].pc \in {"start", "unused"} \cup Published \cup Over
  /\ inv[i].pc \in Published => inv[i].revision \in Revisions
  /\ inv[i].pc \in Manifested => inv[i].manifest \in [outputs : [Sealed -> Builds], claims : Builds]
  /\ inv[i].pc \in Hashed => inv[i].seen \in Stamps
  /\ inv[i].pc \in Timed => inv[i].at \in ActionTimes
  /\ inv[i].pc \in Locks => inv[i].lock \in RunLocks

TrainingTypeOK ==
  /\ files \in Stamps
  /\ manifest \in [outputs : [Sealed -> Builds], claims : Builds]
  /\ code \in Revisions /\ head \in Revisions
  /\ inv = [i \in Invocations |-> inv[i]]
  /\ \A i \in Invocations : InvocationOK(i)
  /\ clients = [i \in Invocations |-> clients[i]]

\* The invocation that created the lock, for as long as it works or if it has paid.
Owner(i) == inv[i].pc \in Locks \/ i \in Paid

\* The lock is created once, and is that of its owner from then on.
LockInv ==
  /\ \A i \in Invocations : Owner(i) => runLock # Absent
  /\ \A i, j \in Invocations : Owner(i) /\ Owner(j) => i = j
  /\ \A i \in Invocations : inv[i].pc \in Locks \ {"locking"} => runLock = inv[i].lock

\* The listed code only gets newer, so what was listed before and after the import was imported.
CodeInv(i) ==
  /\ inv[i].pc \in {"locking", "locked", "verified"} => inv[i].lock.code <= LockedCode(code)
  /\ inv[i].pc = "loaded" =>
       /\ inv[i].runtime \in Revisions
       /\ inv[i].lock.code <= LockedCode(inv[i].runtime)
       /\ LockedCode(inv[i].runtime) <= LockedCode(code)
  /\ inv[i].pc = "ready" => LockedCode(inv[i].runtime) = inv[i].lock.code

\* What a client was given, and how far its run has come.
ClientInv(i) ==
  /\ inv[i].pc \notin Paying \cup Over => clients[i] = NoClient
  /\ inv[i].pc \in Over /\ i \notin Paid => clients[i] = NoClient
  /\ inv[i].pc \in Paying => i \in Paid
  /\ i \in Paid => /\ DOMAIN clients[i] = DOMAIN NoClient
                   /\ clients[i].lock = runLock
                   /\ LockedCode(clients[i].runtime) = runLock.code
  /\ inv[i].pc = "training" => \/ clients[i].saved = {}
                               \/ clients[i].saved = {"state"} /\ clients[i].batches = Batches
  /\ inv[i].pc \in Paying \ {"training"} =>
       clients[i].saved = {"state", "sampler"} /\ clients[i].batches = Batches

\* An experiment is the seal of the owner's finished run.
SealedBy(i) ==
  /\ i \in Paid /\ inv[i].pc \in {"sealed", "done"} \cup Over
  /\ experiment.lock = clients[i].lock
  /\ experiment.sampler = Result(i).sampler
  /\ clients[i].batches = Batches /\ clients[i].saved = {"state", "sampler"}
ExperimentInv == experiment \notin {Absent, Torn} => \E i \in Invocations : SealedBy(i)

IInv ==
  /\ TrainingTypeOK /\ LockInv /\ ExperimentInv
  /\ \A i \in Invocations : CodeInv(i) /\ ClientInv(i)

LEMMA DigestTypes == Digest \in [Artifacts -> [Builds -> Builds]]
<1>1. ASSUME NEW a \in Artifacts, NEW b \in Builds
      PROVE  (CHOOSE c \in Builds : Written[a][c] = Written[a][b]) \in Builds
  OBVIOUS
<1> QED BY <1>1 DEF Digest

LEMMA IdleFields ==
  Fields = {"pc", "revision", "manifest", "seen", "at", "rows", "lock", "runtime"}
BY DEF Fields, Idle

LEMMA InitIInv == Init => IInv
<1> SUFFICES ASSUME Init PROVE IInv
  OBVIOUS
<1>1. /\ files \in Stamps
      /\ manifest \in [outputs : [Sealed -> Builds], claims : Builds]
  <2>1. PICK b \in Builds : /\ files = [a \in Artifacts |-> Digest[a][b]]
                            /\ manifest = [outputs |-> [a \in Sealed |-> Digest[a][b]], claims |-> b]
    BY DEF Init
  <2>2. Sealed \subseteq Artifacts
    BY DEF Artifacts
  <2> QED BY <2>1, <2>2, DigestTypes DEF Stamps
<1>2. code \in Revisions /\ head \in Revisions
  BY DEF Init, Revisions
<1>3. \A i \in Invocations : inv[i] = Idle /\ Idle.pc = "start" /\ clients[i] = NoClient
  BY DEF Init, Idle
<1>4. \A i \in Invocations : InvocationOK(i)
  BY <1>3 DEF InvocationOK, Fields, Published, Manifested, Hashed, Timed, Locks, Paying
<1>5. TrainingTypeOK
  BY <1>1, <1>2, <1>4 DEF TrainingTypeOK, Init
<1>6. \A i \in Invocations : i \notin Paid
  BY <1>3 DEF Paid, NoClient
<1>7. LockInv /\ ExperimentInv
  BY <1>3, <1>6 DEF LockInv, Owner, ExperimentInv, Init, Locks, Paying
<1>8. \A i \in Invocations : CodeInv(i) /\ ClientInv(i)
  BY <1>3, <1>6 DEF CodeInv, ClientInv, Paying, Over
<1> QED BY <1>5, <1>7, <1>8 DEF IInv

-----------------------------------------------------------------------------
(* Steps that the actions are made of.                                     *)

LEMMA AdvanceMoves ==
  ASSUME IInv, NEW i \in Invocations, NEW changes, Advance(i, changes)
  PROVE  /\ inv' = [j \in Invocations |-> inv'[j]]
         /\ \A j \in Invocations : j # i => inv'[j] = inv[j]
         /\ DOMAIN inv'[i] = Fields
         /\ \A f \in Fields : inv'[i][f] = IF f \in DOMAIN changes THEN changes[f] ELSE inv[i][f]
<1>1. inv = [j \in Invocations |-> inv[j]] /\ DOMAIN inv[i] = Fields
  BY DEF IInv, TrainingTypeOK, InvocationOK
<1>2. inv' = [inv EXCEPT ![i] = Updated(inv[i], changes)]
  BY DEF Advance
<1>3. inv' = [j \in Invocations |-> IF j = i THEN Updated(inv[i], changes) ELSE inv[j]]
  BY <1>1, <1>2
<1>4. Updated(inv[i], changes) =
        [f \in Fields |-> IF f \in DOMAIN changes THEN changes[f] ELSE inv[i][f]]
  BY <1>1 DEF Updated
<1> QED BY <1>3, <1>4

LEMMA RefuseMoves ==
  ASSUME IInv, NEW i \in Invocations, NEW end \in Over, Advance(i, [pc |-> end])
  PROVE  /\ inv' = [j \in Invocations |-> inv'[j]]
         /\ \A j \in Invocations : j # i => inv'[j] = inv[j]
         /\ DOMAIN inv'[i] = Fields /\ inv'[i].pc = end
<1>1. "pc" \in Fields /\ DOMAIN [pc |-> end] = {"pc"} /\ [pc |-> end]["pc"] = end
  BY IdleFields
<1>2. inv'[i]["pc"] = end
  BY <1>1, AdvanceMoves
<1> QED BY <1>2, AdvanceMoves

\* An invocation that refuses or dies leaves whatever it was given and did.
LEMMA EndStep ==
  ASSUME IInv, NEW i \in Invocations, NEW end \in Over, Advance(i, [pc |-> end]),
         inv[i].pc \notin Over, UNCHANGED <<World, Outputs>>
  PROVE  IInv'
<1>1. /\ inv' = [j \in Invocations |-> inv'[j]]
      /\ \A j \in Invocations : j # i => inv'[j] = inv[j]
      /\ DOMAIN inv'[i] = Fields /\ inv'[i].pc = end
  BY RefuseMoves
<1>2. UNCHANGED <<files, manifest, code, head, runLock, experiment, clients>> /\ Paid' = Paid
  BY DEF World, Outputs, Paid
<1>3. end \notin Published \cup {"start", "unused"}
  BY DEF Over, Published, Manifested, Hashed, Timed, Locks, Paying
<1>4. InvocationOK(i)'
  BY <1>1, <1>3 DEF InvocationOK, Published, Manifested, Hashed, Timed
<1>5. TrainingTypeOK'
  BY <1>1, <1>2, <1>4 DEF IInv, TrainingTypeOK, InvocationOK
<1>6. LockInv'
  BY <1>1, <1>2, <1>3 DEF IInv, LockInv, Owner, Published, Manifested, Hashed, Timed
<1>7. ExperimentInv'
  BY <1>1, <1>2 DEF IInv, ExperimentInv, SealedBy
<1>8. \A j \in Invocations : CodeInv(j)'
  BY <1>1, <1>2 DEF IInv, CodeInv, Over
<1>9. ClientInv(i)'
  BY <1>1, <1>2, <1>3 DEF IInv, ClientInv, Over, Paying
<1>10. \A j \in Invocations : j # i => ClientInv(j)'
  BY <1>1, <1>2 DEF IInv, ClientInv
<1> QED BY <1>5, <1>6, <1>7, <1>8, <1>9, <1>10 DEF IInv

\* Before the lock, a step of the preflight only changes what its invocation knows.
LEMMA PreflightStep ==
  ASSUME IInv, NEW i \in Invocations,
         inv' = [j \in Invocations |-> inv'[j]],
         \A j \in Invocations : j # i => inv'[j] = inv[j],
         InvocationOK(i)',
         inv[i].pc \notin Locks \cup Over, inv'[i].pc \notin Locks \cup Over,
         UNCHANGED <<World, Outputs>>
  PROVE  IInv'
<1>1. UNCHANGED <<files, manifest, code, head, runLock, experiment, clients>> /\ Paid' = Paid
  BY DEF World, Outputs, Paid
<1>a. Paying \subseteq Locks /\ NoClient.lock = Absent
  BY DEF Locks, NoClient
<1>b. clients[i] = NoClient
  BY <1>a DEF IInv, ClientInv
<1>2. clients[i] = NoClient /\ i \notin Paid
  BY <1>a, <1>b DEF Paid
<1>3. TrainingTypeOK'
  BY <1>1 DEF IInv, TrainingTypeOK, InvocationOK
<1>4. LockInv'
  BY <1>1, <1>2 DEF IInv, LockInv, Owner
<1>5. ExperimentInv'
  BY <1>1, <1>2 DEF IInv, ExperimentInv, SealedBy
<1>6. \A j \in Invocations : CodeInv(j)'
  BY <1>1 DEF IInv, CodeInv, Locks
<1>7. ClientInv(i)'
  <2>1. inv'[i].pc \notin Paying /\ inv'[i].pc \notin Over /\ "training" \in Paying
    BY <1>a DEF Paying
  <2>2. clients'[i] = NoClient /\ i \notin Paid'
    BY <1>1, <1>2
  <2> QED BY <2>1, <2>2 DEF ClientInv
<1>8. \A j \in Invocations : j # i => ClientInv(j)'
  BY <1>1 DEF IInv, ClientInv
<1> QED BY <1>3, <1>4, <1>5, <1>6, <1>7, <1>8 DEF IInv

\* What a check that holds or raises leaves to prove: the case in which it holds.
LEMMA RequireStep ==
  ASSUME IInv, NEW i \in Invocations, NEW condition, NEW changes,
         Require(i, condition, changes), inv[i].pc \notin Over,
         UNCHANGED <<World, Outputs>>,
         condition /\ Advance(i, changes) => IInv'
  PROVE  IInv'
<1>1. CASE Refuse(i)
  BY <1>1, EndStep DEF Refuse, Over
<1>2. CASE condition /\ Advance(i, changes)
  BY <1>2
<1> QED BY <1>1, <1>2 DEF Require

LEMMA StageNames ==
  /\ Over \cap Published = {} /\ {"start", "unused"} \cap (Published \cup Over) = {}
  /\ "published" \in Published \ Manifested
  /\ "manifest" \in Manifested \ Hashed
  /\ "hashed" \in Hashed \ Timed
  /\ {"rows", "proven", "reviewed", "prepared"} \subseteq Timed \ Locks
  /\ Paying \subseteq Locks /\ Locks \subseteq Timed /\ Timed \subseteq Hashed
  /\ Hashed \subseteq Manifested /\ Manifested \subseteq Published
BY DEF Over, Published, Manifested, Hashed, Timed, Locks, Paying

-----------------------------------------------------------------------------
(* Preflight.                                                              *)

LEMMA RequireUnusedStep ==
  ASSUME IInv, NEW i \in Invocations, RequireUnused(i)
  PROVE  IInv'
<1>1. inv[i].pc = "start" /\ inv[i].pc \notin Over /\ UNCHANGED <<World, Outputs>>
  BY DEF RequireUnused, Over
<1>2. ASSUME Advance(i, [pc |-> "unused"]) PROVE IInv'
  <2>1. inv'[i].pc = "unused"
    BY <1>2, AdvanceMoves, IdleFields
  <2>2. InvocationOK(i)'
    BY <1>2, <2>1, AdvanceMoves, StageNames DEF InvocationOK
  <2> QED BY <1>1, <1>2, <2>1, <2>2, AdvanceMoves, PreflightStep, StageNames
<1> QED BY <1>1, <1>2, RequireStep DEF RequireUnused

LEMMA RequirePublishedHeadStep ==
  ASSUME IInv, NEW i \in Invocations, RequirePublishedHead(i)
  PROVE  IInv'
<1>1. inv[i].pc = "unused" /\ inv[i].pc \notin Over /\ UNCHANGED <<World, Outputs>>
  BY DEF RequirePublishedHead, Over
<1>2. ASSUME Advance(i, [pc |-> "published", revision |-> head]) PROVE IInv'
  <2>1. inv'[i].pc = "published" /\ inv'[i].revision = head
    BY <1>2, AdvanceMoves, IdleFields
  <2>2. InvocationOK(i)'
    BY <1>2, <2>1, AdvanceMoves, StageNames DEF InvocationOK, IInv, TrainingTypeOK
  <2> QED BY <1>1, <1>2, <2>1, <2>2, AdvanceMoves, PreflightStep, StageNames
<1> QED BY <1>1, <1>2, RequireStep DEF RequirePublishedHead

\* Every later step of the preflight stays in it, with the fields it has set being what they are.
LEMMA ReadManifestStep ==
  ASSUME IInv, NEW i \in Invocations, ReadManifest(i)
  PROVE  IInv'
<1>1. inv[i].pc = "published" /\ inv[i].pc \notin Over /\ UNCHANGED <<World, Outputs>>
  BY DEF ReadManifest, Over
<1>2. ASSUME Advance(i, [pc |-> "manifest", manifest |-> manifest]) PROVE IInv'
  <2>1. /\ inv'[i].pc = "manifest" /\ inv'[i].manifest = manifest
        /\ inv'[i].revision = inv[i].revision
    BY <1>2, AdvanceMoves, IdleFields
  <2>2. InvocationOK(i)'
    BY <1>1, <1>2, <2>1, AdvanceMoves, StageNames DEF InvocationOK, IInv, TrainingTypeOK
  <2> QED BY <1>1, <1>2, <2>1, <2>2, AdvanceMoves, PreflightStep, StageNames
<1> QED BY <1>1, <1>2, RequireStep DEF ReadManifest

LEMMA HashArtifactsStep ==
  ASSUME IInv, NEW i \in Invocations, HashArtifacts(i)
  PROVE  IInv'
<1>1. inv[i].pc = "manifest" /\ inv[i].pc \notin Over /\ UNCHANGED <<World, Outputs>>
  BY DEF HashArtifacts, Over
<1>2. ASSUME Advance(i, [pc |-> "hashed", seen |-> files]) PROVE IInv'
  <2>1. /\ inv'[i].pc = "hashed" /\ inv'[i].seen = files
        /\ inv'[i].revision = inv[i].revision /\ inv'[i].manifest = inv[i].manifest
    BY <1>2, AdvanceMoves, IdleFields
  <2>2. InvocationOK(i)'
    BY <1>1, <1>2, <2>1, AdvanceMoves, StageNames DEF InvocationOK, IInv, TrainingTypeOK
  <2> QED BY <1>1, <1>2, <2>1, <2>2, AdvanceMoves, PreflightStep, StageNames
<1> QED BY <1>1, <1>2, RequireStep DEF HashArtifacts

LEMMA CheckTrainingRowsStep ==
  ASSUME IInv, NEW i \in Invocations, CheckTrainingRows(i)
  PROVE  IInv'
<1>1. inv[i].pc = "hashed" /\ inv[i].pc \notin Over /\ UNCHANGED <<World, Outputs>>
  BY DEF CheckTrainingRows, Over
<1>2. ASSUME NEW at \in ActionTimes, Advance(i, [pc |-> "rows", at |-> at, rows |-> files])
      PROVE  IInv'
  <2>1. /\ inv'[i].pc = "rows" /\ inv'[i].at = at /\ inv'[i].seen = inv[i].seen
        /\ inv'[i].revision = inv[i].revision /\ inv'[i].manifest = inv[i].manifest
    BY <1>2, AdvanceMoves, IdleFields
  <2>2. InvocationOK(i)'
    BY <1>1, <1>2, <2>1, AdvanceMoves, StageNames DEF InvocationOK, IInv, TrainingTypeOK
  <2> QED BY <1>1, <1>2, <2>1, <2>2, AdvanceMoves, PreflightStep, StageNames
<1>3. PICK at \in ActionTimes, holds \in BOOLEAN :
        Require(i, holds, [pc |-> "rows", at |-> at, rows |-> files])
  BY DEF CheckTrainingRows, Require
<1> QED BY <1>1, <1>2, <1>3, RequireStep

\* The rest of the preflight learns nothing but that it may go on.
LEMMA GoesOnStep ==
  ASSUME IInv, NEW i \in Invocations, NEW stage \in {"proven", "reviewed", "prepared"},
         Advance(i, [pc |-> stage]), inv[i].pc \in {"rows", "proven", "reviewed"},
         UNCHANGED <<World, Outputs>>
  PROVE  IInv'
<1>1. "pc" \in Fields /\ DOMAIN [pc |-> stage] = {"pc"} /\ [pc |-> stage]["pc"] = stage
  BY IdleFields
<1>2. inv'[i]["pc"] = stage /\ \A f \in Fields \ {"pc"} : inv'[i][f] = inv[i][f]
  BY <1>1, AdvanceMoves
<1>3. /\ inv'[i].pc = stage /\ inv'[i].at = inv[i].at /\ inv'[i].seen = inv[i].seen
      /\ inv'[i].revision = inv[i].revision /\ inv'[i].manifest = inv[i].manifest
  BY <1>2, IdleFields
<1>4. InvocationOK(i)'
  BY <1>3, AdvanceMoves, StageNames DEF InvocationOK, IInv, TrainingTypeOK
<1> QED BY <1>3, <1>4, AdvanceMoves, PreflightStep, StageNames

LEMMA CompleteProvenanceStep ==
  ASSUME IInv, NEW i \in Invocations, CompleteProvenance(i)
  PROVE  IInv'
<1>1. inv[i].pc = "rows" /\ inv[i].pc \notin Over /\ UNCHANGED <<World, Outputs>>
  BY DEF CompleteProvenance, Over
<1>2. PICK holds \in BOOLEAN : Require(i, holds, [pc |-> "proven"])
  BY DEF CompleteProvenance, Require
<1>3. Advance(i, [pc |-> "proven"]) => IInv'
  BY <1>1, GoesOnStep
<1> QED BY <1>1, <1>2, <1>3, RequireStep

LEMMA RequireReviewedStep ==
  ASSUME IInv, NEW i \in Invocations, RequireReviewed(i)
  PROVE  IInv'
<1>1. inv[i].pc = "proven" /\ inv[i].pc \notin Over /\ UNCHANGED <<World, Outputs>>
  BY DEF RequireReviewed, Over
<1>2. Advance(i, [pc |-> "reviewed"]) \/ Advance(i, [pc |-> "unreviewed"])
  BY DEF RequireReviewed
<1>3. Advance(i, [pc |-> "reviewed"]) => IInv'
  BY <1>1, GoesOnStep
<1>4. Advance(i, [pc |-> "unreviewed"]) => IInv'
  BY <1>1, EndStep DEF Over
<1> QED BY <1>2, <1>3, <1>4

LEMMA HashAgainStep ==
  ASSUME IInv, NEW i \in Invocations, HashAgain(i)
  PROVE  IInv'
<1>1. inv[i].pc = "reviewed" /\ inv[i].pc \notin Over /\ UNCHANGED <<World, Outputs>>
  BY DEF HashAgain, Over
<1>2. Advance(i, [pc |-> "prepared"]) => IInv'
  BY <1>1, GoesOnStep
<1> QED BY <1>1, <1>2, RequireStep DEF HashAgain

-----------------------------------------------------------------------------
(* From the lock on.                                                       *)

LEMMA PreparedLock ==
  ASSUME IInv, NEW i \in Invocations, inv[i].pc = "prepared"
  PROVE  RunLock(i) \in RunLocks /\ RunLock(i).code = LockedCode(code)
<1>1. /\ inv[i].revision \in Revisions /\ inv[i].at \in ActionTimes /\ inv[i].seen \in Stamps
      /\ inv[i].manifest \in [outputs : [Sealed -> Builds], claims : Builds]
  BY StageNames DEF IInv, TrainingTypeOK, InvocationOK
<1>2. "training" \in Sealed /\ "training" \in Artifacts /\ "claims" \notin Artifacts
  BY DEF Artifacts, Sealed
<1>3. inv[i].seen.training \in Builds /\ inv[i].manifest.outputs.training \in Builds
  BY <1>1, <1>2 DEF Stamps
<1>4. Claims(inv[i].manifest) = Dataset[inv[i].manifest.claims]["claims"]
  BY <1>1 DEF Claims, Written
<1>5. Training(i) = Dataset[inv[i].seen.training]["training"]
  BY <1>2, <1>3 DEF Training, Written
<1>6. LockedCode(code) \in Nat
  BY DEF IInv, TrainingTypeOK, Revisions, LockedCode, CodeFiles
<1>7. [at |-> inv[i].at, training |-> inv[i].manifest.outputs.training,
       seasons |-> Claims(inv[i].manifest).untouched,
       rows |-> Len(Training(i)), pairs |-> Len(Claims(inv[i].manifest).ids)]
        \in [at : ActionTimes, training : Builds,
             seasons : {Dataset[b]["claims"].untouched : b \in Builds},
             rows : {Len(Dataset[b]["training"]) : b \in Builds},
             pairs : {Len(Dataset[b]["claims"].ids) : b \in Builds}]
  BY <1>1, <1>3, <1>4, <1>5
<1> QED BY <1>1, <1>3, <1>6, <1>7 DEF RunLock, RunLocks, Stamps

\* As long as there is no lock, nobody has one.
LEMMA NoOwnerYet ==
  ASSUME IInv, runLock = Absent
  PROVE  /\ \A i \in Invocations : ~Owner(i)
         /\ Paid = {} /\ experiment \in {Absent, Torn}
<1>1. \A i \in Invocations : ~Owner(i)
  BY DEF IInv, LockInv
<1>2. Paid = {}
  BY <1>1 DEF Owner, Paid
<1> QED BY <1>1, <1>2 DEF IInv, ExperimentInv, SealedBy

LEMMA CreateLockStep ==
  ASSUME IInv, NEW i \in Invocations, CreateLock(i)
  PROVE  IInv'
<1>1. /\ inv[i].pc = "prepared" /\ inv[i].pc \notin Over
      /\ UNCHANGED <<files, manifest, code, head, experiment, clients>>
  BY DEF CreateLock, Over, World
<1>2. CASE Refuse(i) /\ UNCHANGED runLock
  BY <1>1, <1>2, EndStep DEF Refuse, Over, World, Outputs
<1>3. CASE /\ runLock = Absent /\ runLock' = Torn
           /\ Advance(i, [pc |-> "locking", lock |-> RunLock(i)])
  <2>1. /\ inv'[i].pc = "locking" /\ inv'[i].lock = RunLock(i)
        /\ inv'[i].revision = inv[i].revision /\ inv'[i].manifest = inv[i].manifest
        /\ inv'[i].seen = inv[i].seen /\ inv'[i].at = inv[i].at
    BY <1>3, AdvanceMoves, IdleFields
  <2>2. /\ inv' = [j \in Invocations |-> inv'[j]] /\ DOMAIN inv'[i] = Fields
        /\ \A j \in Invocations : j # i => inv'[j] = inv[j]
    BY <1>3, AdvanceMoves
  <2>3. "locking" \in Locks /\ "locking" \notin Paying \cup Over
    BY DEF Locks, Paying, Over
  <2>4. InvocationOK(i)'
    BY <1>1, <2>1, <2>2, <2>3, StageNames, PreparedLock DEF InvocationOK, IInv, TrainingTypeOK
  <2>5. TrainingTypeOK'
    BY <1>1, <2>2, <2>4 DEF IInv, TrainingTypeOK, InvocationOK
  <2>6. Paid' = {} /\ Paid = {} /\ experiment' \in {Absent, Torn}
    BY <1>1, <1>3, NoOwnerYet DEF Paid
  <2>7. \A j \in Invocations : j # i => ~Owner(j)'
    BY <1>3, <2>2, <2>6, NoOwnerYet DEF Owner
  <2>8. LockInv'
    <3>1. runLock' # Absent
      BY <1>3, MarkersAssumption
    <3> QED BY <2>1, <2>7, <3>1 DEF LockInv, Owner
  <2>9. CodeInv(i)'
    BY <1>1, <2>1, PreparedLock DEF CodeInv, RunLocks, IInv, TrainingTypeOK, Revisions, LockedCode, CodeFiles
  <2>10. \A j \in Invocations : j # i => CodeInv(j)'
    BY <1>1, <2>2 DEF IInv, CodeInv
  <2>11. clients[i] = NoClient
    BY <1>1 DEF IInv, ClientInv, Paying, Over
  <2>12. ClientInv(i)'
    BY <1>1, <2>1, <2>3, <2>6, <2>11 DEF ClientInv, Paying
  <2>13. \A j \in Invocations : j # i => ClientInv(j)'
    BY <1>1, <2>2, <2>6 DEF IInv, ClientInv
  <2> QED BY <2>5, <2>6, <2>8, <2>9, <2>10, <2>12, <2>13 DEF IInv, ExperimentInv
<1> QED BY <1>2, <1>3 DEF CreateLock

LEMMA WriteLockStep ==
  ASSUME IInv, NEW i \in Invocations, WriteLock(i)
  PROVE  IInv'
<1>1. /\ inv[i].pc = "locking" /\ runLock' = inv[i].lock /\ Advance(i, [pc |-> "locked"])
      /\ UNCHANGED <<files, manifest, code, head, experiment, clients>>
  BY DEF WriteLock, World
<1>2. /\ inv'[i].pc = "locked" /\ inv'[i].lock = inv[i].lock
      /\ inv'[i].revision = inv[i].revision /\ inv'[i].manifest = inv[i].manifest
      /\ inv'[i].seen = inv[i].seen /\ inv'[i].at = inv[i].at
  BY <1>1, AdvanceMoves, IdleFields
<1>3. /\ inv' = [j \in Invocations |-> inv'[j]] /\ DOMAIN inv'[i] = Fields
      /\ \A j \in Invocations : j # i => inv'[j] = inv[j]
  BY <1>1, AdvanceMoves
<1>4. {"locking", "locked"} \subseteq Locks /\ {"locking", "locked"} \cap (Paying \cup Over) = {}
  BY DEF Locks, Paying, Over
<1>5. InvocationOK(i)'
  BY <1>1, <1>2, <1>3, <1>4, StageNames DEF InvocationOK, IInv, TrainingTypeOK
<1>6. TrainingTypeOK'
  BY <1>1, <1>3, <1>5 DEF IInv, TrainingTypeOK, InvocationOK
<1>7. inv[i].lock \in RunLocks /\ Owner(i)
  BY <1>1, <1>4 DEF IInv, TrainingTypeOK, InvocationOK, Owner
<1>8. clients[i] = NoClient /\ \A j \in Invocations : j # i => ~Owner(j)
  BY <1>1, <1>4, <1>7 DEF IInv, LockInv, ClientInv
<1>9. Paid = {} /\ Paid' = {}
  BY <1>1, <1>8 DEF Owner, Paid, NoClient
<1>10. experiment' \in {Absent, Torn}
  BY <1>1, <1>9 DEF IInv, ExperimentInv, SealedBy
<1>11. LockInv'
  BY <1>1, <1>2, <1>3, <1>7, <1>8, <1>9, MarkersAssumption DEF LockInv, Owner
<1>12. \A j \in Invocations : CodeInv(j)'
  BY <1>1, <1>2, <1>3 DEF IInv, CodeInv
<1>13. ClientInv(i)'
  BY <1>1, <1>2, <1>4, <1>8, <1>9 DEF ClientInv, Paying
<1>14. \A j \in Invocations : j # i => ClientInv(j)'
  BY <1>1, <1>3, <1>9 DEF IInv, ClientInv
<1> QED BY <1>6, <1>10, <1>11, <1>12, <1>13, <1>14 DEF IInv, ExperimentInv

Holding == Locks \ {"locking"}

\* A step of the owner, once its lock is written, that leaves the lock alone.
LEMMA OwnedStep ==
  ASSUME IInv, NEW i \in Invocations,
         inv' = [j \in Invocations |-> inv'[j]], DOMAIN inv'[i] = Fields,
         \A j \in Invocations : j # i => inv'[j] = inv[j],
         inv[i].pc \in Holding, inv'[i].pc \in Holding,
         inv'[i].revision = inv[i].revision, inv'[i].manifest = inv[i].manifest,
         inv'[i].seen = inv[i].seen, inv'[i].at = inv[i].at, inv'[i].lock = inv[i].lock,
         clients' = [j \in Invocations |-> clients'[j]],
         \A j \in Invocations : j # i => clients'[j] = clients[j],
         UNCHANGED <<World, runLock>>,
         CodeInv(i)', ClientInv(i)', ExperimentInv'
  PROVE  IInv'
<1>1. UNCHANGED <<files, manifest, code, head>>
  BY DEF World
<1>2. Holding \subseteq Locks
  BY DEF Holding
<1>3. InvocationOK(i)'
  BY <1>2, StageNames DEF InvocationOK, IInv, TrainingTypeOK
<1>4. TrainingTypeOK'
  BY <1>1, <1>3 DEF IInv, TrainingTypeOK, InvocationOK
<1>5. Owner(i) /\ \A j \in Invocations : j # i => ~Owner(j)
  BY <1>2 DEF IInv, LockInv, Owner
<1>6. \A j \in Invocations : j # i => ~Owner(j)' /\ j \notin Paid /\ j \notin Paid'
  BY <1>5 DEF Owner, Paid
<1>7. runLock = inv[i].lock /\ runLock # Absent
  BY <1>5 DEF IInv, LockInv, Holding
<1>8. LockInv'
  BY <1>6, <1>7 DEF LockInv, Owner
<1>9. \A j \in Invocations : j # i => CodeInv(j)'
  BY <1>1 DEF IInv, CodeInv
<1>10. \A j \in Invocations : j # i => ClientInv(j)'
  BY <1>6 DEF IInv, ClientInv
<1> QED BY <1>4, <1>8, <1>9, <1>10 DEF IInv

\* Until the owner has written the seal, there is none.
LEMMA NoSealYet ==
  ASSUME IInv, NEW i \in Invocations, inv[i].pc \in Holding \ {"sealed", "done"}
  PROVE  experiment \in {Absent, Torn}
<1>1. inv[i].pc \notin Over /\ Owner(i)
  BY StageNames DEF Holding, Owner
<1>2. ASSUME NEW j \in Invocations, SealedBy(j) PROVE FALSE
  <2>1. j = i
    BY <1>1, <1>2 DEF IInv, LockInv, Owner, SealedBy
  <2> QED BY <1>1, <1>2, <2>1 DEF SealedBy
<1> QED BY <1>2 DEF IInv, ExperimentInv

LEMMA OwnerHolds ==
  ASSUME IInv, NEW i \in Invocations, inv[i].pc \in Holding
  PROVE  inv[i].lock \in RunLocks /\ runLock = inv[i].lock
BY DEF Holding, IInv, LockInv, TrainingTypeOK, InvocationOK

\* A step between the lock and the client.
LEMMA CheckedStep ==
  ASSUME IInv, NEW i \in Invocations, NEW changes, Advance(i, changes),
         inv[i].pc \in {"locked", "verified", "loaded"},
         inv'[i].pc \in {"verified", "loaded", "ready"},
         DOMAIN changes \subseteq {"pc", "runtime"},
         UNCHANGED <<World, Outputs>>, CodeInv(i)'
  PROVE  IInv'
<1>1. /\ inv'[i].revision = inv[i].revision /\ inv'[i].manifest = inv[i].manifest
      /\ inv'[i].seen = inv[i].seen /\ inv'[i].at = inv[i].at /\ inv'[i].lock = inv[i].lock
  BY AdvanceMoves, IdleFields
<1>2. /\ {"locked", "verified", "loaded", "ready"} \subseteq Holding \ {"sealed", "done"}
      /\ {"locked", "verified", "loaded", "ready"} \cap (Paying \cup Over) = {}
  BY DEF Holding, Locks, Paying, Over
<1>3. UNCHANGED <<runLock, experiment, clients>> /\ Paid' = Paid
  BY DEF Outputs, Paid
<1>4. clients[i] = NoClient
  BY <1>2 DEF IInv, ClientInv
<1>5. i \notin Paid
  BY <1>4 DEF Paid, NoClient
<1>6. ClientInv(i)'
  BY <1>2, <1>3, <1>4, <1>5 DEF ClientInv
<1>7. ExperimentInv'
  BY <1>2, <1>3, NoSealYet DEF ExperimentInv
<1>8. clients' = [j \in Invocations |-> clients'[j]]
  BY <1>3 DEF IInv, TrainingTypeOK
<1> QED BY <1>1, <1>2, <1>3, <1>6, <1>7, <1>8, AdvanceMoves, OwnedStep

LEMMA VerifyLockStep ==
  ASSUME IInv, NEW i \in Invocations, VerifyLock(i)
  PROVE  IInv'
<1>1. inv[i].pc = "locked" /\ inv[i].pc \notin Over /\ UNCHANGED <<World, Outputs>>
  BY DEF VerifyLock, Over
<1>2. ASSUME Advance(i, [pc |-> "verified"]) PROVE IInv'
  <2>1. inv'[i].pc = "verified" /\ inv'[i].lock = inv[i].lock
    BY <1>2, AdvanceMoves, IdleFields
  <2>2. CodeInv(i)'
    BY <1>1, <2>1 DEF IInv, CodeInv, World
  <2> QED BY <1>1, <1>2, <2>1, <2>2, CheckedStep
<1> QED BY <1>1, <1>2, RequireStep DEF VerifyLock

LEMMA LoadRuntimeStep ==
  ASSUME IInv, NEW i \in Invocations, LoadRuntime(i)
  PROVE  IInv'
<1>1. /\ inv[i].pc = "verified" /\ UNCHANGED <<World, Outputs>> /\ UNCHANGED code
      /\ Advance(i, [pc |-> "loaded", runtime |-> code])
  BY DEF LoadRuntime, World
<1>2. inv'[i].pc = "loaded" /\ inv'[i].lock = inv[i].lock /\ inv'[i].runtime = code
  BY <1>1, AdvanceMoves, IdleFields
<1>3. code \in Revisions /\ LockedCode(code) \in Nat
  BY DEF IInv, TrainingTypeOK, Revisions, LockedCode, CodeFiles
<1>4. CodeInv(i)'
  BY <1>1, <1>2, <1>3 DEF IInv, CodeInv, LockedCode
<1> QED BY <1>1, <1>2, <1>4, CheckedStep

LEMMA VerifyUnchangedStep ==
  ASSUME IInv, NEW i \in Invocations, VerifyUnchanged(i)
  PROVE  IInv'
<1>1. inv[i].pc = "loaded" /\ inv[i].pc \notin Over /\ UNCHANGED <<World, Outputs>>
  BY DEF VerifyUnchanged, Over
<1>2. ASSUME LockVerified(i), Advance(i, [pc |-> "ready"]) PROVE IInv'
  <2>1. inv'[i].pc = "ready" /\ inv'[i].lock = inv[i].lock /\ inv'[i].runtime = inv[i].runtime
    BY <1>2, AdvanceMoves, IdleFields
  <2>2. runLock = inv[i].lock
    BY <1>1, OwnerHolds DEF Holding, Locks
  <2>3. inv[i].lock.code = LockedCode(code)
    BY <1>2, <2>2 DEF LockVerified, RunLock
  <2>4. /\ LockedCode(inv[i].runtime) \in Nat /\ LockedCode(code) \in Nat
        /\ LockedCode(inv[i].runtime) <= LockedCode(code)
        /\ LockedCode(code) <= LockedCode(inv[i].runtime)
    BY <1>1, <2>3 DEF IInv, CodeInv, TrainingTypeOK, Revisions, LockedCode, CodeFiles
  <2>5. LockedCode(inv'[i].runtime) = inv'[i].lock.code
    BY <2>1, <2>3, <2>4
  <2>6. CodeInv(i)'
    BY <2>1, <2>5 DEF CodeInv
  <2> QED BY <1>1, <1>2, <2>1, <2>6, CheckedStep
<1> QED BY <1>1, <1>2, RequireStep DEF VerifyUnchanged

-----------------------------------------------------------------------------
(* The paid run and its seal.                                              *)

LEMMA StagesHeld ==
  /\ {"ready", "training", "trained", "sealing", "sealed", "done"} \subseteq Holding
  /\ {"training", "trained", "sealing", "sealed", "done"} = Paying
  /\ "ready" \notin Paying \cup Over /\ Paying \cap Over = {}
  /\ Paying \subseteq Holding
BY DEF Holding, Locks, Paying, Over

LEMMA ClientFields == DOMAIN NoClient = {"lock", "training", "runtime", "batches", "saved"}
BY DEF NoClient

LEMMA CreateClientStep ==
  ASSUME IInv, NEW i \in Invocations, CreateClient(i)
  PROVE  IInv'
<1>1. /\ inv[i].pc = "ready" /\ UNCHANGED <<World, runLock, experiment>>
      /\ Advance(i, [pc |-> "training"])
      /\ clients' = [clients EXCEPT ![i] = [clients[i] EXCEPT !.lock = inv[i].lock,
                         !.training = inv[i].seen.training, !.runtime = inv[i].runtime]]
  BY DEF CreateClient
<1>2. /\ inv'[i].pc = "training" /\ inv'[i].lock = inv[i].lock
      /\ inv'[i].revision = inv[i].revision /\ inv'[i].manifest = inv[i].manifest
      /\ inv'[i].seen = inv[i].seen /\ inv'[i].at = inv[i].at
  BY <1>1, AdvanceMoves, IdleFields
<1>3. clients[i] = NoClient
  BY <1>1, StagesHeld DEF IInv, ClientInv
<1>4. clients = [j \in Invocations |-> clients[j]]
  BY DEF IInv, TrainingTypeOK
<1>5. /\ clients' = [j \in Invocations |-> clients'[j]]
      /\ \A j \in Invocations : j # i => clients'[j] = clients[j]
      /\ clients'[i] = [NoClient EXCEPT !.lock = inv[i].lock,
                           !.training = inv[i].seen.training, !.runtime = inv[i].runtime]
  BY <1>1, <1>3, <1>4
<1>6. /\ DOMAIN clients'[i] = DOMAIN NoClient /\ clients'[i].lock = inv[i].lock
      /\ clients'[i].runtime = inv[i].runtime /\ clients'[i].saved = {}
  BY <1>5 DEF NoClient
<1>7. inv[i].lock \in RunLocks /\ runLock = inv[i].lock
  BY <1>1, OwnerHolds, StagesHeld
<1>8. i \in Paid'
  BY <1>6, <1>7, MarkersAssumption DEF Paid
<1>9. LockedCode(inv[i].runtime) = inv[i].lock.code
  BY <1>1 DEF IInv, CodeInv
<1>10. ClientInv(i)'
  BY <1>1, <1>2, <1>6, <1>7, <1>8, <1>9, StagesHeld DEF ClientInv
<1>11. CodeInv(i)'
  BY <1>2 DEF CodeInv
<1>12. ExperimentInv'
  BY <1>1, NoSealYet, StagesHeld DEF ExperimentInv
<1> QED BY <1>1, <1>2, <1>5, <1>10, <1>11, <1>12, AdvanceMoves, OwnedStep, StagesHeld

LEMMA TrainBatchStep ==
  ASSUME IInv, NEW i \in Invocations, TrainBatch(i)
  PROVE  IInv'
<1>1. /\ inv[i].pc = "training" /\ clients[i].batches < Batches
      /\ UNCHANGED <<World, inv, runLock, experiment>>
      /\ clients' = [clients EXCEPT ![i].batches = clients[i].batches + 1]
  BY DEF TrainBatch
<1>2. /\ i \in Paid /\ DOMAIN clients[i] = DOMAIN NoClient
      /\ clients[i].lock = runLock /\ LockedCode(clients[i].runtime) = runLock.code
      /\ clients[i].saved = {}
  BY <1>1, StagesHeld, TrainingAssumption DEF IInv, ClientInv
<1>3. clients = [j \in Invocations |-> clients[j]]
  BY DEF IInv, TrainingTypeOK
<1>4. /\ clients' = [j \in Invocations |-> clients'[j]]
      /\ \A j \in Invocations : j # i => clients'[j] = clients[j]
      /\ clients'[i] = [clients[i] EXCEPT !.batches = clients[i].batches + 1]
  BY <1>1, <1>3
<1>5. /\ DOMAIN clients'[i] = DOMAIN NoClient /\ clients'[i].lock = clients[i].lock
      /\ clients'[i].runtime = clients[i].runtime /\ clients'[i].saved = {}
  BY <1>2, <1>4
<1>6. i \in Paid'
  BY <1>2, <1>5 DEF Paid
<1>7. ClientInv(i)'
  BY <1>1, <1>2, <1>5, <1>6, StagesHeld DEF ClientInv
<1>8. CodeInv(i)'
  BY <1>1 DEF CodeInv
<1>9. ExperimentInv'
  BY <1>1, NoSealYet, StagesHeld DEF ExperimentInv
<1>10. inv' = [j \in Invocations |-> inv'[j]] /\ DOMAIN inv'[i] = Fields
  BY <1>1 DEF IInv, TrainingTypeOK, InvocationOK
<1> QED BY <1>1, <1>4, <1>7, <1>8, <1>9, <1>10, OwnedStep, StagesHeld

LEMMA SaveFinalPathsStep ==
  ASSUME IInv, NEW i \in Invocations, SaveFinalPaths(i)
  PROVE  IInv'
<1>1. /\ inv[i].pc = "training" /\ clients[i].batches = Batches
      /\ UNCHANGED <<World, runLock, experiment>>
      /\ clients' = [clients EXCEPT ![i].saved =
                        IF clients[i].saved = {} THEN {"state"} ELSE {"state", "sampler"}]
      /\ IF clients[i].saved = {} THEN UNCHANGED inv ELSE Advance(i, [pc |-> "trained"])
  BY DEF SaveFinalPaths
<1>2. /\ i \in Paid /\ DOMAIN clients[i] = DOMAIN NoClient
      /\ clients[i].lock = runLock /\ LockedCode(clients[i].runtime) = runLock.code
  BY <1>1, StagesHeld DEF IInv, ClientInv
<1>3. clients = [j \in Invocations |-> clients[j]]
  BY DEF IInv, TrainingTypeOK
<1>4. /\ clients' = [j \in Invocations |-> clients'[j]]
      /\ \A j \in Invocations : j # i => clients'[j] = clients[j]
      /\ clients'[i] = [clients[i] EXCEPT !.saved =
                          IF clients[i].saved = {} THEN {"state"} ELSE {"state", "sampler"}]
  BY <1>1, <1>3
<1>5. /\ DOMAIN clients'[i] = DOMAIN NoClient /\ clients'[i].lock = clients[i].lock
      /\ clients'[i].runtime = clients[i].runtime /\ clients'[i].batches = Batches
      /\ clients'[i].saved = IF clients[i].saved = {} THEN {"state"} ELSE {"state", "sampler"}
  BY <1>1, <1>2, <1>4, ClientFields
<1>6. i \in Paid'
  BY <1>2, <1>5 DEF Paid
<1>7. ExperimentInv'
  BY <1>1, NoSealYet, StagesHeld DEF ExperimentInv
<1>8. CASE clients[i].saved = {} /\ UNCHANGED inv
  <2>1. ClientInv(i)'
    BY <1>1, <1>2, <1>5, <1>6, <1>8, StagesHeld DEF ClientInv
  <2>2. CodeInv(i)'
    BY <1>1, <1>8 DEF CodeInv
  <2>3. inv' = [j \in Invocations |-> inv'[j]] /\ DOMAIN inv'[i] = Fields
    BY <1>8 DEF IInv, TrainingTypeOK, InvocationOK
  <2> QED BY <1>1, <1>4, <1>7, <1>8, <2>1, <2>2, <2>3, OwnedStep, StagesHeld
<1>9. CASE clients[i].saved # {} /\ Advance(i, [pc |-> "trained"])
  <2>1. /\ inv'[i].pc = "trained" /\ inv'[i].lock = inv[i].lock
        /\ inv'[i].revision = inv[i].revision /\ inv'[i].manifest = inv[i].manifest
        /\ inv'[i].seen = inv[i].seen /\ inv'[i].at = inv[i].at
    BY <1>9, AdvanceMoves, IdleFields
  <2>2. ClientInv(i)'
    BY <1>1, <1>2, <1>5, <1>6, <1>9, <2>1, StagesHeld DEF ClientInv
  <2>3. CodeInv(i)'
    BY <2>1 DEF CodeInv
  <2> QED BY <1>1, <1>4, <1>7, <1>9, <2>1, <2>2, <2>3, AdvanceMoves, OwnedStep, StagesHeld
<1> QED BY <1>1, <1>8, <1>9

\* What is known of a run that has trained all its batches, and stays so while it is sealed.
LEMMA SealingStep ==
  ASSUME IInv, NEW i \in Invocations, NEW changes, Advance(i, changes),
         inv[i].pc \in {"trained", "sealing", "sealed"},
         inv'[i].pc \in {"sealing", "sealed", "done"},
         DOMAIN changes \subseteq {"pc", "lock"}, inv'[i].lock = inv[i].lock,
         UNCHANGED <<World, runLock, clients>>, ExperimentInv'
  PROVE  IInv'
<1>1. /\ inv'[i].revision = inv[i].revision /\ inv'[i].manifest = inv[i].manifest
      /\ inv'[i].seen = inv[i].seen /\ inv'[i].at = inv[i].at
  BY AdvanceMoves, IdleFields
<1>2. Paid' = Paid /\ clients' = [j \in Invocations |-> clients'[j]]
  BY DEF Paid, IInv, TrainingTypeOK
<1>3. ClientInv(i)'
  BY <1>2, StagesHeld DEF IInv, ClientInv
<1>4. CodeInv(i)'
  BY DEF CodeInv
<1> QED BY <1>1, <1>2, <1>3, <1>4, AdvanceMoves, OwnedStep, StagesHeld

LEMMA CreateExperimentStep ==
  ASSUME IInv, NEW i \in Invocations, CreateExperiment(i)
  PROVE  IInv'
<1>1. /\ inv[i].pc = "trained" /\ inv[i].pc \notin Over
      /\ UNCHANGED <<World, runLock, clients>>
  BY DEF CreateExperiment, Over
<1>2. CASE Refuse(i) /\ UNCHANGED experiment
  BY <1>1, <1>2, EndStep DEF Refuse, Over, Outputs
<1>3. CASE experiment' = Torn /\ Advance(i, [pc |-> "sealing", lock |-> runLock])
  <2>1. inv'[i].pc = "sealing" /\ inv'[i].lock = runLock
    BY <1>3, AdvanceMoves, IdleFields
  <2>2. runLock = inv[i].lock
    BY <1>1, OwnerHolds, StagesHeld
  <2>3. ExperimentInv'
    BY <1>3 DEF ExperimentInv
  <2> QED BY <1>1, <1>3, <2>1, <2>2, <2>3, SealingStep
<1> QED BY <1>2, <1>3 DEF CreateExperiment

\* The seal names the run of its writer.
LEMMA WriteExperimentStep ==
  ASSUME IInv, NEW i \in Invocations, WriteExperiment(i)
  PROVE  IInv'
<1>1. /\ inv[i].pc = "sealing" /\ experiment' = Experiment(i, inv[i].lock)
      /\ Advance(i, [pc |-> "sealed"]) /\ UNCHANGED <<World, runLock, clients>>
  BY DEF WriteExperiment
<1>2. inv'[i].pc = "sealed" /\ inv'[i].lock = inv[i].lock
  BY <1>1, AdvanceMoves, IdleFields
<1>3. /\ i \in Paid /\ clients[i].lock = runLock /\ runLock = inv[i].lock
      /\ clients[i].saved = {"state", "sampler"} /\ clients[i].batches = Batches
  BY <1>1, OwnerHolds, StagesHeld DEF IInv, ClientInv
<1>4. experiment'.lock = clients[i].lock /\ experiment'.sampler = Result(i).sampler
  BY <1>1, <1>3 DEF Experiment
<1>5. SealedBy(i)'
  BY <1>1, <1>2, <1>3, <1>4 DEF SealedBy, Paid, Result
<1>6. ExperimentInv'
  BY <1>5 DEF ExperimentInv
<1> QED BY <1>1, <1>2, <1>6, SealingStep

LEMMA VerifyExperimentStep ==
  ASSUME IInv, NEW i \in Invocations, VerifyExperiment(i)
  PROVE  IInv'
<1>1. inv[i].pc = "sealed" /\ inv[i].pc \notin Over /\ UNCHANGED <<World, Outputs>>
  BY DEF VerifyExperiment, Over
<1>2. ASSUME Advance(i, [pc |-> "done"]) PROVE IInv'
  <2>1. inv'[i].pc = "done" /\ inv'[i].lock = inv[i].lock
    BY <1>2, AdvanceMoves, IdleFields
  <2>2. UNCHANGED <<runLock, experiment, clients>> /\ Paid' = Paid
    BY <1>1 DEF Outputs, Paid
  <2>3. ExperimentInv'
    BY <1>2, <2>1, <2>2, AdvanceMoves DEF IInv, ExperimentInv, SealedBy
  <2> QED BY <1>1, <1>2, <2>1, <2>2, <2>3, SealingStep
<1> QED BY <1>1, <1>2, RequireStep DEF VerifyExperiment

-----------------------------------------------------------------------------
(* Deaths and the operator.                                                *)

LEMMA DiesStep ==
  ASSUME IInv, NEW i \in Invocations, Dies(i)
  PROVE  IInv'
BY EndStep DEF Dies, Ended, Over

\* What the operator does to files, manifest and published code touches no invocation; and the
\* listed code only gets newer.
LEMMA OperatorStep ==
  ASSUME IInv, EditFile \/ Reseal \/ EditCode \/ PublishCode
  PROVE  IInv'
<1>1. UNCHANGED <<inv, runLock, experiment, clients>> /\ Paid' = Paid
  BY DEF EditFile, Reseal, EditCode, PublishCode, Outputs, Paid
<1>2. /\ code' \in Revisions /\ head' \in Revisions
      /\ LockedCode(code) \in Nat /\ LockedCode(code') \in Nat
      /\ LockedCode(code) <= LockedCode(code')
  BY DEF IInv, TrainingTypeOK, Revisions, LockedCode, CodeFiles,
         EditFile, Reseal, EditCode, PublishCode
<1>3. Sealed \subseteq Artifacts
  BY DEF Artifacts
<1>4. files' \in Stamps
  <2>1. CASE EditFile
    <3>1. PICK a \in Editable, b \in Builds : files' = [files EXCEPT ![a] = Digest[a][b]]
      BY <2>1 DEF EditFile
    <3>2. files \in Stamps
      BY DEF IInv, TrainingTypeOK
    <3>3. a \in Artifacts => Digest[a][b] \in Builds
      BY DigestTypes
    <3> QED BY <3>1, <3>2, <3>3 DEF Stamps
  <2> QED BY <2>1 DEF IInv, TrainingTypeOK, Reseal, EditCode, PublishCode
<1>5. manifest' \in [outputs : [Sealed -> Builds], claims : Builds]
  <2>1. CASE Reseal
    BY <1>3, <2>1 DEF IInv, TrainingTypeOK, Stamps, Reseal
  <2> QED BY <2>1 DEF IInv, TrainingTypeOK, EditFile, EditCode, PublishCode
<1>6. TrainingTypeOK'
  BY <1>1, <1>2, <1>4, <1>5 DEF IInv, TrainingTypeOK, InvocationOK
<1>7. LockInv'
  BY <1>1 DEF IInv, LockInv, Owner
<1>8. ExperimentInv'
  BY <1>1 DEF IInv, ExperimentInv, SealedBy
<1>9. ASSUME NEW i \in Invocations PROVE CodeInv(i)'
  <2>1. inv[i].pc \in {"locking", "locked", "verified"} => inv[i].lock.code \in Nat
    BY DEF IInv, TrainingTypeOK, InvocationOK, Locks, RunLocks
  <2>2. inv[i].pc = "loaded" => LockedCode(inv[i].runtime) \in Nat
    BY DEF IInv, CodeInv, Revisions, LockedCode, CodeFiles
  <2> QED BY <1>1, <1>2, <2>1, <2>2 DEF IInv, CodeInv
<1>10. \A i \in Invocations : ClientInv(i)'
  BY <1>1 DEF IInv, ClientInv
<1> QED BY <1>6, <1>7, <1>8, <1>9, <1>10 DEF IInv

-----------------------------------------------------------------------------

LEMMA NextIInv == IInv /\ [Next]_vars => IInv'
<1> SUFFICES ASSUME IInv, [Next]_vars PROVE IInv'
  OBVIOUS
<1>1. CASE UNCHANGED vars
  BY <1>1 DEF vars, IInv, TrainingTypeOK, InvocationOK, LockInv, Owner, Paid, CodeInv,
              ClientInv, ExperimentInv, SealedBy
<1>2. ASSUME NEW i \in Invocations, Step(i) PROVE IInv'
  BY <1>2, RequireUnusedStep, RequirePublishedHeadStep, ReadManifestStep, HashArtifactsStep,
     CheckTrainingRowsStep, CompleteProvenanceStep, RequireReviewedStep, HashAgainStep,
     CreateLockStep, WriteLockStep, VerifyLockStep, LoadRuntimeStep, VerifyUnchangedStep,
     CreateClientStep, TrainBatchStep, SaveFinalPathsStep, CreateExperimentStep, WriteExperimentStep,
     VerifyExperimentStep DEF Step
<1>3. CASE \E i \in Invocations : Dies(i)
  BY <1>3, DiesStep
<1>4. CASE EditFile \/ Reseal \/ EditCode \/ PublishCode
  BY <1>4, OperatorStep
<1> QED BY <1>1, <1>2, <1>3, <1>4 DEF Next

\* The invariant holds of every run of train_tinker_outcome_v2_sft.py's invocations.
THEOREM Invariance == Spec => []IInv
<1>1. Init => IInv
  BY InitIInv
<1>2. IInv /\ [Next]_vars => IInv'
  BY NextIInv
<1> QED BY <1>1, <1>2, PTL DEF Spec

\* One client at most is ever created, under the lock that is on disk and by the code it lists,
\* and an experiment seal names that lock and a run that trained every batch and saved both
\* paths: _create_lock's "xb" and the two verifications around the import of the runtime.
THEOREM PaidOnceAlways == Spec => []PaidOnce
<1>1. ASSUME IInv PROVE PaidOnce
  <2>1. \A i, j \in Paid : i = j
    BY <1>1 DEF IInv, LockInv, Owner, Paid
  <2>2. Cardinality(Paid) <= 1
    <3>1. CASE Paid = {}
      BY <3>1, FS_EmptySet
    <3>2. CASE Paid # {}
      <4>1. PICK i \in Paid : Paid = {i}
        BY <3>2, <2>1
      <4> QED BY <4>1, FS_Singleton
    <3> QED BY <3>1, <3>2
  <2>3. \A i \in Paid : runLock = clients[i].lock /\ LockedCode(clients[i].runtime) = runLock.code
    BY <1>1 DEF IInv, ClientInv, Paid
  <2>4. experiment \notin {Absent, Torn} => \E i \in Paid :
          /\ experiment.lock = clients[i].lock
          /\ experiment.sampler = Result(i).sampler
          /\ clients[i].batches = Batches /\ clients[i].saved = {"state", "sampler"}
    BY <1>1 DEF IInv, ExperimentInv, SealedBy
  <2> QED BY <2>2, <2>3, <2>4 DEF PaidOnce
<1> QED BY <1>1, Invariance, PTL

-----------------------------------------------------------------------------
(* What the evidence of an admitted dataset is worth.                      *)

LEMMA LeastNatural ==
  ASSUME NEW S \in SUBSET Nat, S # {}
  PROVE  \E x \in S : \A y \in S : x <= y
<1>1. PICK x \in S : \A y \in S : ~(<<y, x>> \in OpToRel(<, Nat))
  BY NatLessThanWellFounded, WFMin
<1>2. ASSUME NEW y \in S PROVE x <= y
  <2>1. ~(y < x)
    BY <1>1 DEF OpToRel
  <2> QED BY <2>1
<1> QED BY <1>2

\* The result of a game, as it enters a rating.
ResultOf(row, resolutions) == [id |-> row.id, won |-> TeamWon(ResolutionOf(row, resolutions))]

\* The games whose results move the rating of a team of game i.
Moving(replay, resolutions, i) ==
  {k \in AppliedBefore(replay, resolutions, i) : replay[k].teams \cap replay[i].teams # {}}

\* What game i embodies, if f says what the games before it do.
Embodied(replay, resolutions, f, i) ==
  UNION {f[j] \cup {ResultOf(replay[j], resolutions)} : j \in Moving(replay, resolutions, i)}

LEMMA EmbodiedLocally ==
  ASSUME NEW replay, NEW resolutions, NEW i \in Nat, NEW f, NEW g,
         \A j \in 1 .. (i - 1) : f[j] = g[j]
  PROVE  Embodied(replay, resolutions, f, i) = Embodied(replay, resolutions, g, i)
<1>1. \A j \in Moving(replay, resolutions, i) : j \in 1 .. (i - 1)
  BY DEF Moving, AppliedBefore
<1>2. \A j \in Moving(replay, resolutions, i) : f[j] = g[j]
  BY <1>1
<1> QED BY <1>2 DEF Embodied

\* The replay is a recursion over the games in order, so that it defines every prior.
LEMMA PriorsExist ==
  ASSUME NEW replay, NEW resolutions, NEW n \in Nat
  PROVE  \E f : f = [i \in 1 .. n |-> Embodied(replay, resolutions, f, i)]
<1> DEFINE Exists(m) == \E f : f = [i \in 1 .. m |-> Embodied(replay, resolutions, f, i)]
<1> SUFFICES ASSUME ~Exists(n) PROVE FALSE
  OBVIOUS
<1> DEFINE Missing == {m \in Nat : ~Exists(m)}
<1>1. PICK m \in Missing : \A l \in Missing : m <= l
  <2>1. Missing \in SUBSET Nat /\ Missing # {}
    OBVIOUS
  <2> HIDE DEF Missing
  <2> QED BY <2>1, LeastNatural
<1>2. m # 0
  <2>1. Exists(0)
    <3> DEFINE f == [i \in 1 .. 0 |-> {}]
    <3>1. f = [i \in 1 .. 0 |-> Embodied(replay, resolutions, f, i)]
      OBVIOUS
    <3> QED BY <3>1
  <2> QED BY <2>1
<1>3. m \in Nat /\ m - 1 \in Nat /\ ~(m <= m - 1) /\ ~Exists(m)
  BY <1>2
<1>4. Exists(m - 1)
  <2> HIDE DEF Exists
  <2> QED BY <1>1, <1>3
<1>5. PICK f : f = [i \in 1 .. (m - 1) |-> Embodied(replay, resolutions, f, i)]
  BY <1>4
<1> DEFINE g == [i \in 1 .. m |-> IF i < m THEN f[i] ELSE Embodied(replay, resolutions, f, m)]
<1>6. ASSUME NEW i \in 1 .. m PROVE g[i] = Embodied(replay, resolutions, g, i)
  <2>1. \A j \in 1 .. (i - 1) : f[j] = g[j]
    BY <1>3
  <2> HIDE DEF g
  <2>2. Embodied(replay, resolutions, f, i) = Embodied(replay, resolutions, g, i)
    BY <2>1, EmbodiedLocally
  <2>3. g[i] = Embodied(replay, resolutions, f, i)
    <3>1. CASE i < m
      <4>1. i \in 1 .. (m - 1)
        BY <1>3, <3>1
      <4> QED BY <1>5, <3>1, <4>1 DEF g
    <3>2. CASE i = m
      BY <3>2 DEF g
    <3> QED BY <1>3, <3>1, <3>2
  <2> QED BY <2>2, <2>3
<1>7. g = [i \in 1 .. m |-> Embodied(replay, resolutions, g, i)]
  <2>1. g = [i \in 1 .. m |-> g[i]]
    OBVIOUS
  <2> HIDE DEF g
  <2> QED BY <1>6, <2>1
<1> QED BY <1>3, <1>7

LEMMA PriorsUnfold ==
  ASSUME NEW replay, NEW resolutions, NEW n \in Nat, DOMAIN replay = 1 .. n, NEW i \in 1 .. n
  PROVE  Priors(replay, resolutions)[i] =
           Embodied(replay, resolutions, Priors(replay, resolutions), i)
<1> DEFINE P == Priors(replay, resolutions)
<1>1. P = CHOOSE f : f = [k \in 1 .. n |-> Embodied(replay, resolutions, f, k)]
  BY DEF Priors, Embodied, Moving, ResultOf
<1>2. P = [k \in 1 .. n |-> Embodied(replay, resolutions, P, k)]
  <2> HIDE DEF P
  <2> QED BY <1>1, PriorsExist
<1>3. P[i] = Embodied(replay, resolutions, P, i)
  <2> HIDE DEF P
  <2> QED BY <1>2
<1> QED BY <1>3

\* No prior embodies a result that came in after its cutoff: what an applied game embodied
\* at its own, earlier cutoff was in by then.
LEMMA PriorsKnowable ==
  ASSUME NEW replay, NEW resolutions, NEW n \in Nat, DOMAIN replay = 1 .. n,
         \A i \in 1 .. n : replay[i].cutoff \in Int,
         \A i \in 1 .. n : ResolutionOf(replay[i], resolutions).resolvedAt \in Int,
         \A i, j \in 1 .. n : i < j => replay[i].cutoff <= replay[j].cutoff,
         NEW k \in 1 .. n, NEW result \in Priors(replay, resolutions)[k]
  PROVE  \E j \in 1 .. n : /\ result = ResultOf(replay[j], resolutions)
                           /\ ResolutionOf(replay[j], resolutions).resolvedAt <= replay[k].cutoff
<1> DEFINE P == Priors(replay, resolutions)
           Known(i, r) == \E j \in 1 .. n :
             /\ r = ResultOf(replay[j], resolutions)
             /\ ResolutionOf(replay[j], resolutions).resolvedAt <= replay[i].cutoff
           Early == {i \in 1 .. n : \E r \in P[i] : ~Known(i, r)}
<1> SUFFICES ASSUME ~Known(k, result) PROVE FALSE
  OBVIOUS
<1>1. Early \in SUBSET Nat /\ Early # {}
  OBVIOUS
<1>2. PICK i \in Early : \A l \in Early : i <= l
  <2> HIDE DEF Early
  <2> QED BY <1>1, LeastNatural
<1>3. i \in 1 .. n
  OBVIOUS
<1>4. PICK r \in P[i] : ~Known(i, r)
  OBVIOUS
<1>5. P[i] = Embodied(replay, resolutions, P, i)
  BY <1>3, PriorsUnfold
<1>6. PICK j \in Moving(replay, resolutions, i) :
        r \in P[j] \cup {ResultOf(replay[j], resolutions)}
  <2> HIDE DEF P, Known
  <2> QED BY <1>4, <1>5 DEF Embodied
<1>7. /\ j \in 1 .. n /\ j < i
      /\ ResolutionOf(replay[j], resolutions).resolvedAt <= replay[i].cutoff
  BY <1>3, <1>6 DEF Moving, AppliedBefore
<1>8. CASE r = ResultOf(replay[j], resolutions)
  BY <1>4, <1>7, <1>8
<1>9. CASE r \in P[j]
  <2>1. j \notin Early
    <3> HIDE DEF Early
    <3> QED BY <1>2, <1>3, <1>7
  <2>2. Known(j, r)
    BY <1>7, <1>9, <2>1
  <2>3. replay[j].cutoff <= replay[i].cutoff /\ replay[j].cutoff \in Int /\ replay[i].cutoff \in Int
    BY <1>3, <1>7
  <2>4. Known(i, r)
    BY <2>2, <2>3
  <2> QED BY <1>4, <2>4
<1> QED BY <1>6, <1>8, <1>9

LEMMA GreatestExists ==
  ASSUME NEW n \in Nat \ {0}, NEW value, \A i \in 1 .. n : value[i] \in Int
  PROVE  \E i \in 1 .. n : \A j \in 1 .. n : value[j] <= value[i]
<1> DEFINE Bounded(m) == \E i \in 1 .. m : \A j \in 1 .. m : value[j] <= value[i]
           Unbounded == {m \in 1 .. n : ~Bounded(m)}
<1> SUFFICES ASSUME ~Bounded(n) PROVE FALSE
  OBVIOUS
<1>1. PICK m \in Unbounded : \A l \in Unbounded : m <= l
  <2>1. Unbounded \in SUBSET Nat /\ Unbounded # {}
    <3> HIDE DEF Bounded
    <3> QED OBVIOUS
  <2> HIDE DEF Unbounded
  <2> QED BY <2>1, LeastNatural
<1>2. m \in 1 .. n /\ ~Bounded(m)
  OBVIOUS
<1>3. m # 1
  <2>1. Bounded(1)
    OBVIOUS
  <2> HIDE DEF Bounded
  <2> QED BY <1>2, <2>1
<1>4. m - 1 \in 1 .. n /\ ~(m <= m - 1)
  BY <1>2, <1>3
<1>5. Bounded(m - 1)
  <2> HIDE DEF Bounded
  <2> QED BY <1>1, <1>4
<1>6. PICK i \in 1 .. (m - 1) : \A j \in 1 .. (m - 1) : value[j] <= value[i]
  BY <1>5
<1>7. value[i] \in Int /\ value[m] \in Int /\ \A j \in 1 .. (m - 1) : value[j] \in Int
  BY <1>2, <1>4
<1>8. CASE value[m] <= value[i]
  <2>1. ASSUME NEW j \in 1 .. m PROVE value[j] <= value[i]
    <3>1. CASE j = m
      BY <1>8, <3>1
    <3>2. CASE j # m
      BY <1>2, <1>6, <3>2
    <3> QED BY <3>1, <3>2
  <2> QED BY <1>2, <2>1
<1>9. CASE value[i] <= value[m]
  <2>1. ASSUME NEW j \in 1 .. m PROVE value[j] <= value[m]
    <3>1. CASE j = m
      BY <1>7, <3>1
    <3>2. CASE j # m
      <4>1. j \in 1 .. (m - 1)
        BY <1>2, <3>2
      <4> QED BY <1>6, <1>7, <1>9, <4>1
    <3> QED BY <3>1, <3>2
  <2> QED BY <1>2, <2>1
<1> QED BY <1>7, <1>8, <1>9

\* Max and Min of the seasons of a file are what they say.
LEMMA SeasonsBetween ==
  ASSUME NEW n \in Nat \ {0}, NEW rows, DOMAIN rows = 1 .. n,
         \A i \in 1 .. n : rows[i].season \in Int
  PROVE  \A season \in SeasonsOf(rows) :
           /\ season \in Int /\ Max(SeasonsOf(rows)) \in Int /\ Min(SeasonsOf(rows)) \in Int
           /\ Min(SeasonsOf(rows)) <= season /\ season <= Max(SeasonsOf(rows))
<1> DEFINE up == [i \in 1 .. n |-> rows[i].season]
           down == [i \in 1 .. n |-> 0 - rows[i].season]
           S == SeasonsOf(rows)
<1>1. S = {rows[i].season : i \in 1 .. n}
  BY DEF SeasonsOf
<1>2. PICK i \in 1 .. n : \A j \in 1 .. n : up[j] <= up[i]
  <2>1. \A j \in 1 .. n : up[j] \in Int
    OBVIOUS
  <2> HIDE DEF up
  <2> QED BY <2>1, GreatestExists
<1>3. PICK k \in 1 .. n : \A j \in 1 .. n : down[j] <= down[k]
  <2>1. \A j \in 1 .. n : down[j] \in Int
    OBVIOUS
  <2> HIDE DEF down
  <2> QED BY <2>1, GreatestExists
<1>4. \E x \in S : \A y \in S : x >= y
  <2>1. rows[i].season \in S /\ \A y \in S : rows[i].season >= y
    BY <1>1, <1>2
  <2> QED BY <2>1
<1>5. \E x \in S : \A y \in S : x <= y
  <2>1. rows[k].season \in S
    BY <1>1
  <2>2. ASSUME NEW j \in 1 .. n PROVE rows[k].season <= rows[j].season
    BY <1>3
  <2>3. \A y \in S : rows[k].season <= y
    BY <1>1, <2>2
  <2> QED BY <2>1, <2>3
<1>6. \A y \in S : y \in Int
  BY <1>1
<1> HIDE DEF S
<1>7. Max(S) \in S /\ \A y \in S : Max(S) >= y
  BY <1>4 DEF Max
<1>8. Min(S) \in S /\ \A y \in S : Min(S) <= y
  BY <1>5 DEF Min
<1>9. \A y \in S : /\ y \in Int /\ Max(S) \in Int /\ Min(S) \in Int
                   /\ Min(S) <= y /\ y <= Max(S)
  BY <1>6, <1>7, <1>8
<1> QED BY <1>9 DEF S

\* Everything that the preflight finds of a dataset's sealed artifacts, in one place.
Admitted(s, at) ==
  \E claims, agreement :
    /\ RightsAllowUpload(claims, s.rights, agreement)
    /\ TrainingRowsBound(s.training, s.rows, s.seasons, claims)
    /\ TrainingProven(s, s.training, s.rows, s.seasons, s.rights, at)
    /\ EvaluationProven(s, claims.untouched, at)
    /\ TabularGate(s)

\* A file of rows is read as a list, with integer times and seasons.
WellFormed(s) ==
  /\ s.replay \in Seq(ToSet(s.replay))
  /\ s.rows \in Seq(ToSet(s.rows)) /\ s.evalRows \in Seq(ToSet(s.evalRows))
  /\ \A row \in ToSet(s.replay) : row.cutoff \in Int
  /\ \A r \in ToSet(s.resolutions) : r.resolvedAt \in Int /\ r.source.available \in Int
  /\ \A row \in ToSet(s.rows) \cup ToSet(s.evalRows) : row.season \in Int

LEMMA SameIds ==
  ASSUME NEW rows, NEW others, Aligned(rows, others)
  PROVE  DOMAIN rows = DOMAIN others /\ \A k \in DOMAIN rows : rows[k].id = others[k].id
<1>1. DOMAIN Ids(rows) = DOMAIN rows /\ \A k \in DOMAIN rows : Ids(rows)[k] = rows[k].id
  BY DEF Ids
<1>2. DOMAIN Ids(others) = DOMAIN others /\ \A k \in DOMAIN others : Ids(others)[k] = others[k].id
  BY DEF Ids
<1> QED BY <1>1, <1>2 DEF Aligned

\* The games of the training files, one by one.
LEMMA TrainingGames ==
  ASSUME NEW s, NEW training, NEW rows, NEW seasons, NEW rights, NEW at,
         TrainingProven(s, training, rows, seasons, rights, at)
  PROVE  /\ DOMAIN s.bundles = DOMAIN rows /\ DOMAIN s.replay = DOMAIN rows
         /\ DOMAIN s.states = DOMAIN rows /\ DOMAIN s.resolutions = DOMAIN rows
<1>1. /\ Aligned(s.bundles, rows) /\ Aligned(s.replay, s.bundles) /\ Aligned(s.states, rows)
      /\ Aligned(rows, s.resolutions)
  BY DEF TrainingProven, RowsFromBundles, ReplayMatchesTraining, StatesMatchRows, CanFit
<1> QED BY <1>1, SameIds

\* Every result in a row's prior is claimed by a sealed resolution known at its cutoff.
LEMMA AdmittedPriors ==
  ASSUME NEW s, NEW at, WellFormed(s),
         TrainingProven(s, s.training, s.rows, s.seasons, s.rights, at),
         NEW k \in DOMAIN s.rows
  PROVE  PriorsKnown(s, s.rows[k])
<1> DEFINE replay == s.replay
           res == s.resolutions
           Of(j) == ResolutionOf(replay[j], res)
<1>1. PICK n \in Nat : DOMAIN replay = 1 .. n
  BY DEF WellFormed
<1>2. k \in 1 .. n
  BY <1>1, TrainingGames
<1>3. \A i \in 1 .. n : replay[i].cutoff \in Int
  BY <1>1 DEF WellFormed, ToSet
<1>4. \A i \in 1 .. n : Of(i) \in ToSet(res) /\ Of(i).id = replay[i].id
  <2>1. ToSet(Ids(replay)) = ToSet(Ids(res))
    BY DEF TrainingProven, ReplayAccepted, ResolutionsAligned
  <2>2. ASSUME NEW i \in 1 .. n PROVE \E r \in ToSet(res) : r.id = replay[i].id
    <3>1. replay[i].id \in ToSet(Ids(replay))
      BY <1>1 DEF ToSet, Ids
    <3>2. PICK j \in DOMAIN res : replay[i].id = res[j].id
      BY <2>1, <3>1 DEF ToSet, Ids
    <3> QED BY <3>2 DEF ToSet
  <2> QED BY <2>2 DEF ResolutionOf
<1>5. \A i \in 1 .. n : Of(i).resolvedAt \in Int /\ Of(i).source.available \in Int
  BY <1>4 DEF WellFormed
<1>6. \A i, j \in 1 .. n : i < j => replay[i].cutoff <= replay[j].cutoff
  BY <1>1 DEF TrainingProven, ReplayAccepted, ReplayLoads, ReplayRows
<1>7. ASSUME NEW r \in ToSet(res)
      PROVE  r.source \in s.pack /\ r.source.available <= r.resolvedAt
  <2>1. PICK j \in DOMAIN res : r = res[j]
    BY DEF ToSet
  <2>2. LatestEligible(s.pack, r.source.source, r.resolvedAt) = {r.source}
    BY <2>1 DEF TrainingProven, ResolutionsBound
  <2> QED BY <2>2 DEF LatestEligible
<1>8. /\ s.rows[k].prior.results = Priors(replay, res)[k]
      /\ replay[k].cutoff = s.rows[k].cutoff
  <2>1. s.states[k] = StateOf(replay[k], Priors(replay, res)[k], FrozenRecipe)
    BY <1>1, <1>2 DEF TrainingProven, ReplayAccepted, ReplayedStates
  <2>2. s.states[k].prior = s.rows[k].prior
    BY DEF TrainingProven, StatesMatchRows
  <2>3. replay[k].cutoff = s.bundles[k].cutoff /\ s.rows[k].cutoff = s.bundles[k].cutoff
    BY <1>1, <1>2 DEF TrainingProven, ReplayMatchesTraining, RowsFromBundles
  <2> QED BY <2>1, <2>2, <2>3 DEF StateOf, TeamProbability
<1>9. ASSUME NEW result \in Priors(replay, res)[k]
      PROVE  \E r \in ToSet(res) : /\ r.id = result.id /\ TeamWon(r) = result.won
                                   /\ r.source \in s.pack /\ r.source.available <= replay[k].cutoff
  <2>1. PICK j \in 1 .. n : result = ResultOf(replay[j], res) /\ Of(j).resolvedAt <= replay[k].cutoff
    BY <1>1, <1>2, <1>3, <1>5, <1>6, PriorsKnowable
  <2>2. Of(j).id = result.id /\ TeamWon(Of(j)) = result.won
    BY <1>4, <2>1 DEF ResultOf
  <2>3. Of(j).source \in s.pack /\ Of(j).source.available <= replay[k].cutoff
    BY <1>2, <1>3, <1>4, <1>5, <1>7, <2>1
  <2> QED BY <1>4, <2>2, <2>3
<1> QED BY <1>8, <1>9 DEF PriorsKnown

\* A row's evidence, prompt and label are those of the files they are drawn from.
LEMMA AdmittedRows ==
  ASSUME NEW s, NEW at, Admitted(s, at), WellFormed(s), NEW k \in DOMAIN s.rows
  PROVE  /\ PriorsKnown(s, s.rows[k]) /\ EvidenceCurrent(s, s.rows[k])
         /\ s.training[2 * k - 1].prompt = Prompt(s.rows[k], FALSE)
         /\ s.training[2 * k - 1].label = Label(TeamWon(s.resolutions[k]))
         /\ s.resolutions[k].resolvedAt > s.rows[k].tipoff
         /\ HealthFree(s.rows[k].bundle)
<1>1. PICK claims : /\ TrainingRowsBound(s.training, s.rows, s.seasons, claims)
                    /\ TrainingProven(s, s.training, s.rows, s.seasons, s.rights, at)
  BY DEF Admitted
<1>2. k \in DOMAIN s.bundles /\ k \in DOMAIN s.resolutions
  BY <1>1, TrainingGames
<1>3. /\ s.rows[k].bundle = s.bundles[k] /\ s.rows[k].cutoff = s.bundles[k].cutoff
      /\ HealthFree(s.bundles[k])
  BY <1>1 DEF TrainingProven, RowsFromBundles, TinkerFeatures
<1>4. \A source \in s.bundles[k].sources :
        LatestEligible(s.pack, source.source, s.bundles[k].cutoff) = {source}
  BY <1>1, <1>2 DEF TrainingProven, BundlesBound, SourcesLatest
<1>5. EvidenceCurrent(s, s.rows[k])
  <2> SUFFICES ASSUME NEW source \in s.bundles[k].sources
               PROVE  /\ source \in s.pack /\ source.available <= s.bundles[k].cutoff
                      /\ \A o \in s.pack : o.source = source.source
                           /\ o.available <= s.bundles[k].cutoff => ~KnownLater(o, source)
    BY <1>3 DEF EvidenceCurrent
  <2> QED BY <1>4 DEF LatestEligible
<1>6. s.training[2 * k - 1].prompt = Prompt(s.rows[k], FALSE)
  BY <1>1 DEF TrainingRowsBound, PromptsMatchRows
<1>7. s.training[2 * k - 1].label = Label(TeamWon(s.resolutions[k]))
  BY <1>1, <1>2 DEF TrainingProven, LabelsFromScores
<1>8. s.resolutions[k].resolvedAt > s.rows[k].tipoff
  BY <1>1 DEF TrainingProven, CanFit
<1> QED BY <1>1, <1>3, <1>5, <1>6, <1>7, <1>8, AdmittedPriors

\* The seasons of the cohort are those of the rows that the forecasts are made from.
LEMMA CohortSeasons ==
  ASSUME NEW s, NEW untouched, NEW at, EvaluationProven(s, untouched, at)
  PROVE  SeasonsOf(s.cohort) = SeasonsOf(s.evalRows)
<1>1. Aligned(s.cohort, s.evalRows) /\ \A i \in DOMAIN s.cohort : s.cohort[i].season = s.evalRows[i].season
  BY DEF EvaluationProven, EvaluationAligned
<1>2. DOMAIN s.cohort = DOMAIN s.evalRows
  BY <1>1, SameIds
<1> QED BY <1>1, <1>2 DEF SeasonsOf

\* The baseline knows the trained rows and nothing of the seasons it is evaluated on.
LEMMA AdmittedEvaluation ==
  ASSUME NEW s, NEW at, Admitted(s, at), WellFormed(s)
  PROVE  /\ Cardinality(SeasonsOf(s.cohort)) >= 2
         /\ \A early \in SeasonsOf(s.rows), late \in SeasonsOf(s.cohort) : early < late
         /\ \A k \in DOMAIN s.forecasts :
              /\ s.forecasts[k].by = FitBaseline(s.rows, s.resolutions).pairs
              /\ s.forecasts[k].value = s.evalRows[k].signal
              /\ s.forecasts[k].id = s.answers[k].id
         /\ \A season \in SeasonsOf(s.cohort), baseline \in Baselines :
              SeasonWon(s.forecasts, s.cohort, season, baseline)
<1>1. PICK untouched : /\ TrainingProven(s, s.training, s.rows, s.seasons, s.rights, at)
                       /\ EvaluationProven(s, untouched, at) /\ TabularGate(s)
  BY DEF Admitted
<1>2. /\ EvaluationCohort(s.cohort, 2) /\ ExactIds(s.cohort, s.answers)
      /\ ExactIds(s.cohort, s.forecasts)
      /\ \A baseline \in Baselines : PassesEverySeason(s.forecasts, s.cohort, baseline)
  BY <1>1 DEF TabularGate, GatePasses
<1>3. s.model = FitBaseline(s.rows, s.resolutions)
  BY <1>1 DEF TrainingProven
<1>4. ForecastsReplayed(s.model, s.evalRows, s.forecasts, s.forecastLock)
  BY <1>1 DEF EvaluationProven
<1>5. ASSUME NEW early \in SeasonsOf(s.rows), NEW late \in SeasonsOf(s.cohort) PROVE early < late
  <2>1. Max(SeasonsOf(s.rows)) < Min(SeasonsOf(s.evalRows))
    BY <1>3, <1>4 DEF ForecastsReplayed, CanPredict, FitBaseline
  <2>2. late \in SeasonsOf(s.evalRows)
    BY <1>1, CohortSeasons
  <2>3. PICK n \in Nat : DOMAIN s.rows = 1 .. n
    BY DEF WellFormed
  <2>4. PICK m \in Nat : DOMAIN s.evalRows = 1 .. m
    BY DEF WellFormed
  <2>5. n # 0 /\ m # 0
    BY <2>2, <2>3, <2>4 DEF SeasonsOf
  <2>6. /\ \A i \in 1 .. n : s.rows[i].season \in Int
        /\ \A i \in 1 .. m : s.evalRows[i].season \in Int
    BY <2>3, <2>4 DEF WellFormed, ToSet
  <2>7. early \in Int /\ Max(SeasonsOf(s.rows)) \in Int /\ early <= Max(SeasonsOf(s.rows))
    BY <2>3, <2>5, <2>6, SeasonsBetween
  <2>8. late \in Int /\ Min(SeasonsOf(s.evalRows)) \in Int /\ Min(SeasonsOf(s.evalRows)) <= late
    BY <2>2, <2>4, <2>5, <2>6, SeasonsBetween
  <2> QED BY <2>1, <2>7, <2>8
<1>6. ASSUME NEW k \in DOMAIN s.forecasts
      PROVE  /\ s.forecasts[k].by = FitBaseline(s.rows, s.resolutions).pairs
             /\ s.forecasts[k].value = s.evalRows[k].signal
             /\ s.forecasts[k].id = s.answers[k].id
  <2>1. s.forecasts = PredictBaseline(s.model, s.evalRows)
    BY <1>4 DEF ForecastsReplayed
  <2>2. k \in DOMAIN s.evalRows /\ s.forecasts[k] = BaselineForecast(s.model, s.evalRows[k])
    BY <2>1 DEF PredictBaseline
  <2>3. Aligned(s.forecasts, s.answers)
    BY <1>2 DEF ExactIds, Aligned
  <2>4. s.forecasts[k].id = s.answers[k].id
    BY <2>3, SameIds
  <2> QED BY <1>3, <2>2, <2>4 DEF BaselineForecast
<1> QED BY <1>2, <1>5, <1>6 DEF EvaluationCohort, PassesEverySeason

LEMMA AdmittedRights ==
  ASSUME NEW s, NEW at, Admitted(s, at)
  PROVE  s.rights.permission = "allowed" /\ RightsCover(s.pack, s.rights, at)
BY DEF Admitted, RightsAllowUpload, ReviewedRights, TrainingProven

-----------------------------------------------------------------------------
(* What was validated is what is sealed, if no artifact is ever restored.  *)

\* Every edit of a sealed artifact makes it newer: a digest that is gone does not come back.
NothingRestored(Age) ==
  \A a \in Sealed : files'[a] # files[a] => Age[a][files[a]] < Age[a][files'[a]]

Seen(i) == Read(inv[i].seen)

\* The training rows, if the files are still those that were hashed.
RowsChecked(i) ==
  LET claims == Claims(inv[i].manifest) IN
  /\ \E agreement : RightsAllowUpload(claims, Seen(i).rights, agreement)
  /\ TrainingRowsBound(Seen(i).training, Seen(i).rows, Seen(i).seasons, claims)
  /\ SameBytes(inv[i].rows, inv[i].seen, Sealed)

\* The rest of the preflight, likewise.
ProvenanceChecked(i) ==
  /\ TrainingProven(Seen(i), Seen(i).training, Seen(i).rows, Seen(i).seasons, Seen(i).rights,
                    inv[i].at)
  /\ EvaluationProven(Seen(i), Claims(inv[i].manifest).untouched, inv[i].at)
  /\ TabularGate(Seen(i))

\* A file that differs from what was hashed is newer, so that it never equals it again.
Newer(Age, i) ==
  \A a \in Sealed : files[a] = inv[i].seen[a] \/ Age[a][inv[i].seen[a]] < Age[a][files[a]]

Unedited(i) == SameBytes(files, inv[i].seen, Sealed)

\* What each invocation's checks are worth at each stage, and what its client was given.
EvidenceInv(Age, i) ==
  /\ inv[i].pc \in {"hashed", "rows", "proven", "reviewed"} => Newer(Age, i)
  /\ inv[i].pc \in {"rows", "proven", "reviewed"} =>
       inv[i].rows \in Stamps /\ (Unedited(i) => RowsChecked(i))
  /\ inv[i].pc \in {"proven", "reviewed"} => (Unedited(i) => ProvenanceChecked(i))
  /\ inv[i].pc \in {"prepared"} \cup Locks => Admitted(Seen(i), inv[i].at)
  /\ inv[i].pc \in Locks => inv[i].lock.sealed = inv[i].seen /\ inv[i].lock.at = inv[i].at
  /\ i \in Paid => /\ Admitted(Locked(i), clients[i].lock.at)
                   /\ clients[i].lock.sealed \in Stamps
                   /\ clients[i].training = clients[i].lock.sealed.training

LEMMA Ages ==
  ASSUME NEW Age \in [Artifacts -> [Builds -> Nat]], NEW a \in Sealed, NEW b \in Builds
  PROVE  Age[a][b] \in Nat
<1>1. a \in Artifacts
  BY DEF Artifacts
<1> QED BY <1>1

LEMMA ReadFields ==
  ASSUME NEW stamps \in Stamps
  PROVE  /\ \A a \in Artifacts : Read(stamps)[a] = Written[a][stamps[a]]
         /\ \A a \in Artifacts : Written[a][stamps[a]] = Dataset[stamps[a]][a]
<1>1. DOMAIN stamps = Artifacts /\ \A a \in Artifacts : stamps[a] \in Builds
  BY DEF Stamps
<1> QED BY <1>1 DEF Read, Written

LEMMA ReadSame ==
  ASSUME NEW stamps \in Stamps, NEW others \in Stamps, SameBytes(stamps, others, Sealed)
  PROVE  \A a \in Sealed : Read(stamps)[a] = Read(others)[a]
<1>1. Sealed \subseteq Artifacts
  BY DEF Artifacts
<1> QED BY <1>1, ReadFields DEF SameBytes

LEMMA ReadWellFormed ==
  ASSUME NEW stamps \in Stamps
  PROVE  WellFormed(Read(stamps))
<1>1. {"replay", "rows", "evalRows", "resolutions"} \subseteq Artifacts
  BY DEF Artifacts, Sealed
<1>2. /\ stamps["replay"] \in Builds /\ stamps["rows"] \in Builds
      /\ stamps["evalRows"] \in Builds /\ stamps["resolutions"] \in Builds
  BY <1>1 DEF Stamps
<1>3. /\ Read(stamps).replay = Dataset[stamps["replay"]]["replay"]
      /\ Read(stamps).rows = Dataset[stamps["rows"]]["rows"]
      /\ Read(stamps).evalRows = Dataset[stamps["evalRows"]]["evalRows"]
      /\ Read(stamps).resolutions = Dataset[stamps["resolutions"]]["resolutions"]
  BY <1>1, ReadFields
<1> QED BY <1>2, <1>3, DatasetAssumption DEF WellFormed

\* What the checks say of a dataset depends on the sealed artifacts alone.
LEMMA ChecksSeeSealed ==
  ASSUME NEW s, NEW o, \A a \in Sealed : s[a] = o[a],
         NEW training, NEW rows, NEW seasons, NEW rights, NEW untouched, NEW at
  PROVE  /\ TrainingProven(s, training, rows, seasons, rights, at)
              => TrainingProven(o, training, rows, seasons, rights, at)
         /\ EvaluationProven(s, untouched, at) => EvaluationProven(o, untouched, at)
         /\ TabularGate(s) => TabularGate(o)
<1>1. /\ s.pack = o.pack /\ s.bundles = o.bundles /\ s.states = o.states
      /\ s.replay = o.replay /\ s.resolutions = o.resolutions /\ s.model = o.model
      /\ s.calibration = o.calibration
  BY DEF Sealed
<1>2. /\ s.evalRows = o.evalRows /\ s.evalReplay = o.evalReplay
      /\ s.evalStates = o.evalStates /\ s.evalResolutions = o.evalResolutions
      /\ s.cohort = o.cohort /\ s.answers = o.answers /\ s.forecasts = o.forecasts
      /\ s.forecastLock = o.forecastLock /\ s.report = o.report
  BY DEF Sealed
<1>3. TrainingProven(s, training, rows, seasons, rights, at)
        => TrainingProven(o, training, rows, seasons, rights, at)
  BY <1>1 DEF TrainingProven
<1>4. EvaluationProven(s, untouched, at) => EvaluationProven(o, untouched, at)
  BY <1>1, <1>2 DEF EvaluationProven
<1>5. TabularGate(s) => TabularGate(o)
  BY <1>1, <1>2 DEF TabularGate
<1> QED BY <1>3, <1>4, <1>5

\* The files an invocation hashed are edited or not, and what is edited stays so.
LEMMA EditsStay ==
  ASSUME NEW Age \in [Artifacts -> [Builds -> Nat]], IInv, NothingRestored(Age),
         files' \in Stamps, NEW i \in Invocations, inv[i].pc \in Hashed, Newer(Age, i)
  PROVE  /\ \A a \in Sealed : \/ files'[a] = inv[i].seen[a]
                              \/ Age[a][inv[i].seen[a]] < Age[a][files'[a]]
         /\ SameBytes(files', inv[i].seen, Sealed) => Unedited(i)
<1>1. files \in Stamps /\ inv[i].seen \in Stamps /\ Sealed \subseteq Artifacts
  BY DEF IInv, TrainingTypeOK, InvocationOK, Artifacts
<1>2. ASSUME NEW a \in Sealed
      PROVE  /\ files'[a] = inv[i].seen[a] \/ Age[a][inv[i].seen[a]] < Age[a][files'[a]]
             /\ files'[a] = inv[i].seen[a] => files[a] = inv[i].seen[a]
  <2>1. files[a] \in Builds /\ files'[a] \in Builds /\ inv[i].seen[a] \in Builds
    BY <1>1 DEF Stamps
  <2>2. /\ Age[a][files[a]] \in Nat /\ Age[a][files'[a]] \in Nat
        /\ Age[a][inv[i].seen[a]] \in Nat
    BY <2>1, Ages
  <2>3. files'[a] = files[a] \/ Age[a][files[a]] < Age[a][files'[a]]
    BY DEF NothingRestored
  <2>4. files[a] = inv[i].seen[a] \/ Age[a][inv[i].seen[a]] < Age[a][files[a]]
    BY DEF Newer
  <2> QED BY <2>2, <2>3, <2>4
<1> QED BY <1>2 DEF SameBytes, Unedited

\* What a step of others, or of the operator, leaves true of an invocation.
LEMMA EvidenceKept ==
  ASSUME NEW Age \in [Artifacts -> [Builds -> Nat]], IInv, IInv', NothingRestored(Age),
         NEW i \in Invocations, EvidenceInv(Age, i), inv'[i] = inv[i], clients'[i] = clients[i]
  PROVE  EvidenceInv(Age, i)'
<1>1. files' \in Stamps /\ {"hashed", "rows", "proven", "reviewed"} \subseteq Hashed
  BY DEF IInv, TrainingTypeOK, Hashed, Timed
<1>2. (i \in Paid)' <=> i \in Paid
  BY DEF Paid
<1>3. ASSUME inv[i].pc \in {"hashed", "rows", "proven", "reviewed"}
      PROVE  /\ \A a \in Sealed : \/ files'[a] = inv[i].seen[a]
                                  \/ Age[a][inv[i].seen[a]] < Age[a][files'[a]]
             /\ SameBytes(files', inv[i].seen, Sealed) => Unedited(i)
  BY <1>1, <1>3, EditsStay DEF EvidenceInv
<1>4. inv[i].pc \in {"hashed", "rows", "proven", "reviewed"} => Newer(Age, i)'
  BY <1>3 DEF Newer
<1>5. inv[i].pc \in {"hashed", "rows", "proven", "reviewed"} => (Unedited(i)' => Unedited(i))
  BY <1>3 DEF Unedited
<1>6. /\ RowsChecked(i) => RowsChecked(i)'
      /\ ProvenanceChecked(i) => ProvenanceChecked(i)'
      /\ Seen(i)' = Seen(i) /\ Locked(i)' = Locked(i)
  BY DEF RowsChecked, ProvenanceChecked, Seen, Locked
<1> QED BY <1>2, <1>4, <1>5, <1>6 DEF EvidenceInv

\* Before the hashes, and when it has ended, an invocation's checks are worth nothing.
LEMMA NothingChecked ==
  ASSUME NEW Age, NEW i \in Invocations, EvidenceInv(Age, i), clients'[i] = clients[i],
         inv'[i].pc \in {"unused", "published", "manifest"} \cup Over
  PROVE  EvidenceInv(Age, i)'
<1>1. inv'[i].pc \notin {"hashed", "rows", "proven", "reviewed", "prepared"} \cup Locks
  BY DEF Over, Locks, Paying
<1>2. ((i \in Paid)' <=> i \in Paid) /\ Locked(i)' = Locked(i)
  BY DEF Paid, Locked
<1> QED BY <1>1, <1>2 DEF EvidenceInv

LEMMA RefusedEvidence ==
  ASSUME NEW Age, IInv, NEW i \in Invocations, EvidenceInv(Age, i), clients'[i] = clients[i],
         NEW end \in Over, Advance(i, [pc |-> end])
  PROVE  EvidenceInv(Age, i)'
BY RefuseMoves, NothingChecked

LEMMA BeganEvidence ==
  ASSUME NEW Age, IInv, NEW i \in Invocations, EvidenceInv(Age, i),
         RequireUnused(i) \/ RequirePublishedHead(i) \/ ReadManifest(i)
  PROVE  EvidenceInv(Age, i)'
<1>1. clients' = clients
  BY DEF RequireUnused, RequirePublishedHead, ReadManifest, Outputs
<1>2. PICK changes : /\ Advance(i, changes) /\ "pc" \in DOMAIN changes
                     /\ changes["pc"] \in {"unused", "published", "manifest"} \cup Over
  BY DEF RequireUnused, RequirePublishedHead, ReadManifest, Require, Refuse, Over
<1>3. inv'[i].pc \in {"unused", "published", "manifest"} \cup Over
  BY <1>2, AdvanceMoves, IdleFields
<1> QED BY <1>1, <1>3, NothingChecked

\* Nothing is checked of an invocation that has just hashed the files as they are.
LEMMA HashedEvidence ==
  ASSUME NEW Age, IInv, NEW i \in Invocations, EvidenceInv(Age, i), HashArtifacts(i)
  PROVE  EvidenceInv(Age, i)'
<1>1. clients' = clients /\ files' = files
  BY DEF HashArtifacts, Outputs, World
<1>2. CASE Refuse(i)
  BY <1>1, <1>2, RefusedEvidence DEF Refuse, Over
<1>3. CASE Advance(i, [pc |-> "hashed", seen |-> files])
  <2>1. inv'[i].pc = "hashed" /\ inv'[i].seen = files
    BY <1>3, AdvanceMoves, IdleFields
  <2>2. Newer(Age, i)'
    BY <1>1, <2>1 DEF Newer
  <2>3. ((i \in Paid)' <=> i \in Paid) /\ Locked(i)' = Locked(i)
    BY <1>1 DEF Paid, Locked
  <2>4. "hashed" \notin {"rows", "proven", "reviewed", "prepared"} \cup Locks
    BY DEF Locks, Paying
  <2> QED BY <1>1, <2>1, <2>2, <2>3, <2>4 DEF EvidenceInv
<1> QED BY <1>2, <1>3 DEF HashArtifacts, Require

\* The rows, the seasons and the rights are those hashed, if those are the files now.
LEMMA CheckedEvidence ==
  ASSUME NEW Age, IInv, NEW i \in Invocations, EvidenceInv(Age, i), CheckTrainingRows(i)
  PROVE  EvidenceInv(Age, i)'
<1>1. inv[i].pc = "hashed" /\ clients' = clients /\ files' = files
  BY DEF CheckTrainingRows, Outputs, World
<1>2. CASE Refuse(i)
  BY <1>1, <1>2, RefusedEvidence DEF Refuse, Over
<1>3. CASE ~Refuse(i)
  <2> DEFINE claims == Claims(inv[i].manifest)
  <2>1. PICK at \in ActionTimes :
          /\ RightsAllowUpload(claims, Read(files).rights, Read(files).agreement)
          /\ TrainingRowsBound(Training(i), Read(files).rows, Read(files).seasons, claims)
          /\ Advance(i, [pc |-> "rows", at |-> at, rows |-> files])
    BY <1>3 DEF CheckTrainingRows, Require
  <2>2. /\ inv'[i].pc = "rows" /\ inv'[i].rows = files /\ inv'[i].seen = inv[i].seen
        /\ inv'[i].manifest = inv[i].manifest
    BY <2>1, AdvanceMoves, IdleFields
  <2>3. files \in Stamps /\ inv[i].seen \in Stamps
    BY <1>1 DEF IInv, TrainingTypeOK, InvocationOK, Hashed
  <2>4. ASSUME Unedited(i) PROVE RowsChecked(i)'
    <3>1. {"rights", "rows", "seasons", "training"} \subseteq Sealed
      BY DEF Sealed
    <3>2. \A a \in Sealed : Read(files)[a] = Read(inv[i].seen)[a]
      BY <2>3, <2>4, ReadSame DEF Unedited
    <3>3. /\ Read(files).rights = Seen(i).rights /\ Read(files).rows = Seen(i).rows
          /\ Read(files).seasons = Seen(i).seasons
      BY <3>1, <3>2 DEF Seen
    <3>4. Training(i) = Seen(i).training
      BY <2>3, <3>1, ReadFields DEF Seen, Training, Artifacts
    <3>5. /\ RightsAllowUpload(claims, Seen(i).rights, Read(files).agreement)
          /\ TrainingRowsBound(Seen(i).training, Seen(i).rows, Seen(i).seasons, claims)
      BY <2>1, <3>3, <3>4
    <3> QED BY <2>2, <2>4, <3>5 DEF RowsChecked, Seen, Unedited
  <2>5. Newer(Age, i)' /\ (Unedited(i)' <=> Unedited(i))
    BY <1>1, <2>2 DEF EvidenceInv, Newer, Unedited
  <2>6. ((i \in Paid)' <=> i \in Paid) /\ Locked(i)' = Locked(i)
    BY <1>1 DEF Paid, Locked
  <2>7. "rows" \notin {"proven", "reviewed", "prepared"} \cup Locks
    BY DEF Locks, Paying
  <2> QED BY <1>1, <2>2, <2>3, <2>4, <2>5, <2>6, <2>7 DEF EvidenceInv
<1> QED BY <1>2, <1>3

\* So is everything else, which is read by path once more.
LEMMA ProvenEvidence ==
  ASSUME NEW Age, IInv, NEW i \in Invocations, EvidenceInv(Age, i), CompleteProvenance(i)
  PROVE  EvidenceInv(Age, i)'
<1>1. inv[i].pc = "rows" /\ clients' = clients /\ files' = files
  BY DEF CompleteProvenance, Outputs, World
<1>2. CASE Refuse(i)
  BY <1>1, <1>2, RefusedEvidence DEF Refuse, Over
<1>3. CASE ~Refuse(i)
  <2> DEFINE untouched == Claims(inv[i].manifest).untouched
             kept == Read(inv[i].rows)
  <2>1. /\ TrainingProven(Read(files), Training(i), kept.rows, kept.seasons, kept.rights, inv[i].at)
        /\ EvaluationProven(Read(files), untouched, inv[i].at) /\ TabularGate(Read(files))
        /\ Advance(i, [pc |-> "proven"])
    BY <1>3 DEF CompleteProvenance, Require
  <2>2. /\ inv'[i].pc = "proven" /\ inv'[i].rows = inv[i].rows /\ inv'[i].seen = inv[i].seen
        /\ inv'[i].manifest = inv[i].manifest /\ inv'[i].at = inv[i].at
    BY <2>1, AdvanceMoves, IdleFields
  <2>3. files \in Stamps /\ inv[i].seen \in Stamps /\ inv[i].rows \in Stamps
    BY <1>1 DEF IInv, TrainingTypeOK, InvocationOK, Hashed, Timed, EvidenceInv
  <2>4. ASSUME Unedited(i) PROVE RowsChecked(i)' /\ ProvenanceChecked(i)'
    <3>1. {"rights", "rows", "seasons", "training"} \subseteq Sealed /\ Sealed \subseteq Artifacts
      BY DEF Sealed, Artifacts
    <3>2. RowsChecked(i)
      BY <1>1, <2>4 DEF EvidenceInv
    <3>3. \A a \in Sealed : Read(files)[a] = Seen(i)[a] /\ kept[a] = Seen(i)[a]
      BY <2>3, <2>4, <3>2, ReadSame DEF Unedited, RowsChecked, Seen
    <3>4. /\ kept.rights = Seen(i).rights /\ kept.rows = Seen(i).rows
          /\ kept.seasons = Seen(i).seasons
      BY <3>1, <3>3
    <3>5. Training(i) = Seen(i).training
      BY <2>3, <3>1, ReadFields DEF Seen, Training
    <3>6. TrainingProven(Read(files), Seen(i).training, Seen(i).rows, Seen(i).seasons,
                         Seen(i).rights, inv[i].at)
      BY <2>1, <3>4, <3>5
    <3>7. ProvenanceChecked(i)
      BY <2>1, <3>3, <3>6, ChecksSeeSealed DEF ProvenanceChecked
    <3> QED BY <2>2, <3>2, <3>7 DEF RowsChecked, ProvenanceChecked, Seen
  <2>5. Newer(Age, i)' /\ (Unedited(i)' <=> Unedited(i))
    BY <1>1, <2>2 DEF EvidenceInv, Newer, Unedited
  <2>6. ((i \in Paid)' <=> i \in Paid) /\ Locked(i)' = Locked(i)
    BY <1>1 DEF Paid, Locked
  <2>7. "proven" \notin {"prepared"} \cup Locks
    BY DEF Locks, Paying
  <2> QED BY <1>1, <2>2, <2>3, <2>4, <2>5, <2>6, <2>7 DEF EvidenceInv
<1> QED BY <1>2, <1>3

\* The review looks at none of the files.
LEMMA ReviewedEvidence ==
  ASSUME NEW Age, IInv, NEW i \in Invocations, EvidenceInv(Age, i), RequireReviewed(i)
  PROVE  EvidenceInv(Age, i)'
<1>1. inv[i].pc = "proven" /\ clients' = clients /\ files' = files
  BY DEF RequireReviewed, Outputs, World
<1>2. CASE Advance(i, [pc |-> "unreviewed"])
  BY <1>1, <1>2, RefusedEvidence DEF Over
<1>3. CASE Advance(i, [pc |-> "reviewed"])
  <2>1. /\ inv'[i].pc = "reviewed" /\ inv'[i].rows = inv[i].rows /\ inv'[i].seen = inv[i].seen
        /\ inv'[i].manifest = inv[i].manifest /\ inv'[i].at = inv[i].at
    BY <1>3, AdvanceMoves, IdleFields
  <2>2. Newer(Age, i)' /\ (Unedited(i)' <=> Unedited(i))
    BY <1>1, <2>1 DEF EvidenceInv, Newer, Unedited
  <2>3. RowsChecked(i)' = RowsChecked(i) /\ ProvenanceChecked(i)' = ProvenanceChecked(i)
    BY <2>1 DEF RowsChecked, ProvenanceChecked, Seen
  <2>4. ((i \in Paid)' <=> i \in Paid) /\ Locked(i)' = Locked(i)
    BY <1>1 DEF Paid, Locked
  <2>5. "reviewed" \notin {"prepared"} \cup Locks
    BY DEF Locks, Paying
  <2> QED BY <1>1, <2>1, <2>2, <2>3, <2>4, <2>5 DEF EvidenceInv
<1> QED BY <1>2, <1>3 DEF RequireReviewed

\* The second hashes find the files unedited, so that what was checked is what was hashed.
LEMMA PreparedEvidence ==
  ASSUME NEW Age, IInv, NEW i \in Invocations, EvidenceInv(Age, i), HashAgain(i)
  PROVE  EvidenceInv(Age, i)'
<1>1. inv[i].pc = "reviewed" /\ clients' = clients /\ files' = files
  BY DEF HashAgain, Outputs, World
<1>2. CASE Refuse(i)
  BY <1>1, <1>2, RefusedEvidence DEF Refuse, Over
<1>3. CASE UnchangedSince(i) /\ Advance(i, [pc |-> "prepared"])
  <2>1. inv'[i].pc = "prepared" /\ inv'[i].seen = inv[i].seen /\ inv'[i].at = inv[i].at
    BY <1>3, AdvanceMoves, IdleFields
  <2>2. Unedited(i)
    BY <1>3 DEF UnchangedSince, Unedited
  <2>3. RowsChecked(i) /\ ProvenanceChecked(i)
    BY <1>1, <2>2 DEF EvidenceInv
  <2>4. Admitted(Seen(i), inv[i].at)
    BY <2>3 DEF RowsChecked, ProvenanceChecked, Admitted
  <2>5. Admitted(Seen(i), inv[i].at)'
    BY <2>1, <2>4 DEF Seen
  <2>6. ((i \in Paid)' <=> i \in Paid) /\ Locked(i)' = Locked(i)
    BY <1>1 DEF Paid, Locked
  <2>7. "prepared" \notin {"hashed", "rows", "proven", "reviewed"} \cup Locks
    BY DEF Locks, Paying
  <2> QED BY <1>1, <2>1, <2>5, <2>6, <2>7 DEF EvidenceInv
<1> QED BY <1>2, <1>3 DEF HashAgain, Require

\* From the lock on, an invocation keeps what it sealed, and so does its client.
LEMMA SealedEvidence ==
  ASSUME NEW Age, NEW i \in Invocations, EvidenceInv(Age, i), inv[i].pc \in Locks,
         inv'[i].pc \in Locks, inv'[i].seen = inv[i].seen, inv'[i].at = inv[i].at,
         inv'[i].lock = inv[i].lock,
         clients'[i].lock = clients[i].lock, clients'[i].training = clients[i].training
  PROVE  EvidenceInv(Age, i)'
<1>1. inv'[i].pc \notin {"hashed", "rows", "proven", "reviewed"}
  BY DEF Locks, Paying
<1>2. ((i \in Paid)' <=> i \in Paid) /\ Locked(i)' = Locked(i) /\ Seen(i)' = Seen(i)
  BY DEF Paid, Locked, Seen
<1> QED BY <1>1, <1>2 DEF EvidenceInv

\* The lock says what was validated and when.
LEMMA LockEvidence ==
  ASSUME NEW Age, IInv, NEW i \in Invocations, EvidenceInv(Age, i), CreateLock(i)
  PROVE  EvidenceInv(Age, i)'
<1>1. inv[i].pc = "prepared" /\ clients' = clients
  BY DEF CreateLock
<1>2. CASE Refuse(i)
  BY <1>1, <1>2, RefusedEvidence DEF Refuse, Over
<1>3. CASE Advance(i, [pc |-> "locking", lock |-> RunLock(i)])
  <2>1. /\ inv'[i].pc = "locking" /\ inv'[i].seen = inv[i].seen /\ inv'[i].at = inv[i].at
        /\ inv'[i].lock = RunLock(i)
    BY <1>3, AdvanceMoves, IdleFields
  <2>2. RunLock(i).sealed = inv[i].seen /\ RunLock(i).at = inv[i].at
    BY DEF RunLock
  <2>3. Admitted(Seen(i), inv[i].at)'
    BY <1>1, <2>1 DEF EvidenceInv, Seen
  <2>4. ((i \in Paid)' <=> i \in Paid) /\ Locked(i)' = Locked(i)
    BY <1>1 DEF Paid, Locked
  <2>5. "locking" \notin {"hashed", "rows", "proven", "reviewed"}
    OBVIOUS
  <2> QED BY <1>1, <2>1, <2>2, <2>3, <2>4, <2>5 DEF EvidenceInv
<1> QED BY <1>2, <1>3 DEF CreateLock

LEMMA VerifiedEvidence ==
  ASSUME NEW Age, IInv, NEW i \in Invocations, EvidenceInv(Age, i),
         WriteLock(i) \/ VerifyLock(i) \/ LoadRuntime(i) \/ VerifyUnchanged(i)
  PROVE  EvidenceInv(Age, i)'
<1>1. clients' = clients /\ inv[i].pc \in Locks
  BY DEF WriteLock, VerifyLock, LoadRuntime, VerifyUnchanged, Outputs, Locks
<1>2. PICK changes : /\ Advance(i, changes)
                     /\ \/ DOMAIN changes \subseteq {"pc", "runtime"} /\ "pc" \in DOMAIN changes
                           /\ changes["pc"] \in {"locked", "verified", "loaded", "ready"}
                        \/ changes = [pc |-> "refused"]
  <2>1. CASE WriteLock(i) \/ VerifyLock(i) \/ VerifyUnchanged(i)
    BY <2>1 DEF WriteLock, VerifyLock, VerifyUnchanged, Require, Refuse
  <2>2. CASE LoadRuntime(i)
    <3>1. Advance(i, [pc |-> "loaded", runtime |-> code])
      BY <2>2 DEF LoadRuntime
    <3>2. /\ DOMAIN [pc |-> "loaded", runtime |-> code] = {"pc", "runtime"}
          /\ [pc |-> "loaded", runtime |-> code]["pc"] = "loaded"
      OBVIOUS
    <3> QED BY <3>1, <3>2
  <2> QED BY <2>1, <2>2
<1>3. CASE changes = [pc |-> "refused"]
  BY <1>1, <1>2, <1>3, RefusedEvidence DEF Over
<1>4. CASE /\ DOMAIN changes \subseteq {"pc", "runtime"} /\ "pc" \in DOMAIN changes
           /\ changes["pc"] \in {"locked", "verified", "loaded", "ready"}
  <2>1. /\ inv'[i].pc \in {"locked", "verified", "loaded", "ready"}
        /\ inv'[i].seen = inv[i].seen /\ inv'[i].at = inv[i].at /\ inv'[i].lock = inv[i].lock
    BY <1>2, <1>4, AdvanceMoves, IdleFields
  <2>2. inv'[i].pc \in Locks
    BY <2>1 DEF Locks
  <2> QED BY <1>1, <2>1, <2>2, SealedEvidence
<1> QED BY <1>2, <1>3, <1>4

\* The client is given the lock and the captured training bytes that the lock seals.
LEMMA ClientEvidence ==
  ASSUME NEW Age, IInv, NEW i \in Invocations, EvidenceInv(Age, i), CreateClient(i)
  PROVE  EvidenceInv(Age, i)'
<1>1. /\ inv[i].pc = "ready" /\ Advance(i, [pc |-> "training"])
      /\ clients' = [clients EXCEPT ![i] = [clients[i] EXCEPT !.lock = inv[i].lock,
                         !.training = inv[i].seen.training, !.runtime = inv[i].runtime]]
  BY DEF CreateClient
<1>2. /\ inv'[i].pc = "training" /\ inv'[i].lock = inv[i].lock
      /\ inv'[i].seen = inv[i].seen /\ inv'[i].at = inv[i].at
  BY <1>1, AdvanceMoves, IdleFields
<1>3. clients[i] = NoClient /\ clients = [j \in Invocations |-> clients[j]]
  BY <1>1, StagesHeld DEF IInv, ClientInv, TrainingTypeOK
<1>4. clients'[i].lock = inv[i].lock /\ clients'[i].training = inv[i].seen.training
  BY <1>1, <1>3 DEF NoClient
<1>5. "ready" \in Locks /\ "training" \in Locks
  BY DEF Locks, Paying
<1>6. /\ Admitted(Seen(i), inv[i].at) /\ inv[i].seen \in Stamps
      /\ inv[i].lock.sealed = inv[i].seen /\ inv[i].lock.at = inv[i].at
  BY <1>1, <1>5, StageNames DEF EvidenceInv, IInv, TrainingTypeOK, InvocationOK
<1>7. Locked(i)' = Seen(i) /\ Seen(i)' = Seen(i)
  BY <1>2, <1>4, <1>6 DEF Locked, Seen
<1>8. "training" \notin {"hashed", "rows", "proven", "reviewed"}
  OBVIOUS
<1> QED BY <1>2, <1>4, <1>5, <1>6, <1>7, <1>8 DEF EvidenceInv

LEMMA PaidEvidence ==
  ASSUME NEW Age, IInv, NEW i \in Invocations, EvidenceInv(Age, i),
         TrainBatch(i) \/ SaveFinalPaths(i)
  PROVE  EvidenceInv(Age, i)'
<1>1. /\ inv[i].pc = "training" /\ inv[i].pc \in Locks /\ "trained" \in Locks
      /\ inv' = inv \/ Advance(i, [pc |-> "trained"])
  BY DEF TrainBatch, SaveFinalPaths, Locks, Paying
<1>2. /\ inv'[i].pc \in Locks /\ inv'[i].lock = inv[i].lock
      /\ inv'[i].seen = inv[i].seen /\ inv'[i].at = inv[i].at
  BY <1>1, AdvanceMoves, IdleFields
<1>3. clients = [j \in Invocations |-> clients[j]] /\ DOMAIN clients[i] = DOMAIN NoClient
  BY <1>1, StagesHeld DEF IInv, ClientInv, TrainingTypeOK
<1>4. clients'[i].lock = clients[i].lock /\ clients'[i].training = clients[i].training
  <2>1. CASE TrainBatch(i)
    BY <1>3, <2>1, ClientFields DEF TrainBatch
  <2>2. CASE SaveFinalPaths(i)
    BY <1>3, <2>2, ClientFields DEF SaveFinalPaths
  <2> QED BY <2>1, <2>2
<1> QED BY <1>1, <1>2, <1>4, SealedEvidence

LEMMA ExperimentEvidence ==
  ASSUME NEW Age, IInv, NEW i \in Invocations, EvidenceInv(Age, i),
         CreateExperiment(i) \/ WriteExperiment(i) \/ VerifyExperiment(i)
  PROVE  EvidenceInv(Age, i)'
<1>1. /\ clients' = clients /\ inv[i].pc \in {"trained", "sealing", "sealed"}
      /\ inv[i].pc \in Locks /\ {"sealing", "sealed", "done"} \subseteq Locks
  BY DEF CreateExperiment, WriteExperiment, VerifyExperiment, Outputs, Locks, Paying
<1>2. runLock = inv[i].lock
  BY <1>1, OwnerHolds, StagesHeld
<1>3. CASE Refuse(i)
  BY <1>1, <1>3, RefusedEvidence DEF Refuse, Over
<1>4. CASE Advance(i, [pc |-> "sealing", lock |-> runLock])
  <2>1. /\ inv'[i].pc = "sealing" /\ inv'[i].lock = inv[i].lock
        /\ inv'[i].seen = inv[i].seen /\ inv'[i].at = inv[i].at
    BY <1>2, <1>4, AdvanceMoves, IdleFields
  <2> QED BY <1>1, <2>1, SealedEvidence
<1>5. ASSUME NEW stage \in {"sealed", "done"}, Advance(i, [pc |-> stage])
      PROVE  EvidenceInv(Age, i)'
  <2>1. "pc" \in Fields /\ DOMAIN [pc |-> stage] = {"pc"} /\ [pc |-> stage]["pc"] = stage
    BY IdleFields
  <2>2. inv'[i]["pc"] = stage /\ \A f \in Fields \ {"pc"} : inv'[i][f] = inv[i][f]
    BY <1>5, <2>1, AdvanceMoves
  <2>3. /\ inv'[i].pc = stage /\ inv'[i].lock = inv[i].lock
        /\ inv'[i].seen = inv[i].seen /\ inv'[i].at = inv[i].at
    BY <2>2, IdleFields
  <2> QED BY <1>1, <2>3, SealedEvidence
<1> QED BY <1>3, <1>4, <1>5 DEF CreateExperiment, WriteExperiment, VerifyExperiment, Require

\* A step of an invocation concerns it and its client alone.
LEMMA OthersStay ==
  ASSUME IInv, NEW i \in Invocations, Step(i), NEW j \in Invocations, j # i
  PROVE  inv'[j] = inv[j] /\ clients'[j] = clients[j]
<1>1. clients = [k \in Invocations |-> clients[k]]
  BY DEF IInv, TrainingTypeOK
<1>2. inv' = inv \/ \E changes : Advance(i, changes)
  BY DEF Step, RequireUnused, RequirePublishedHead, ReadManifest, HashArtifacts,
         CheckTrainingRows, CompleteProvenance, RequireReviewed, HashAgain, CreateLock, WriteLock,
         VerifyLock, LoadRuntime, VerifyUnchanged, CreateClient, TrainBatch, SaveFinalPaths,
         CreateExperiment, WriteExperiment, VerifyExperiment, Require, Refuse
<1>3. inv'[j] = inv[j]
  BY <1>2, AdvanceMoves
<1>4. clients' = clients \/ \E given : clients' = [clients EXCEPT ![i] = given]
  BY DEF Step, RequireUnused, RequirePublishedHead, ReadManifest, HashArtifacts,
         CheckTrainingRows, CompleteProvenance, RequireReviewed, HashAgain, CreateLock, WriteLock,
         VerifyLock, LoadRuntime, VerifyUnchanged, CreateClient, TrainBatch, SaveFinalPaths,
         CreateExperiment, WriteExperiment, VerifyExperiment, Outputs
<1>5. clients'[j] = clients[j]
  BY <1>1, <1>4
<1> QED BY <1>3, <1>5

LEMMA StepEvidence ==
  ASSUME NEW Age \in [Artifacts -> [Builds -> Nat]], IInv, IInv', NothingRestored(Age),
         NEW i \in Invocations, Step(i), \A j \in Invocations : EvidenceInv(Age, j)
  PROVE  \A j \in Invocations : EvidenceInv(Age, j)'
<1>1. EvidenceInv(Age, i)'
  BY BeganEvidence, HashedEvidence, CheckedEvidence, ProvenEvidence, ReviewedEvidence,
     PreparedEvidence, LockEvidence, VerifiedEvidence, ClientEvidence, PaidEvidence,
     ExperimentEvidence DEF Step
<1>2. ASSUME NEW j \in Invocations, j # i PROVE EvidenceInv(Age, j)'
  BY <1>2, OthersStay, EvidenceKept
<1> QED BY <1>1, <1>2

LEMMA NextEvidence ==
  ASSUME NEW Age \in [Artifacts -> [Builds -> Nat]], IInv, IInv', [Next]_vars,
         [NothingRestored(Age)]_vars, \A j \in Invocations : EvidenceInv(Age, j)
  PROVE  \A j \in Invocations : EvidenceInv(Age, j)'
<1>1. NothingRestored(Age)
  BY DEF NothingRestored, vars
<1>2. CASE UNCHANGED vars
  BY <1>1, <1>2, EvidenceKept DEF vars
<1>3. CASE \E i \in Invocations : Step(i)
  BY <1>1, <1>3, StepEvidence
<1>4. ASSUME NEW i \in Invocations, Dies(i) PROVE \A j \in Invocations : EvidenceInv(Age, j)'
  <2>1. clients' = clients /\ Advance(i, [pc |-> "dead"])
    BY <1>4 DEF Dies, Outputs
  <2>2. EvidenceInv(Age, i)'
    BY <2>1, RefusedEvidence DEF Over
  <2>3. ASSUME NEW j \in Invocations, j # i PROVE EvidenceInv(Age, j)'
    BY <1>1, <2>1, <2>3, AdvanceMoves, EvidenceKept
  <2> QED BY <2>2, <2>3
<1>5. CASE EditFile \/ Reseal \/ EditCode \/ PublishCode
  <2>1. inv' = inv /\ clients' = clients
    BY <1>5 DEF EditFile, Reseal, EditCode, PublishCode, Outputs
  <2> QED BY <1>1, <2>1, EvidenceKept
<1> QED BY <1>2, <1>3, <1>4, <1>5 DEF Next

LEMMA InitEvidence ==
  ASSUME NEW Age, Init
  PROVE  \A i \in Invocations : EvidenceInv(Age, i)
<1>1. \A i \in Invocations : inv[i].pc = "start" /\ clients[i] = NoClient
  BY DEF Init, Idle
<1>2. \A i \in Invocations : i \notin Paid
  BY <1>1 DEF Paid, NoClient
<1> QED BY <1>1, <1>2 DEF EvidenceInv, Locks, Paying

\* As long as no edit brings back bytes that were there before, which the two passes of hashes
\* would not see, every paid run's lock seals a dataset that passed every check of the preflight.
THEOREM OnlyAdmittedIsSealed ==
  ASSUME NEW Age \in [Artifacts -> [Builds -> Nat]]
  PROVE  Spec /\ [][NothingRestored(Age)]_vars => [](\A i \in Invocations : EvidenceInv(Age, i))
<1>1. Init => \A i \in Invocations : EvidenceInv(Age, i)
  BY InitEvidence
<1>2. /\ IInv /\ IInv' /\ [Next]_vars /\ [NothingRestored(Age)]_vars
      /\ \A i \in Invocations : EvidenceInv(Age, i)
      => (\A i \in Invocations : EvidenceInv(Age, i))'
  BY NextEvidence
<1> QED BY <1>1, <1>2, Invariance, PTL DEF Spec

\* What a paid run seals was admitted, and is what it trains on.
LEMMA PaidAdmitted ==
  ASSUME NEW Age, NEW i \in Paid, EvidenceInv(Age, i)
  PROVE  /\ Admitted(Locked(i), clients[i].lock.at) /\ WellFormed(Locked(i))
         /\ Written["training"][clients[i].training] = Locked(i).training
<1>1. /\ i \in Invocations /\ clients[i].lock.sealed \in Stamps
      /\ clients[i].training = clients[i].lock.sealed.training
      /\ Admitted(Locked(i), clients[i].lock.at)
  BY DEF EvidenceInv, Paid
<1>2. WellFormed(Locked(i))
  BY <1>1, ReadWellFormed DEF Locked
<1>3. Locked(i).training = Written["training"][clients[i].lock.sealed["training"]]
  BY <1>1, ReadFields DEF Locked, Artifacts, Sealed
<1> QED BY <1>1, <1>2, <1>3

\* No paid run trains on hindsight: prior and evidence of every trained row were known at its
\* cutoff, its prompt is the row's and its label the sealed result, whatever the replay says.
THEOREM NoHindsightEver ==
  ASSUME NEW Age \in [Artifacts -> [Builds -> Nat]]
  PROVE  Spec /\ [][NothingRestored(Age)]_vars => []NoHindsightIsTrained
<1>1. ASSUME \A i \in Invocations : EvidenceInv(Age, i) PROVE NoHindsightIsTrained
  <2>1. ASSUME NEW i \in Paid
        PROVE  /\ Admitted(Locked(i), clients[i].lock.at) /\ WellFormed(Locked(i))
               /\ Written["training"][clients[i].training] = Locked(i).training
    BY <1>1, PaidAdmitted DEF Paid
  <2>2. ASSUME NEW i \in Paid, NEW k \in DOMAIN Locked(i).rows
        PROVE  /\ PriorsKnown(Locked(i), Locked(i).rows[k])
               /\ EvidenceCurrent(Locked(i), Locked(i).rows[k])
               /\ Locked(i).training[2 * k - 1].prompt = Prompt(Locked(i).rows[k], FALSE)
               /\ Locked(i).training[2 * k - 1].label = Label(TeamWon(Locked(i).resolutions[k]))
               /\ Locked(i).resolutions[k].resolvedAt > Locked(i).rows[k].tipoff
    BY <2>1, AdmittedRows
  <2> QED BY <2>1, <2>2 DEF NoHindsightIsTrained
<1> QED BY <1>1, OnlyAdmittedIsSealed, PTL

\* A paid run is admitted by seasons that its baseline never saw, each of them won.
THEOREM EvaluationUntouchedAlways ==
  ASSUME NEW Age \in [Artifacts -> [Builds -> Nat]]
  PROVE  Spec /\ [][NothingRestored(Age)]_vars => []EvaluationIsUntouched
<1>1. ASSUME \A i \in Invocations : EvidenceInv(Age, i) PROVE EvaluationIsUntouched
  <2>1. ASSUME NEW i \in Paid
        PROVE  Admitted(Locked(i), clients[i].lock.at) /\ WellFormed(Locked(i))
    BY <1>1, PaidAdmitted DEF Paid
  <2> QED BY <2>1, AdmittedEvaluation DEF EvaluationIsUntouched
<1> QED BY <1>1, OnlyAdmittedIsSealed, PTL

\* What a paid run sends away is covered by the rights that its own lock seals.
THEOREM RightsAlwaysCover ==
  ASSUME NEW Age \in [Artifacts -> [Builds -> Nat]]
  PROVE  Spec /\ [][NothingRestored(Age)]_vars => []RightsCoverWhatIsTrained
<1>1. ASSUME \A i \in Invocations : EvidenceInv(Age, i) PROVE RightsCoverWhatIsTrained
  <2>1. ASSUME NEW i \in Paid
        PROVE  Admitted(Locked(i), clients[i].lock.at) /\ WellFormed(Locked(i))
    BY <1>1, PaidAdmitted DEF Paid
  <2> QED BY <2>1, AdmittedRights, AdmittedRows DEF RightsCoverWhatIsTrained
<1> QED BY <1>1, OnlyAdmittedIsSealed, PTL

=============================================================================
