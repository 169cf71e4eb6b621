----------------------- MODULE ValidationCanaryProofs -----------------------
(***************************************************************************)
(* Proofs about the legacy study, for every number of invocations at work  *)
(* at once, every source of questions, cohort size and response, and any   *)
(* number of training runs, edits, pushes and deaths.                      *)
(*                                                                         *)
(* Nothing that was ever created is absent again: the marker, written      *)
(* before the first call and only where none was, keeps the owners of a    *)
(* run apart, and once a seal is there the calls of its run are over.      *)
(***************************************************************************)
EXTENDS ValidationCanary, SequenceTheorems, TLAPS

-----------------------------------------------------------------------------
(* What the files hold.                                                     *)

Lock == files[All("trainingLock")]
Experiment == files[All("experiment")]

PromptsOf(r) == IF r = "smoke" THEN SmokePrompts ELSE PairedPrompts(CohortGames(r))
CallsPerArm(r) == Len(PromptsOf(r))

Holds(p, v) ==
  /\ p \in Sources => v \in Versions
  /\ p = All("checkpoints") => v \in Seq(Samplers)
  /\ p = All("trainingLock") => v \in Marks \cup Locks
  /\ p = All("experiment") => v \in Marks \cup Experiments
  /\ p = All("protocol") => v \in Marks \cup Protocols
  /\ p = <<"manifest", "v1">> => v \in Marks \cup FirstManifests
  /\ p = <<"manifest", "v2">> => v \in Marks \cup SecondManifests
  /\ p \in {"prompts"} \X Cohorts => v \in Marks \cup Seq(Texts)
  /\ p = <<"marker", "smoke">> => v \in Marks \cup SmokeMarkers
  /\ p \in {"marker"} \X Cohorts => v \in Marks \cup CanaryMarkers
  /\ p \in {"base", "adapter"} \X Runs => v \in Marks \cup Seq(Records)
  /\ p = <<"seal", "smoke">> => v \in Marks \cup SmokeSeals
  /\ p = <<"result", "smoke">> => v \in Marks \cup SmokeResults

TypeInv ==
  /\ DOMAIN files = Paths /\ \A p \in Paths : Holds(p, files[p])
  /\ DOMAIN head = Tracked
  /\ head[All("core")] \in Versions /\ head[All("protocol")] \in Marks \cup Protocols
  /\ DOMAIN job = Procs /\ DOMAIN at = Procs /\ DOMAIN held = Procs
  /\ DOMAIN calls = Runs /\ \A r \in Runs : calls[r] \in Seq(Records)

\* Trained on the lock's code, and on its data unless that was changed since, for good.
TrainedOK(t) ==
  /\ Lock \notin Marks /\ t.data \in Versions /\ t.core = Lock.core
  /\ t.data = Lock.data \/ files[All("data")] > Lock.data

ExperimentOK(e) ==
  /\ e \in Experiments
  /\ e.sampler.data = e.lock.data /\ e.sampler.core = e.lock.core /\ e.sampler # BaseModel

ManifestOK(c, m) ==
  /\ m \in IF c = "v1" THEN FirstManifests ELSE SecondManifests
  /\ m.games = CohortGames(c) /\ m.prompts = PromptsOf(c)
  /\ Whole(All("experiment")) /\ m.experiment = Experiment

\* Two arms that are all the calls of a run, which is over.
WholeRun(r, arms) ==
  /\ files[<<"seal", r>>] # Absent
  /\ arms.base \in Seq(Records) /\ arms.adapter \in Seq(Records)
  /\ Covers(arms.base, PromptsOf(r)) /\ Covers(arms.adapter, PromptsOf(r))
  /\ calls[r] = arms.base \o arms.adapter

SealOK(r, s) ==
  /\ WholeRun(r, s) /\ Whole(All("experiment")) /\ s.marker \notin Marks
  /\ IF r = "smoke" THEN s.marker.experiment = Experiment
     ELSE /\ s.marker = [manifest |-> s.manifest, prompts |-> s.prompts]
          /\ s.prompts = PromptsOf(r) /\ s.manifest.prompts = PromptsOf(r)
          /\ s.manifest.experiment = Experiment

SmokeResultOK(x) ==
  WholeRun("smoke", x.seal) /\ (x.passed => Gated(x.seal.base) /\ Gated(x.seal.adapter))

ProtocolOK(v) ==
  SmokeResultOK(v.result) /\ v.retired \notin Marks /\ files[<<"manifest", "v1">>] # Absent

ReportOK(c, v) ==
  /\ files[<<"seal", c>>] # Absent /\ Len(calls[c]) = 4 * CohortSize
  /\ \A arm \in ToSet(Arms), n \in 1..CohortSize :
       LET primary == v.primary[arm]
           historical == v.historical[arm]
           valid(m) == CallTo(c, arm, m).response = "valid"
       IN /\ (n \in primary.original) = valid(2 * n - 1)
          /\ (n \in primary.pairs) = (valid(2 * n - 1) /\ valid(2 * n))
          /\ (historical[n] = "worst") = ~valid(2 * n - 1)

FileInv(p) ==
  /\ p = All("checkpoints") => \A n \in DOMAIN files[p] : TrainedOK(files[p][n])
  /\ Whole(p) =>
       /\ p = All("experiment") => ExperimentOK(files[p])
       /\ p = All("protocol") => ProtocolOK(files[p])
       /\ p = <<"marker", "smoke">> =>
            Whole(All("experiment")) /\ files[p].experiment = Experiment
       /\ p = <<"result", "smoke">> => SmokeResultOK(files[p])
       /\ \A c \in Cohorts :
            /\ p = <<"manifest", c>> => ManifestOK(c, files[p])
            /\ p = <<"result", c>> => ReportOK(c, files[p])
       /\ \A r \in Runs : p = <<"seal", r>> => SealOK(r, files[p])

-----------------------------------------------------------------------------
(* What the invocations know.                                               *)

Running(i, r) == job[i].cmd = "run" /\ job[i].of = r
Busy(i, r) == Running(i, r) /\ at[i] \in {"base", "adapter", "sealing"}
Working(i, r) == Running(i, r) /\ at[i] \in {"base", "adapter", "sealing", "gating"}

\* What the second canary waits for: a smoke that passed, and four artifacts in public.
SecondReady ==
  /\ files[<<"seal", "smoke">>] # Absent
  /\ Len(calls["smoke"]) = 2 /\ Gated(calls["smoke"])
  /\ {All("protocol"), <<"manifest", "v1">>, <<"manifest", "v2">>, <<"prompts", "v2">>} \subseteq public

BusyInv(i, r) ==
  /\ Whole(<<"marker", r>>) /\ files[<<"seal", r>>] = Absent
  /\ at[i] = "base" =>
       /\ calls[r] = held[i].records
       /\ files[<<"base", r>>] = Absent /\ files[<<"adapter", r>>] = Absent
  /\ at[i] # "base" =>
       files[<<"base", r>>] \in Seq(Records) /\ Covers(files[<<"base", r>>], PromptsOf(r))
  /\ at[i] = "adapter" =>
       calls[r] = files[<<"base", r>>] \o held[i].records /\ files[<<"adapter", r>>] = Absent
  /\ at[i] = "sealing" =>
       /\ files[<<"adapter", r>>] \in Seq(Records) /\ Covers(files[<<"adapter", r>>], PromptsOf(r))
       /\ calls[r] = files[<<"base", r>>] \o files[<<"adapter", r>>]

RunInv(i, r) ==
  /\ r \in Runs /\ at[i] \in {"marking", "base", "adapter", "sealing", "gating"}
  /\ Lock \notin Marks /\ Whole(All("experiment")) /\ (r = "v2" => SecondReady)
  /\ held[i] = [prompts |-> PromptsOf(r), sampler |-> Experiment.sampler, records |-> held[i].records]
  /\ held[i].records \in Seq(Records) /\ Len(held[i].records) <= CallsPerArm(r)
  /\ at[i] = "marking" => held[i].records = << >>
  /\ at[i] # "marking" => files[<<"marker", r>>] # Absent
  /\ Busy(i, r) => BusyInv(i, r)
  /\ at[i] = "gating" => r = "smoke"

ScoreInv(i, c) ==
  /\ c \in Cohorts /\ at[i] \in {"loading", "opening", "writing"}
  /\ at[i] = "loading" /\ c = "v2" =>
       \A k \in Raw : files[<<k, c>>] # Absent /\ (Whole(<<k, c>>) => <<k, c>> \in public)
  /\ at[i] \in {"opening", "writing"} => WholeRun(c, held[i])
  /\ at[i] = "opening" /\ c = "v2" => \A k \in Raw : <<k, c>> \in public

JobInv(i) ==
  /\ job[i] = Idle \/ job[i].cmd \in {"lock", "train", "experiment", "build", "run", "score"}
  /\ job[i].cmd = "lock" => at[i] = "writing" /\ held[i] \in Locks
  /\ job[i].cmd = "train" => at[i] \in {"reading", "training"}
  /\ Stands(i, "train", "reading") =>
       /\ Lock \notin Marks /\ held[i] = Lock.core
       /\ files[All("data")] >= Lock.data
  /\ Stands(i, "train", "training") => TrainedOK(held[i])
  /\ job[i].cmd = "experiment" => at[i] = "writing" /\ ExperimentOK(held[i])
  /\ job[i].cmd = "build" =>
       at[i] \in {"prompts", "manifest"} /\ job[i].of \in Cohorts /\ ManifestOK(job[i].of, held[i])
  /\ job[i].cmd = "run" => RunInv(i, job[i].of)
  /\ job[i].cmd = "score" => ScoreInv(i, job[i].of)

-----------------------------------------------------------------------------
(* The invariant.                                                           *)

\* One owner of a run, which is marked first; what it leaves comes after the marker.
OwnerInv ==
  \A r \in Runs :
    /\ \A i, j \in Procs : Working(i, r) /\ Working(j, r) => i = j
    /\ files[<<"marker", r>>] = Absent =>
         calls[r] = << >> /\ \A k \in Raw : files[<<k, r>>] = Absent

\* The calls of a run: the prompts in order, by the base model and then by the sampler.
HistoryInv(r) ==
  LET n == CallsPerArm(r)
  IN /\ Len(calls[r]) <= 2 * n
     /\ \A k \in DOMAIN calls[r] :
          /\ calls[r][k].prompt = PromptsOf(r)[IF k <= n THEN k ELSE k - n]
          /\ calls[r][k].model = IF k <= n THEN BaseModel ELSE Experiment.sampler
     /\ calls[r] # << >> => Whole(All("experiment")) /\ (r = "v2" => SecondReady)

GitInv ==
  /\ pushed => \A p \in Tracked \ {All("core")} : head[p] \notin Marks => p \in public
  /\ head[All("protocol")] \notin Marks => files[<<"manifest", "v1">>] # Absent
  /\ \A o \in opened : o.of = "v2" => o.public

IInv ==
  /\ TypeInv /\ OwnerInv /\ GitInv
  /\ \A p \in Paths : FileInv(p)
  /\ \A i \in Procs : JobInv(i)
  /\ \A r \in Runs : HistoryInv(r)

-----------------------------------------------------------------------------
(* Cohorts, prompts and records.                                            *)

LEMMA ArmsAre == Arms \in Seq({"base", "adapter"}) /\ ToSet(Arms) = {"base", "adapter"}
BY DEF Arms, ToSet

LEMMA CohortGamesAre ==
  ASSUME NEW c \in Cohorts
  PROVE  /\ CohortGames(c) \in Seq(ToSet(Source)) /\ Len(CohortGames(c)) = CohortSize
         /\ \A n \in 1 .. CohortSize :
              CohortGames(c)[n] = Source[IF c = "v1" THEN n ELSE CohortSize + n]
<1>1. Source \in Seq(ToSet(Source)) /\ CohortSize \in Nat \ {0} /\ Len(Source) >= 2 * CohortSize
  BY CanaryAssumption
<1>2. Len(Source) \in Nat /\ \A n \in 1 .. Len(Source) : Source[n] \in ToSet(Source)
  BY <1>1, ElementOfSeq
<1>3. CASE c = "v1"
  <2>1. CohortGames(c) = SubSeq(Source, 1, CohortSize)
    BY <1>3 DEF CohortGames
  <2> QED BY <1>1, <1>2, <1>3, <2>1, SubSeqProperties
<1>4. CASE c = "v2"
  <2>1. CohortGames(c) = SubSeq(Source, CohortSize + 1, 2 * CohortSize)
    BY <1>4 DEF CohortGames
  <2>2. CohortSize + 1 \in 1 .. Len(Source) + 1 /\ 2 * CohortSize \in CohortSize .. Len(Source)
    BY <1>1, <1>2
  <2>3. /\ CohortGames(c) \in Seq(ToSet(Source))
        /\ Len(CohortGames(c)) = 2 * CohortSize - (CohortSize + 1) + 1
        /\ \A n \in 1 .. CohortSize : CohortGames(c)[n] = Source[(CohortSize + 1) + n - 1]
    BY <1>1, <2>1, <2>2, SubSeqProperties
  <2> QED BY <1>1, <1>4, <2>3
<1> QED BY <1>3, <1>4 DEF Cohorts

LEMMA PairedPromptsAre ==
  ASSUME NEW c \in Cohorts
  PROVE  /\ PromptsOf(c) \in Seq(Texts) /\ CallsPerArm(c) = 2 * CohortSize
         /\ \A n \in 1 .. 2 * CohortSize :
              PromptsOf(c)[n] = <<CohortGames(c)[(n + 1) \div 2],
                                  IF n % 2 = 1 THEN "original" ELSE "side_swap">>
<1> DEFINE games == CohortGames(c)
           text(n) == <<games[(n + 1) \div 2], IF n % 2 = 1 THEN "original" ELSE "side_swap">>
           size == 2 * Len(games)
<1>1. games \in Seq(ToSet(Source)) /\ Len(games) = CohortSize /\ CohortSize \in Nat
  BY CohortGamesAre, CanaryAssumption
<1>2. PromptsOf(c) = [n \in 1 .. size |-> text(n)]
  BY DEF PromptsOf, PairedPrompts, Cohorts
<1>3. \A n \in 1 .. size : text(n) \in Texts
  <2> SUFFICES ASSUME NEW n \in 1 .. size PROVE text(n) \in Texts
    OBVIOUS
  <2>1. (n + 1) \div 2 \in 1 .. Len(games)
    BY <1>1
  <2>2. games[(n + 1) \div 2] \in ToSet(Source)
    BY <1>1, <2>1, ElementOfSeq
  <2> QED BY <2>2 DEF Texts
<1>4. size \in Nat /\ size = 2 * CohortSize
  BY <1>1
<1> HIDE DEF games, text, size
<1>5. PromptsOf(c) \in Seq(Texts) /\ Len(PromptsOf(c)) = size
  BY <1>2, <1>3, <1>4, IsASeq
<1> QED BY <1>2, <1>4, <1>5 DEF text, games, CallsPerArm

LEMMA PromptsAre ==
  ASSUME NEW r \in Runs
  PROVE  /\ PromptsOf(r) \in Seq(Texts) /\ CallsPerArm(r) \in Nat \ {0}
         /\ \A m, n \in 1 .. CallsPerArm(r) : m # n => PromptsOf(r)[m] # PromptsOf(r)[n]
<1>1. CASE r = "smoke"
  BY <1>1 DEF PromptsOf, SmokePrompts, CallsPerArm, Texts
<1>2. CASE r \in Cohorts
  <2>1. CohortSize \in Nat \ {0}
    BY CanaryAssumption
  <2>2. CallsPerArm(r) = 2 * CohortSize /\ PromptsOf(r) \in Seq(Texts)
    BY <1>2, PairedPromptsAre
  <2>3. ASSUME NEW m \in 1 .. 2 * CohortSize, NEW n \in 1 .. 2 * CohortSize,
               PromptsOf(r)[m] = PromptsOf(r)[n]
        PROVE  m = n
    <3>1. /\ CohortGames(r)[(m + 1) \div 2] = CohortGames(r)[(n + 1) \div 2]
          /\ (m % 2 = 1) = (n % 2 = 1)
      BY <1>2, <2>3, PairedPromptsAre
    <3>2. (m + 1) \div 2 \in 1 .. CohortSize /\ (n + 1) \div 2 \in 1 .. CohortSize
      BY <2>1
    <3> DEFINE place(k) == IF r = "v1" THEN k ELSE CohortSize + k
    <3>3. Source[place((m + 1) \div 2)] = Source[place((n + 1) \div 2)]
      BY <1>2, <3>1, <3>2, CohortGamesAre
    <3>4. /\ place((m + 1) \div 2) \in DOMAIN Source /\ place((n + 1) \div 2) \in DOMAIN Source
      BY <2>1, <3>2, CanaryAssumption
    <3>5. place((m + 1) \div 2) = place((n + 1) \div 2)
      BY <3>3, <3>4, CanaryAssumption DEF IsInjective
    <3>6. (m + 1) \div 2 = (n + 1) \div 2
      BY <2>1, <3>2, <3>5
    <3> QED BY <2>1, <3>1, <3>6
  <2> QED BY <2>1, <2>2, <2>3
<1> QED BY <1>1, <1>2 DEF Runs

\* No game is in both canaries.
LEMMA CohortsAreApart ==
  ASSUME NEW m \in 1 .. CallsPerArm("v1"), NEW n \in 1 .. CallsPerArm("v2")
  PROVE  PromptsOf("v1")[m][1] # PromptsOf("v2")[n][1]
<1>1. CohortSize \in Nat \ {0} /\ m \in 1 .. 2 * CohortSize /\ n \in 1 .. 2 * CohortSize
  BY CanaryAssumption, PairedPromptsAre DEF Cohorts
<1>2. (m + 1) \div 2 \in 1 .. CohortSize /\ (n + 1) \div 2 \in 1 .. CohortSize
  BY <1>1
<1>3. /\ PromptsOf("v1")[m][1] = CohortGames("v1")[(m + 1) \div 2]
      /\ PromptsOf("v2")[n][1] = CohortGames("v2")[(n + 1) \div 2]
  BY <1>1, PairedPromptsAre DEF Cohorts
<1>4. /\ CohortGames("v1")[(m + 1) \div 2] = Source[(m + 1) \div 2]
      /\ CohortGames("v2")[(n + 1) \div 2] = Source[CohortSize + (n + 1) \div 2]
  BY <1>2, CohortGamesAre DEF Cohorts
<1>5. (m + 1) \div 2 \in DOMAIN Source /\ CohortSize + (n + 1) \div 2 \in DOMAIN Source
  BY <1>1, <1>2, CanaryAssumption
<1>6. (m + 1) \div 2 # CohortSize + (n + 1) \div 2
  BY <1>1, <1>2
<1> QED BY <1>3, <1>4, <1>5, <1>6, CanaryAssumption DEF IsInjective

LEMMA RecordsAre ==
  ASSUME NEW prompt \in Texts, NEW model \in {BaseModel} \cup Samplers, NEW response \in Responses
  PROVE  /\ RecordOf(prompt, model, response) \in Records
         /\ RecordOf(prompt, model, response).prompt = prompt
         /\ RecordOf(prompt, model, response).model = model
<1>1. response \in Parsed \cup Unread \cup {"nothing"}
  BY CanaryAssumption
<1>2. CASE response \in Parsed
  BY <1>2 DEF RecordOf, Completed, Records, Parsed, Unread
<1>3. CASE response \in Unread
  BY <1>3 DEF RecordOf, RendererFailed, Records, Parsed, Unread
<1>4. CASE response = "nothing"
  BY <1>4 DEF RecordOf, Failed, Records, Parsed, Unread
<1> QED BY <1>1, <1>2, <1>3, <1>4

\* Records that cover the prompts are as many, and each is of its prompt.
LEMMA CoversAre ==
  ASSUME NEW records \in Seq(Records), NEW prompts \in Seq(Texts)
  PROVE  /\ Covers(records, prompts) => Len(records) = Len(prompts)
         /\ Covers(records, prompts) => \A n \in 1 .. Len(records) :
              records[n].prompt = prompts[n] /\ Consistent(records[n])
<1> SUFFICES ASSUME Covers(records, prompts)
             PROVE  /\ Len(records) = Len(prompts)
                    /\ \A n \in 1 .. Len(records) :
                         records[n].prompt = prompts[n] /\ Consistent(records[n])
  OBVIOUS
<1>1. [n \in DOMAIN records |-> records[n].prompt] = prompts
  BY DEF Covers
<1>2. DOMAIN records = DOMAIN prompts /\ \A n \in DOMAIN records : records[n].prompt = prompts[n]
  BY <1>1
<1> QED BY <1>2, LenProperties DEF Covers

-----------------------------------------------------------------------------
(* What no step undoes.                                                     *)

Kept(p) ==
  \/ files'[p] = files[p]
  \/ p \notin Sources /\ files[p] = Absent
  \/ p[2] # "all" /\ Whole(p) /\ files'[p] = Edited
  \/ p = All("checkpoints")
  \/ p \in Sources /\ files'[p] \in Versions /\ files'[p] > files[p]

\* A step of the invocations in movers, or of none. Only an owner adds to a run.
Moves(movers) ==
  /\ \A p \in Paths : Kept(p)
  /\ \A i \in Procs \ movers : job'[i] = job[i] /\ at'[i] = at[i] /\ held'[i] = held[i]
  /\ \A r \in Runs :
       /\ calls'[r] = calls[r] \/ \E i \in movers : Busy(i, r)
       /\ \A k \in Raw :
            \/ files'[<<k, r>>] = files[<<k, r>>]
            \/ Whole(<<"seal", r>>)
            \/ k = "marker" /\ files[<<k, r>>] = Absent
            \/ \E i \in movers : Busy(i, r)
  /\ public \subseteq public'

LEMMA PathsAre ==
  /\ \A k \in {"data", "core", "protocol", "source", "answers", "trainingLock", "checkpoints",
               "experiment"} : All(k) \in Paths
  /\ \A c \in Cohorts : <<"manifest", c>> \in Paths /\ <<"prompts", c>> \in Paths
  /\ \A r \in Runs : <<"result", r>> \in Paths /\ \A k \in Raw : <<k, r>> \in Paths
BY DEF Paths, All

LEMMA KeptFile ==
  ASSUME NEW p \in Paths, Kept(p), p \notin Sources, p # All("checkpoints")
  PROVE  /\ files[p] # Absent => files'[p] # Absent
         /\ files[p] # Absent /\ p[2] = "all" => files'[p] = files[p]
         /\ files[p] # Absent /\ files'[p] \notin Marks => files'[p] = files[p]
BY MarksAssumption DEF Kept, Marks, Whole

LEMMA KeptInputs ==
  ASSUME IInv, NEW movers, Moves(movers)
  PROVE  /\ Lock \notin Marks => Lock' = Lock /\ Lock.data \in Nat
         /\ Whole(All("experiment")) => Experiment' = Experiment /\ Whole(All("experiment"))'
         /\ Whole(All("protocol")) => files'[All("protocol")] = files[All("protocol")]
         /\ \A c \in Cohorts : files[<<"manifest", c>>] # Absent => files'[<<"manifest", c>>] # Absent
         /\ files[All("data")] \in Nat /\ files'[All("data")] \in Nat
         /\ files'[All("data")] >= files[All("data")]
<1>1. \A p \in Paths : Kept(p)
  BY DEF Moves
<1>2. ASSUME NEW k \in {"trainingLock", "experiment", "protocol"}, files[All(k)] \notin Marks
      PROVE  files'[All(k)] = files[All(k)]
  <2>1. All(k) \in Paths /\ All(k) \notin Sources /\ All(k) # All("checkpoints") /\ All(k)[2] = "all"
    BY PathsAre DEF All, Sources
  <2> QED BY <1>1, <1>2, <2>1, KeptFile DEF Marks
<1>3. ASSUME NEW c \in Cohorts, files[<<"manifest", c>>] # Absent
      PROVE  files'[<<"manifest", c>>] # Absent
  <2>1. /\ <<"manifest", c>> \in Paths /\ <<"manifest", c>> \notin Sources
        /\ <<"manifest", c>> # All("checkpoints")
    BY PathsAre DEF All, Sources
  <2> QED BY <1>1, <1>3, <2>1, KeptFile
<1>4. /\ files[All("data")] \in Nat /\ files'[All("data")] \in Nat
      /\ files'[All("data")] >= files[All("data")]
  <2>1. All("data") \in Paths /\ All("data") \in Sources /\ All("data") # All("checkpoints")
        /\ All("data")[2] = "all"
    BY PathsAre DEF All, Sources
  <2>2. files[All("data")] \in Versions /\ Versions \subseteq Nat
    BY <2>1, CanaryAssumption DEF IInv, TypeInv, Holds
  <2>3. \/ files'[All("data")] = files[All("data")]
        \/ files'[All("data")] \in Versions /\ files'[All("data")] > files[All("data")]
    BY <1>1, <2>1 DEF Kept
  <2>4. PICK old \in Nat : old = files[All("data")]
    BY <2>2
  <2>5. CASE files'[All("data")] = old
    BY <2>4, <2>5
  <2>6. CASE files'[All("data")] \in Versions /\ files'[All("data")] > old
    <3>1. files'[All("data")] \in Nat
      BY <2>2, <2>6
    <3> QED BY <2>4, <2>6, <3>1
  <2> QED BY <2>3, <2>4, <2>5, <2>6
<1>5. Lock \notin Marks => Lock.data \in Nat
  <2>1. Lock \in Marks \cup Locks
    BY PathsAre DEF Lock, IInv, TypeInv, Holds
  <2> QED BY <2>1, CanaryAssumption DEF Locks
<1> QED BY <1>2, <1>3, <1>4, <1>5 DEF Lock, Experiment, Whole

LEMMA KeptRun ==
  ASSUME IInv, NEW movers \in SUBSET Procs, Moves(movers), NEW r \in Runs
  PROVE  /\ files[<<"seal", r>>] # Absent => files'[<<"seal", r>>] # Absent /\ calls'[r] = calls[r]
         /\ files[<<"marker", r>>] # Absent => files'[<<"marker", r>>] # Absent
         /\ \A k \in Raw : files[<<k, r>>] # Absent /\ files'[<<k, r>>] \notin Marks =>
              files'[<<k, r>>] = files[<<k, r>>]
         /\ \A k \in Raw : files[<<k, r>>] # Absent => files'[<<k, r>>] # Absent
<1>1. \A p \in Paths : Kept(p)
  BY DEF Moves
<1>2. \A k \in Raw : <<k, r>> \in Paths /\ <<k, r>> \notin Sources /\ <<k, r>> # All("checkpoints")
  BY PathsAre DEF All, Sources, Raw
<1>3. \A k \in Raw :
        /\ files[<<k, r>>] # Absent => files'[<<k, r>>] # Absent
        /\ files[<<k, r>>] # Absent /\ files'[<<k, r>>] \notin Marks => files'[<<k, r>>] = files[<<k, r>>]
  BY <1>1, <1>2, KeptFile
<1>4. ASSUME files[<<"seal", r>>] # Absent, NEW i \in movers, Busy(i, r)
      PROVE  FALSE
  <2>1. RunInv(i, r)
    BY <1>4 DEF IInv, JobInv, Busy, Running
  <2> QED BY <1>4, <2>1 DEF RunInv, BusyInv
<1>5. files[<<"seal", r>>] # Absent => calls'[r] = calls[r]
  BY <1>4 DEF Moves
<1> QED BY <1>3, <1>5 DEF Raw

LEMMA KeptFacts ==
  ASSUME IInv, NEW movers \in SUBSET Procs, Moves(movers)
  PROVE  /\ \A t : TrainedOK(t) => TrainedOK(t)'
         /\ \A r \in Runs : \A arms : WholeRun(r, arms) => WholeRun(r, arms)'
         /\ \A r \in Runs : \A s : SealOK(r, s) => SealOK(r, s)'
         /\ \A c \in Cohorts : \A m : ManifestOK(c, m) => ManifestOK(c, m)'
         /\ \A x : SmokeResultOK(x) => SmokeResultOK(x)'
         /\ \A v : ProtocolOK(v) => ProtocolOK(v)'
         /\ \A c \in Cohorts : \A v : ReportOK(c, v) => ReportOK(c, v)'
         /\ SecondReady => SecondReady'
<1>1. \A t : TrainedOK(t) => TrainedOK(t)'
  BY KeptInputs DEF TrainedOK
<1>2. \A r \in Runs : \A arms : WholeRun(r, arms) => WholeRun(r, arms)'
  BY KeptRun DEF WholeRun
<1>3. \A r \in Runs : \A s : SealOK(r, s) => SealOK(r, s)'
  BY <1>2, KeptInputs DEF SealOK
<1>4. \A c \in Cohorts : \A m : ManifestOK(c, m) => ManifestOK(c, m)'
  BY KeptInputs DEF ManifestOK
<1>5. \A x : SmokeResultOK(x) => SmokeResultOK(x)'
  BY <1>2 DEF SmokeResultOK, Runs
<1>6. \A v : ProtocolOK(v) => ProtocolOK(v)'
  BY <1>5, KeptInputs DEF ProtocolOK, Cohorts
<1>7. ASSUME NEW c \in Cohorts, NEW v, ReportOK(c, v) PROVE ReportOK(c, v)'
  <2>1. files'[<<"seal", c>>] # Absent /\ calls'[c] = calls[c]
    BY <1>7, KeptRun DEF ReportOK, Runs
  <2> QED BY <1>7, <2>1 DEF ReportOK, CallTo
<1>8. SecondReady => SecondReady'
  <2>1. files[<<"seal", "smoke">>] # Absent =>
          files'[<<"seal", "smoke">>] # Absent /\ calls'["smoke"] = calls["smoke"]
    BY KeptRun DEF Runs
  <2>2. public \subseteq public'
    BY DEF Moves
  <2> QED BY <2>1, <2>2 DEF SecondReady
<1> QED BY <1>1, <1>2, <1>3, <1>4, <1>5, <1>6, <1>7, <1>8

\* A file that is left as it is stays right.
LEMMA KeptFileInv ==
  ASSUME IInv, NEW movers \in SUBSET Procs, Moves(movers), NEW p \in Paths, files'[p] = files[p]
  PROVE  FileInv(p)'
<1>1. FileInv(p)
  BY DEF IInv
<1>2. p = All("checkpoints") => \A n \in DOMAIN files[p] : TrainedOK(files[p][n])'
  BY <1>1, KeptFacts DEF FileInv
<1>3. ASSUME Whole(p), p = All("experiment") PROVE ExperimentOK(files[p])'
  BY <1>1, <1>3 DEF FileInv, ExperimentOK
<1>4. ASSUME Whole(p), p = All("protocol") PROVE ProtocolOK(files[p])'
  BY <1>1, <1>4, KeptFacts DEF FileInv
<1>5. ASSUME Whole(p), p = <<"marker", "smoke">>
      PROVE  Whole(All("experiment"))' /\ (files[p].experiment = Experiment)'
  BY <1>1, <1>5, KeptInputs DEF FileInv
<1>6. ASSUME Whole(p), p = <<"result", "smoke">> PROVE SmokeResultOK(files[p])'
  BY <1>1, <1>6, KeptFacts DEF FileInv
<1>7. ASSUME Whole(p), NEW c \in Cohorts
      PROVE  /\ p = <<"manifest", c>> => ManifestOK(c, files[p])'
             /\ p = <<"result", c>> => ReportOK(c, files[p])'
  BY <1>1, <1>7, KeptFacts DEF FileInv
<1>8. ASSUME Whole(p), NEW r \in Runs, p = <<"seal", r>> PROVE SealOK(r, files[p])'
  BY <1>1, <1>8, KeptFacts DEF FileInv
<1>9. Whole(p)' => Whole(p)
  BY DEF Whole
<1> QED BY <1>2, <1>3, <1>4, <1>5, <1>6, <1>7, <1>8, <1>9 DEF FileInv

\* What an invocation that takes no part knows stays right.
LEMMA KeptJob ==
  ASSUME IInv, NEW movers \in SUBSET Procs, Moves(movers), NEW i \in Procs \ movers
  PROVE  JobInv(i)'
<1>1. job'[i] = job[i] /\ at'[i] = at[i] /\ held'[i] = held[i]
  BY DEF Moves
<1>2. JobInv(i) /\ OwnerInv
  BY DEF IInv
<1>3. job[i].cmd \in {"lock", "train", "experiment", "build"} => JobInv(i)'
  BY <1>1, <1>2, KeptFacts, KeptInputs DEF JobInv, Stands, ExperimentOK
<1>4. ASSUME job[i].cmd = "run" PROVE RunInv(i, job[i].of)'
  <2> DEFINE r == job[i].of
  <2>1. RunInv(i, r)
    BY <1>2, <1>4 DEF JobInv
  <2>2. /\ r \in Runs /\ Lock' = Lock /\ Lock \notin Marks
        /\ Experiment' = Experiment /\ Whole(All("experiment"))'
        /\ r = "v2" => SecondReady'
        /\ files[<<"marker", r>>] # Absent => files'[<<"marker", r>>] # Absent
    BY <2>1, KeptInputs, KeptFacts, KeptRun DEF RunInv
  <2>3. Busy(i, r)' => Busy(i, r)
    BY <1>1 DEF Busy, Running
  <2>4. ASSUME Busy(i, r) PROVE BusyInv(i, r)'
    <3>1. BusyInv(i, r)
      BY <2>1, <2>4 DEF RunInv
    <3>2. ASSUME NEW j \in movers, Busy(j, r) PROVE FALSE
      <4>1. Working(j, r) /\ Working(i, r)
        BY <2>4, <3>2 DEF Busy, Working
      <4> QED BY <1>2, <2>2, <4>1 DEF OwnerInv
    <3>3. calls'[r] = calls[r]
      BY <2>2, <3>2 DEF Moves
    <3>4. \A k \in Raw : files'[<<k, r>>] = files[<<k, r>>]
      <4>1. files[<<"seal", r>>] = Absent /\ files[<<"marker", r>>] \notin Marks
        BY <3>1 DEF BusyInv, Whole
      <4> QED BY <2>2, <3>2, <4>1 DEF Moves, Whole, Marks
    <3> QED BY <1>1, <3>1, <3>3, <3>4 DEF BusyInv, Raw, Whole
  <2>5. job'[i].of = r
    BY <1>1
  <2> QED BY <1>1, <2>1, <2>2, <2>3, <2>4, <2>5 DEF RunInv
<1>5. ASSUME job[i].cmd = "score", NEW c \in Cohorts, job[i].of = c PROVE ScoreInv(i, c)'
  <2>1. ScoreInv(i, c)
    BY <1>2, <1>5 DEF JobInv
  <2>2. c \in Runs /\ public \subseteq public'
    BY DEF Runs, Moves
  <2>3. WholeRun(c, held[i]) => WholeRun(c, held[i])'
    BY <1>1, <2>2, KeptFacts DEF WholeRun
  <2>4. ASSUME NEW k \in Raw, files[<<k, c>>] # Absent, Whole(<<k, c>>) => <<k, c>> \in public
        PROVE  files'[<<k, c>>] # Absent /\ (Whole(<<k, c>>)' => <<k, c>> \in public')
    <3>1. /\ files'[<<k, c>>] # Absent
          /\ files'[<<k, c>>] \notin Marks => files'[<<k, c>>] = files[<<k, c>>]
      BY <2>2, <2>4, KeptRun
    <3> QED BY <2>2, <2>4, <3>1 DEF Whole
  <2> QED BY <1>1, <2>1, <2>2, <2>3, <2>4 DEF ScoreInv, WholeRun
<1>6. job[i].cmd = "score" => ScoreInv(i, job[i].of)'
  BY <1>1, <1>2, <1>5 DEF JobInv, ScoreInv
<1> QED BY <1>1, <1>2, <1>3, <1>4, <1>6 DEF JobInv, Stands

LEMMA KeptHistory ==
  ASSUME IInv, NEW movers \in SUBSET Procs, Moves(movers), NEW r \in Runs, calls'[r] = calls[r]
  PROVE  HistoryInv(r)'
<1>1. HistoryInv(r)
  BY DEF IInv
<1>2. calls[r] # << >> => Experiment' = Experiment /\ Whole(All("experiment"))' /\ (r = "v2" => SecondReady')
  BY <1>1, KeptInputs, KeptFacts DEF HistoryInv
<1>3. calls[r] = << >> => DOMAIN calls[r] = {} /\ Len(calls[r]) = 0
  OBVIOUS
<1> QED BY <1>1, <1>2, <1>3 DEF HistoryInv

\* Who comes to own a run found it unmarked.
OwnsByMarking(i, r) == Working(i, r)' => Working(i, r) \/ files[<<"marker", r>>] = Absent

LEMMA StepInv ==
  ASSUME IInv, NEW movers \in SUBSET Procs, \A i, j \in movers : i = j, Moves(movers),
         TypeInv', GitInv',
         \A p \in Paths : files'[p] = files[p] \/ FileInv(p)',
         \A i \in movers : JobInv(i)' /\ \A r \in Runs : OwnsByMarking(i, r),
         \A r \in Runs : calls'[r] = calls[r] \/ HistoryInv(r)'
  PROVE  IInv'
<1>1. \A p \in Paths : FileInv(p)'
  BY KeptFileInv
<1>2. \A i \in Procs : JobInv(i)'
  BY KeptJob
<1>3. \A r \in Runs : HistoryInv(r)'
  BY KeptHistory
<1>4. ASSUME NEW r \in Runs, NEW i \in Procs, NEW j \in Procs, Working(i, r)', Working(j, r)'
      PROVE  i = j
  <2>1. \A h \in Procs \ movers : Working(h, r)' => Working(h, r)
    BY DEF Moves, Working, Running
  <2>2. \A h \in Procs : Working(h, r) => files[<<"marker", r>>] # Absent
    BY DEF IInv, JobInv, RunInv, Working, Running
  <2> QED BY <1>4, <2>1, <2>2 DEF IInv, OwnerInv, OwnsByMarking
<1>5. ASSUME NEW r \in Runs, files'[<<"marker", r>>] = Absent
      PROVE  calls'[r] = << >> /\ \A k \in Raw : files'[<<k, r>>] = Absent
  <2>1. files[<<"marker", r>>] = Absent
    BY <1>5, KeptRun
  <2>2. calls[r] = << >> /\ \A k \in Raw : files[<<k, r>>] = Absent
    BY <2>1 DEF IInv, OwnerInv
  <2>3. ASSUME NEW i \in movers PROVE ~Busy(i, r)
    BY <2>1 DEF IInv, JobInv, RunInv, Busy, Running
  <2> QED BY <1>5, <2>1, <2>2, <2>3 DEF Moves, Whole, Marks, Raw
<1> QED BY <1>1, <1>2, <1>3, <1>4, <1>5 DEF IInv, OwnerInv

-----------------------------------------------------------------------------
(* Steps by what they write.                                                *)

OthersWait(i) ==
  /\ DOMAIN job' = Procs /\ DOMAIN at' = Procs /\ DOMAIN held' = Procs
  /\ \A j \in Procs \ {i} : job'[j] = job[j] /\ at'[j] = at[j] /\ held'[j] = held[j]

LEMMA KeptGit ==
  ASSUME IInv, UNCHANGED <<git, opened>>,
         files[<<"manifest", "v1">>] # Absent => files'[<<"manifest", "v1">>] # Absent
  PROVE  GitInv'
BY DEF IInv, GitInv, git

\* Nothing but the mover's own knowledge.
LEMMA QuietStep ==
  ASSUME IInv, NEW i \in Procs, OthersWait(i), UNCHANGED <<files, git, calls, opened>>,
         JobInv(i)', \A r \in Runs : OwnsByMarking(i, r)
  PROVE  IInv'
<1>1. Moves({i})
  BY DEF OthersWait, Moves, Kept, git
<1>2. TypeInv'
  BY DEF IInv, TypeInv, OthersWait, git
<1>3. GitInv'
  BY KeptGit
<1> QED BY <1>1, <1>2, <1>3, StepInv

LEMMA EndStep ==
  ASSUME IInv, NEW i \in Procs, End(i), UNCHANGED <<files, git, calls, opened>>
  PROVE  IInv'
<1>1. OthersWait(i) /\ job'[i] = Idle /\ at'[i] = "idle"
  BY DEF IInv, TypeInv, End, OthersWait
<1>2. JobInv(i)'
  BY <1>1 DEF JobInv, Stands, Idle
<1>3. \A r \in Runs : OwnsByMarking(i, r)
  BY <1>1 DEF OwnsByMarking, Working, Running, Idle
<1> QED BY <1>1, <1>2, <1>3, QuietStep

\* One file, where none was: by the owner, if it is one of the raw outputs.
Creates(i, path) ==
  /\ path \in Paths \ Sources /\ path # All("checkpoints") /\ files[path] = Absent
  /\ DOMAIN files' = Paths /\ \A p \in Paths \ {path} : files'[p] = files[p]
  /\ UNCHANGED <<git, calls, opened>>
  /\ path \in Raw \X Runs => path[1] = "marker" \/ Busy(i, path[2])

LEMMA CreateMoves ==
  ASSUME IInv, NEW i \in Procs, NEW path, OthersWait(i), Creates(i, path)
  PROVE  Moves({i})
<1>1. \A p \in Paths : Kept(p)
  BY DEF Creates, Kept
<1>2. ASSUME NEW r \in Runs, NEW k \in Raw
      PROVE  \/ files'[<<k, r>>] = files[<<k, r>>]
             \/ k = "marker" /\ files[<<k, r>>] = Absent
             \/ Busy(i, r)
  <2>1. CASE path = <<k, r>>
    <3>1. path \in Raw \X Runs /\ path[1] = k /\ path[2] = r
      BY <2>1
    <3> QED BY <2>1, <3>1 DEF Creates
  <2>2. CASE path # <<k, r>>
    BY <2>2, PathsAre DEF Creates
  <2> QED BY <2>1, <2>2
<1> QED BY <1>1, <1>2 DEF Creates, Moves, OthersWait, git

LEMMA CreateStep ==
  ASSUME IInv, NEW i \in Procs, NEW path, OthersWait(i), Creates(i, path),
         Holds(path, files[path])', FileInv(path)',
         JobInv(i)', \A r \in Runs : OwnsByMarking(i, r)
  PROVE  IInv'
<1>1. Moves({i})
  BY CreateMoves
<1>2. TypeInv'
  <2>1. \A p \in Paths : Holds(p, files'[p])
    BY DEF IInv, TypeInv, Creates
  <2> QED BY <2>1 DEF IInv, TypeInv, Creates, OthersWait, git
<1>3. GitInv'
  <2>1. <<"manifest", "v1">> \in Paths /\ <<"manifest", "v1">> \notin Sources
        /\ <<"manifest", "v1">> # All("checkpoints")
    BY PathsAre DEF Cohorts, All, Sources
  <2>2. files[<<"manifest", "v1">>] # Absent => files'[<<"manifest", "v1">>] # Absent
    BY <1>1, <2>1, KeptFile DEF Moves
  <2> QED BY <2>2, KeptGit DEF Creates
<1> QED BY <1>1, <1>2, <1>3, StepInv DEF Creates

\* What Create does of it.
LEMMA CreateFacts ==
  ASSUME IInv, NEW i \in Procs, NEW path \in Paths \ Sources, path # All("checkpoints"),
         files[path] = Absent, UNCHANGED <<git, calls, opened>>,
         path \in Raw \X Runs => path[1] = "marker" \/ Busy(i, path[2]),
         \E value : files' = [files EXCEPT ![path] = value]
  PROVE  Creates(i, path)
BY DEF IInv, TypeInv, Creates

\* The last write of a command.
LEMMA LastWrite ==
  ASSUME IInv, NEW i \in Procs, NEW path, Creates(i, path), End(i),
         Holds(path, files[path])', FileInv(path)'
  PROVE  IInv'
<1>1. OthersWait(i) /\ job'[i] = Idle /\ at'[i] = "idle"
  BY DEF IInv, TypeInv, End, OthersWait
<1>2. JobInv(i)' /\ \A r \in Runs : OwnsByMarking(i, r)
  BY <1>1 DEF JobInv, Stands, Idle, OwnsByMarking, Working, Running
<1> QED BY <1>1, <1>2, CreateStep

\* A death inside a write.
LEMMA TornStep ==
  ASSUME IInv, NEW i \in Procs, NEW path, Creates(i, path), files'[path] = Torn, End(i)
  PROVE  IInv'
<1>1. Holds(path, files[path])' /\ FileInv(path)'
  BY DEF Holds, FileInv, Creates, Marks, Whole
<1> QED BY <1>1, LastWrite

-----------------------------------------------------------------------------
(* Training lock, training, experiment.                                     *)

LEMMA FreezeTrainingLockStep ==
  ASSUME IInv, NEW i \in Procs, FreezeTrainingLock(i)
  PROVE  IInv'
<1> DEFINE path == All("trainingLock")
<1>1. path \in Paths \ Sources /\ path # All("checkpoints") /\ path \notin Raw \X Runs
  BY PathsAre DEF All, Sources, Raw
<1>2. CASE job[i] = Idle
  <2>1. /\ Begin(i, "lock", "all", "writing", TrainingLock)
        /\ UNCHANGED <<files, git, calls, opened>>
    BY <1>2 DEF FreezeTrainingLock, Stands, Idle
  <2>2. OthersWait(i) /\ job'[i].cmd = "lock" /\ at'[i] = "writing" /\ held'[i] = TrainingLock
    BY <2>1 DEF Begin, OthersWait, IInv, TypeInv
  <2>3. TrainingLock \in Locks
    BY PathsAre DEF IInv, TypeInv, Holds, Sources, TrainingLock, Locks
  <2>4. JobInv(i)' /\ \A r \in Runs : OwnsByMarking(i, r)
    BY <2>2, <2>3 DEF JobInv, Stands, OwnsByMarking, Working, Running
  <2> QED BY <2>1, <2>2, <2>4, QuietStep
<1>3. CASE job[i] # Idle
  <2>1. /\ Stands(i, "lock", "writing") /\ Create(i, path, held[i], "end", << >>)
        /\ UNCHANGED <<calls, opened>>
    BY <1>3 DEF FreezeTrainingLock, Begin
  <2>2. held[i] \in Locks
    BY <2>1 DEF IInv, JobInv, Stands
  <2>3. CASE files[path] # Absent
    BY <2>1, <2>3, EndStep DEF Create
  <2>4. CASE files[path] = Absent
    <3>1. End(i) /\ files' = [files EXCEPT ![path] = held[i]] /\ UNCHANGED git
      BY <2>1, <2>4 DEF Create, Put
    <3>2. Creates(i, path) /\ files'[path] = held[i]
      BY <1>1, <2>1, <2>4, <3>1, CreateFacts DEF IInv, TypeInv
    <3>3. Holds(path, files[path])' /\ FileInv(path)'
      BY <1>1, <2>2, <3>2 DEF Holds, FileInv, All, Cohorts, Runs
    <3> QED BY <3>1, <3>2, <3>3, LastWrite
  <2> QED BY <2>3, <2>4
<1> QED BY <1>2, <1>3

LEMMA FreezeExperimentStep ==
  ASSUME IInv, NEW i \in Procs, FreezeExperiment(i)
  PROVE  IInv'
<1> DEFINE path == All("experiment")
<1>1. path \in Paths \ Sources /\ path # All("checkpoints") /\ path \notin Raw \X Runs
  BY PathsAre DEF All, Sources, Raw
<1>2. CASE job[i] = Idle
  <2> DEFINE e == [lock |-> Lock, sampler |-> files[All("checkpoints")][1]]
  <2>1. /\ Begin(i, "experiment", "all", "writing", e) /\ ExperimentBuildable
        /\ UNCHANGED <<files, git, calls, opened>>
    BY <1>2 DEF FreezeExperiment, Stands, Idle, Lock
  <2>2. OthersWait(i) /\ job'[i].cmd = "experiment" /\ at'[i] = "writing" /\ held'[i] = e
    BY <2>1 DEF Begin, OthersWait, IInv, TypeInv
  <2>3. ExperimentOK(e)
    <3>1. All("checkpoints") \in Paths /\ All("data") \in Paths /\ All("core") \in Paths
      BY PathsAre
    <3>2. /\ files[All("checkpoints")] \in Seq(Samplers)
          /\ files[All("data")] \in Versions /\ files[All("core")] \in Versions
          /\ \A n \in DOMAIN files[All("checkpoints")] : TrainedOK(files[All("checkpoints")][n])
      BY <3>1 DEF IInv, TypeInv, Holds, FileInv, Sources
    <3>3. /\ Lock = [data |-> files[All("data")], core |-> files[All("core")]]
          /\ Len(files[All("checkpoints")]) = 1
      BY <2>1 DEF ExperimentBuildable, LockVerified, TrainingLock, Lock
    <3>4. /\ files[All("checkpoints")][1] \in Samplers /\ TrainedOK(files[All("checkpoints")][1])
      BY <3>2, <3>3
    <3>5. e.sampler.data = e.lock.data /\ e.sampler.core = e.lock.core
      <4>1. files[All("data")] \in Nat
        BY <3>2, CanaryAssumption
      <4>2. Lock.data = files[All("data")] /\ ~(files[All("data")] > Lock.data)
        BY <3>3, <4>1
      <4> QED BY <3>4, <4>2 DEF TrainedOK, Lock
    <3>6. e \in Experiments /\ e.sampler # BaseModel
      BY <3>2, <3>3, <3>4 DEF Experiments, Locks, Samplers, BaseModel
    <3> QED BY <3>5, <3>6 DEF ExperimentOK
  <2> HIDE DEF e
  <2>4. JobInv(i)' /\ \A r \in Runs : OwnsByMarking(i, r)
    BY <2>2, <2>3 DEF JobInv, Stands, OwnsByMarking, Working, Running, ExperimentOK
  <2> QED BY <2>1, <2>2, <2>4, QuietStep
<1>3. CASE job[i] # Idle
  <2>1. /\ Stands(i, "experiment", "writing") /\ Create(i, path, held[i], "end", << >>)
        /\ UNCHANGED <<calls, opened>>
    BY <1>3 DEF FreezeExperiment, Begin
  <2>2. ExperimentOK(held[i])
    BY <2>1 DEF IInv, JobInv, Stands
  <2>3. CASE files[path] # Absent
    BY <2>1, <2>3, EndStep DEF Create
  <2>4. CASE files[path] = Absent
    <3>1. End(i) /\ files' = [files EXCEPT ![path] = held[i]] /\ UNCHANGED git
      BY <2>1, <2>4 DEF Create, Put
    <3>2. Creates(i, path) /\ files'[path] = held[i]
      BY <1>1, <2>1, <2>4, <3>1, CreateFacts DEF IInv, TypeInv
    <3>3. Holds(path, files[path])' /\ FileInv(path)'
      BY <1>1, <2>2, <3>2 DEF Holds, FileInv, ExperimentOK, All, Cohorts, Runs
    <3> QED BY <3>1, <3>2, <3>3, LastWrite
  <2> QED BY <2>3, <2>4
<1> QED BY <1>2, <1>3

LEMMA TrainStep ==
  ASSUME IInv, NEW i \in Procs, Train(i)
  PROVE  IInv'
<1> DEFINE path == All("checkpoints")
<1>1. /\ path \in Paths /\ path \notin Sources /\ path \notin Raw \X Runs
      /\ All("data") \in Paths /\ All("core") \in Paths
      /\ All("data") \in Sources /\ All("core") \in Sources
  BY PathsAre DEF All, Sources, Raw
<1>2. files[All("data")] \in Versions /\ files[All("core")] \in Versions
      /\ files[path] \in Seq(Samplers)
  BY <1>1 DEF IInv, TypeInv, Holds
<1>0. files[All("data")] \in Nat
  BY <1>2, CanaryAssumption
<1>3. CASE job[i] = Idle
  <2>1. /\ Begin(i, "train", "all", "reading", files[All("core")]) /\ LockVerified
        /\ UNCHANGED <<files, git, calls, opened>>
    BY <1>3 DEF Train, Stands, Idle
  <2>2. /\ OthersWait(i) /\ job'[i].cmd = "train" /\ at'[i] = "reading"
        /\ held'[i] = files[All("core")]
    BY <2>1 DEF Begin, OthersWait, IInv, TypeInv
  <2>3. Lock = [data |-> files[All("data")], core |-> files[All("core")]]
    BY <2>1 DEF LockVerified, TrainingLock, Lock
  <2>4. Lock \notin Marks
    <3>1. Lock \in Locks
      BY <1>2, <2>3 DEF Locks
    <3> QED BY <3>1, MarksAssumption
  <2>5. files[All("data")] >= Lock.data /\ Lock.core = files[All("core")]
    BY <1>0, <2>3
  <2>6. JobInv(i)' /\ \A r \in Runs : OwnsByMarking(i, r)
    BY <2>1, <2>2, <2>4, <2>5 DEF JobInv, Stands, Lock, OwnsByMarking, Working, Running
  <2> QED BY <2>1, <2>2, <2>6, QuietStep
<1>4. CASE Stands(i, "train", "reading")
  <2> DEFINE t == [data |-> files[All("data")], core |-> held[i]]
  <2>1. Goes(i, "training", t) /\ UNCHANGED <<files, git, calls, opened>>
    BY <1>4 DEF Train, Stands, Begin, Idle
  <2>2. /\ OthersWait(i) /\ job'[i].cmd = "train" /\ at'[i] = "training" /\ held'[i] = t
    BY <1>4, <2>1 DEF Goes, Stands, OthersWait, IInv, TypeInv
  <2>3. TrainedOK(t)
    <3>1. /\ Lock \notin Marks /\ held[i] = Lock.core /\ files[All("data")] >= Lock.data
      BY <1>4 DEF IInv, JobInv
    <3>2. Lock.data \in Nat
      <4>1. Lock \in Marks \cup Locks
        BY PathsAre DEF Lock, IInv, TypeInv, Holds
      <4> QED BY <3>1, <4>1, CanaryAssumption DEF Locks
    <3>3. files[All("data")] = Lock.data \/ files[All("data")] > Lock.data
      BY <1>0, <3>1, <3>2
    <3> QED BY <1>2, <3>1, <3>3 DEF TrainedOK
  <2> HIDE DEF t
  <2>4. JobInv(i)' /\ \A r \in Runs : OwnsByMarking(i, r)
    BY <2>1, <2>2, <2>3 DEF JobInv, Stands, TrainedOK, Lock, OwnsByMarking, Working, Running
  <2> QED BY <2>1, <2>2, <2>4, QuietStep
<1>5. CASE Stands(i, "train", "training")
  <2> DEFINE new == [data |-> held[i].data, core |-> held[i].core, run |-> Len(files[path]) + 1]
  <2>1. End(i) /\ UNCHANGED <<calls, opened>>
    BY <1>5 DEF Train, Stands, Begin, Idle
  <2>2. CASE UNCHANGED <<files, git>>
    BY <2>1, <2>2, EndStep
  <2>3. CASE files' = [files EXCEPT ![path] = Append(files[path], new)] /\ UNCHANGED git
    <3>1. OthersWait(i) /\ job'[i] = Idle /\ at'[i] = "idle"
      BY <2>1 DEF IInv, TypeInv, End, OthersWait
    <3>2. TrainedOK(held[i])
      BY <1>5 DEF IInv, JobInv
    <3>3. /\ DOMAIN files' = Paths /\ files'[path] = Append(files[path], new)
          /\ \A p \in Paths \ {path} : files'[p] = files[p]
      BY <1>1, <2>3 DEF IInv, TypeInv
    <3>4. Lock \notin Marks /\ Lock \in Marks \cup Locks
      <4>1. All("trainingLock") \in Paths
        BY PathsAre
      <4> QED BY <3>2, <4>1 DEF TrainedOK, Lock, IInv, TypeInv, Holds
    <3>5. new \in Samplers
      BY <1>2, <3>2, <3>4 DEF TrainedOK, Samplers, Locks
    <3>6. files'[All("data")] = files[All("data")] /\ Lock' = Lock
      BY <1>1, <3>3, PathsAre DEF Lock, All
    <3>7. ASSUME NEW t, t = new PROVE TrainedOK(t)'
      BY <3>2, <3>6, <3>7 DEF TrainedOK
    <3> HIDE DEF new
    <3>8. \A n \in DOMAIN files[path] : TrainedOK(files[path][n])
      BY <1>1 DEF IInv, FileInv
    <3>9. \A n \in DOMAIN Append(files[path], new) :
            \/ n \in DOMAIN files[path] /\ Append(files[path], new)[n] = files[path][n]
            \/ Append(files[path], new)[n] = new
      BY <1>2
    <3>10. ASSUME NEW n \in DOMAIN files'[path], NEW t, t = files'[path][n] PROVE TrainedOK(t)'
      BY <3>3, <3>6, <3>7, <3>8, <3>9, <3>10 DEF TrainedOK
    <3>11. FileInv(path)'
      BY <3>10 DEF FileInv, All, Cohorts, Runs
    <3>12. TypeInv'
      <4>1. Append(files[path], new) \in Seq(Samplers)
        BY <1>2, <3>5
      <4>2. Holds(path, Append(files[path], new))
        BY <4>1 DEF Holds, All, Sources, Cohorts, Runs
      <4>3. \A p \in Paths : Holds(p, files'[p])
        BY <3>3, <4>2 DEF IInv, TypeInv
      <4> QED BY <2>1, <2>3, <3>1, <3>3, <4>3 DEF IInv, TypeInv, OthersWait, git
    <3>13. Moves({i})
      <4>1. \A r \in Runs, k \in Raw : files'[<<k, r>>] = files[<<k, r>>]
        <5>1. \A r \in Runs, k \in Raw : <<k, r>> \in Paths /\ <<k, r>> # path
          BY PathsAre DEF All, Raw
        <5> QED BY <3>3, <5>1
      <4> QED BY <2>1, <2>3, <3>1, <3>3, <4>1 DEF Moves, Kept, OthersWait, git
    <3>14. GitInv'
      <4>1. <<"manifest", "v1">> \in Paths /\ <<"manifest", "v1">> # path
        BY PathsAre DEF Cohorts, All
      <4> QED BY <2>1, <2>3, <3>3, <4>1, KeptGit
    <3>15. JobInv(i)' /\ \A r \in Runs : OwnsByMarking(i, r)
      BY <3>1 DEF JobInv, Stands, Idle, OwnsByMarking, Working, Running
    <3> QED BY <2>1, <3>3, <3>11, <3>12, <3>13, <3>14, <3>15, StepInv
  <2> QED BY <1>5, <2>2, <2>3 DEF Train, Stands, Put, Begin, Idle
<1> QED BY <1>3, <1>4, <1>5 DEF Train, Begin

-----------------------------------------------------------------------------
(* The frozen canaries.                                                     *)

\* What LocksVerified says of the types.
LEMMA VerifiedLocks ==
  ASSUME IInv, LocksVerified
  PROVE  /\ Lock \in Locks /\ Lock \notin Marks
         /\ Whole(All("experiment")) /\ ExperimentOK(Experiment)
<1>1. /\ Lock = [data |-> files[All("data")], core |-> files[All("core")]]
      /\ Whole(All("experiment"))
  BY DEF LocksVerified, LockVerified, TrainingLock, Lock
<1>2. Lock \in Locks
  BY <1>1, PathsAre DEF IInv, TypeInv, Holds, Sources, Locks
<1>3. ExperimentOK(Experiment)
  BY <1>1, PathsAre DEF IInv, FileInv, Experiment
<1> QED BY <1>1, <1>2, <1>3, MarksAssumption

LEMMA WriteProtocolStep ==
  ASSUME IInv, WriteProtocol
  PROVE  IInv'
<1> DEFINE path == All("protocol")
           new == [retired |-> files[<<"manifest", "v1">>], seal |-> files[<<"seal", "smoke">>],
                   result |-> files[<<"result", "smoke">>]]
<1>1. /\ files[path] = Absent /\ files' = [files EXCEPT ![path] = new]
      /\ UNCHANGED <<git, job, at, held, calls, opened>>
      /\ Whole(<<"manifest", "v1">>) /\ Whole(<<"seal", "smoke">>) /\ Whole(<<"result", "smoke">>)
  BY DEF WriteProtocol, Put
<1>2. /\ path \in Paths \ Sources /\ path # All("checkpoints")
      /\ \A r \in Runs, k \in Raw : <<k, r>> \in Paths \ {path}
      /\ <<"manifest", "v1">> \in Paths \ {path} /\ <<"seal", "smoke">> \in Paths \ {path}
      /\ <<"result", "smoke">> \in Paths \ {path}
  BY PathsAre DEF All, Sources, Raw, Runs, Cohorts
<1>3. DOMAIN files' = Paths /\ files'[path] = new /\ \A p \in Paths \ {path} : files'[p] = files[p]
  BY <1>1, <1>2 DEF IInv, TypeInv
<1>4. Moves({})
  BY <1>1, <1>2, <1>3 DEF Moves, Kept, git
<1>5. new \in Protocols
  <2>1. /\ files[<<"manifest", "v1">>] \in FirstManifests
        /\ files[<<"seal", "smoke">>] \in SmokeSeals
        /\ files[<<"result", "smoke">>] \in SmokeResults
    BY <1>1, <1>2 DEF IInv, TypeInv, Holds, Whole, Runs
  <2> QED BY <2>1 DEF Protocols
<1>6. ASSUME NEW v, v = new PROVE ProtocolOK(v)'
  <2>1. SmokeResultOK(v.result)
    BY <1>1, <1>2, <1>6 DEF IInv, FileInv
  <2>2. SmokeResultOK(v.result)'
    BY <1>4, <2>1, KeptFacts
  <2> QED BY <1>1, <1>2, <1>3, <1>6, <2>2 DEF ProtocolOK, Whole, Marks
<1> HIDE DEF new
<1>7. ASSUME NEW v, v = files'[path] PROVE ProtocolOK(v)'
  BY <1>3, <1>6, <1>7
<1>8. FileInv(path)' /\ Holds(path, files[path])'
  BY <1>3, <1>5, <1>7 DEF FileInv, Holds, All, Sources, Cohorts, Runs
<1>9. TypeInv'
  <2>1. \A p \in Paths : Holds(p, files'[p])
    BY <1>3, <1>8 DEF IInv, TypeInv
  <2> QED BY <1>1, <1>3, <2>1 DEF IInv, TypeInv, git
<1>10. GitInv'
  BY <1>1, <1>2, <1>3, KeptGit
<1> QED BY <1>1, <1>3, <1>4, <1>8, <1>9, <1>10, StepInv

\* The manifest that a builder holds.
LEMMA ManifestBuilt ==
  ASSUME IInv, NEW c \in Cohorts, CanBuild(c)
  PROVE  ManifestOK(c, Manifest(c))
<1>1. Lock \in Locks /\ Whole(All("experiment")) /\ Experiment \in Experiments
  BY VerifiedLocks DEF CanBuild, ExperimentOK
<1>2. /\ PromptsOf(c) = PairedPrompts(CohortGames(c)) /\ PromptsOf(c) \in Seq(Texts)
      /\ CohortGames(c) \in Seq(ToSet(Source))
  BY PairedPromptsAre, CohortGamesAre DEF PromptsOf, Cohorts
<1>3. head[All("core")] \in Versions /\ head[All("protocol")] \in Marks \cup Protocols
  BY DEF IInv, TypeInv
<1>4. CASE c = "v1"
  <2>1. head[All("protocol")] \in Marks
    BY <1>3, <1>4 DEF IInv, GitInv, CanBuild
  <2>2. Manifest(c) \in FirstManifests
    BY <1>1, <1>2, <1>3, <1>4, <2>1
       DEF Manifest, FirstManifests, Manifests, RevisionOf, Lock, Experiment
  <2> QED BY <1>1, <1>2, <1>4, <2>2 DEF ManifestOK, Manifest, Experiment
<1>5. CASE c = "v2"
  <2>1. Protocol \in Protocols
    BY <1>5, PathsAre DEF CanBuild, CommitmentsVerified, Whole, IInv, TypeInv, Holds, Protocol
  <2>2. Manifest(c) \in SecondManifests
    BY <1>1, <1>2, <1>3, <1>5, <2>1
       DEF Manifest, SecondManifests, Manifests, RevisionOf, Lock, Experiment
  <2> QED BY <1>1, <1>2, <1>5, <2>2 DEF ManifestOK, Manifest, Experiment
<1> QED BY <1>4, <1>5 DEF Cohorts

LEMMA BuildCanaryStep ==
  ASSUME IInv, NEW i \in Procs, BuildCanary(i)
  PROVE  IInv'
<1>1. ASSUME NEW c \in Cohorts, CanBuild(c), Begin(i, "build", c, "prompts", Manifest(c)),
             UNCHANGED <<files, git, calls, opened, faults>>
      PROVE  IInv'
  <2>1. /\ OthersWait(i) /\ job'[i].cmd = "build" /\ at'[i] = "prompts" /\ job'[i].of = c
        /\ held'[i] = Manifest(c)
    BY <1>1 DEF Begin, OthersWait, IInv, TypeInv
  <2>2. ManifestOK(c, held'[i])
    BY <1>1, <2>1, ManifestBuilt
  <2>3. JobInv(i)' /\ \A r \in Runs : OwnsByMarking(i, r)
    BY <1>1, <2>1, <2>2
       DEF JobInv, Stands, ManifestOK, Whole, Experiment, OwnsByMarking, Working, Running
  <2> QED BY <1>1, <2>1, <2>3, QuietStep
<1>2. ASSUME NEW c \in Cohorts, job[i].of = c, Stands(i, "build", "prompts"),
             Create(i, <<"prompts", c>>, held[i].prompts, "manifest", held[i]),
             UNCHANGED <<calls, opened, faults>>
      PROVE  IInv'
  <2> DEFINE path == <<"prompts", c>>
  <2>1. path \in Paths \ Sources /\ path # All("checkpoints") /\ path \notin Raw \X Runs
    BY PathsAre DEF All, Sources, Raw
  <2>2. ManifestOK(c, held[i])
    BY <1>2 DEF IInv, JobInv, Stands
  <2>3. CASE files[path] # Absent
    BY <1>2, <2>3, EndStep DEF Create
  <2>4. CASE files[path] = Absent
    <3>1. /\ Goes(i, "manifest", held[i]) /\ UNCHANGED git
          /\ files' = [files EXCEPT ![path] = held[i].prompts]
      BY <1>2, <2>4 DEF Create, Put
    <3>2. Creates(i, path) /\ files'[path] = held[i].prompts
      BY <1>2, <2>1, <2>4, <3>1, CreateFacts DEF IInv, TypeInv
    <3>3. /\ OthersWait(i) /\ job' = job /\ at'[i] = "manifest" /\ held'[i] = held[i]
      BY <3>1 DEF Goes, OthersWait, IInv, TypeInv
    <3>4. Holds(path, files[path])' /\ FileInv(path)'
      <4>1. files'[path] \in Seq(Texts)
        BY <2>2, <3>2, PairedPromptsAre DEF ManifestOK
      <4> QED BY <4>1 DEF Holds, FileInv, All, Sources, Cohorts, Runs
    <3>5. Moves({i})
      BY <3>2, <3>3, CreateMoves
    <3>6. ManifestOK(c, held[i])'
      BY <2>2, <3>3, <3>5, KeptFacts
    <3>7. JobInv(i)' /\ \A r \in Runs : OwnsByMarking(i, r)
      BY <1>2, <3>3, <3>6 DEF JobInv, Stands, OwnsByMarking, Working, Running
    <3> QED BY <3>2, <3>3, <3>4, <3>7, CreateStep
  <2> QED BY <2>3, <2>4
<1>3. ASSUME NEW c \in Cohorts, job[i].of = c, Stands(i, "build", "manifest"),
             Create(i, <<"manifest", c>>, held[i], "end", << >>),
             UNCHANGED <<calls, opened, faults>>
      PROVE  IInv'
  <2> DEFINE path == <<"manifest", c>>
  <2>1. path \in Paths \ Sources /\ path # All("checkpoints") /\ path \notin Raw \X Runs
    BY PathsAre DEF All, Sources, Raw
  <2>2. ManifestOK(c, held[i])
    BY <1>3 DEF IInv, JobInv, Stands
  <2>3. CASE files[path] # Absent
    BY <1>3, <2>3, EndStep DEF Create
  <2>4. CASE files[path] = Absent
    <3>1. End(i) /\ files' = [files EXCEPT ![path] = held[i]] /\ UNCHANGED git
      BY <1>3, <2>4 DEF Create, Put
    <3>2. Creates(i, path) /\ files'[path] = held[i]
      BY <1>3, <2>1, <2>4, <3>1, CreateFacts DEF IInv, TypeInv
    <3>3. OthersWait(i)
      BY <3>1 DEF End, OthersWait, IInv, TypeInv
    <3>4. Moves({i})
      BY <3>2, <3>3, CreateMoves
    <3>5. ManifestOK(c, files[path])'
      BY <2>2, <3>2, <3>4, KeptFacts
    <3>6. FileInv(path)'
      BY <3>5 DEF FileInv, All, Cohorts, Runs
    <3>7. Holds(path, files[path])'
      BY <2>2, <3>2 DEF Holds, ManifestOK, All, Sources, Cohorts, Runs
    <3> QED BY <3>1, <3>2, <3>6, <3>7, LastWrite
  <2> QED BY <2>3, <2>4
<1>4. Stands(i, "build", "prompts") \/ Stands(i, "build", "manifest") => job[i].of \in Cohorts
  BY DEF IInv, JobInv, Stands
<1> QED BY <1>1, <1>2, <1>3, <1>4 DEF BuildCanary

-----------------------------------------------------------------------------
(* Git, edits and deaths.                                                   *)

LEMMA CommitStep ==
  ASSUME IInv, Commit
  PROVE  IInv'
<1>1. /\ head' = [p \in Tracked |-> files[p]] /\ pushed' = FALSE
      /\ UNCHANGED <<files, public, job, at, held, calls, opened>>
  BY DEF Commit
<1>2. /\ All("core") \in Tracked /\ All("protocol") \in Tracked
      /\ All("core") \in Paths /\ All("protocol") \in Paths
  BY PathsAre DEF Tracked, All
<1>3. Moves({})
  BY <1>1 DEF Moves, Kept
<1>4. TypeInv'
  BY <1>1, <1>2 DEF IInv, TypeInv, Holds, Sources
<1>5. GitInv'
  <2>1. head'[All("protocol")] \notin Marks => files[<<"manifest", "v1">>] # Absent
    BY <1>1, <1>2 DEF IInv, FileInv, ProtocolOK, Whole
  <2> QED BY <1>1, <2>1 DEF IInv, GitInv
<1> QED BY <1>1, <1>3, <1>4, <1>5, StepInv

LEMMA PushStep ==
  ASSUME IInv, Push
  PROVE  IInv'
<1>1. /\ public' = public \cup {p \in Tracked : head[p] \notin Marks}
      /\ UNCHANGED <<files, head, job, at, held, calls, opened>>
  BY DEF Push
<1>2. Moves({})
  BY <1>1 DEF Moves, Kept
<1>3. TypeInv'
  BY <1>1 DEF IInv, TypeInv
<1>4. GitInv'
  BY <1>1 DEF IInv, GitInv
<1> QED BY <1>1, <1>2, <1>3, <1>4, StepInv

LEMMA EditStep ==
  ASSUME IInv, Edit
  PROVE  IInv'
<1>1. /\ UNCHANGED <<git, job, at, held, calls, opened>>
      /\ \E p \in Paths : \E v \in Versions \cup {Edited} :
           /\ files' = [files EXCEPT ![p] = v]
           /\ \/ p \in Sources /\ v \in Versions /\ v > files[p]
              \/ /\ p[2] # "all" /\ Whole(p) /\ v = Edited
                 /\ p[1] \in {"manifest", "prompts"} \/ Whole(<<"seal", p[2]>>)
  BY CanaryAssumption DEF Edit, Put
<1>2. PICK p \in Paths, v \in Versions \cup {Edited} :
           /\ files' = [files EXCEPT ![p] = v]
           /\ \/ p \in Sources /\ v \in Versions /\ v > files[p]
              \/ /\ p[2] # "all" /\ Whole(p) /\ v = Edited
                 /\ p[1] \in {"manifest", "prompts"} \/ Whole(<<"seal", p[2]>>)
  BY <1>1
<1>3. DOMAIN files' = Paths /\ files'[p] = v /\ \A q \in Paths \ {p} : files'[q] = files[q]
  BY <1>2 DEF IInv, TypeInv
<1>4. \A q \in Sources : q[2] = "all"
  BY DEF Sources, All
<1>5. \A q \in Paths : Kept(q)
  BY <1>2, <1>3 DEF Kept
<1>6. ASSUME NEW r \in Runs, NEW k \in Raw
      PROVE  files'[<<k, r>>] = files[<<k, r>>] \/ Whole(<<"seal", r>>)
  <2>1. CASE p = <<k, r>>
    <3>1. p[1] = k /\ p[2] = r /\ k \notin {"manifest", "prompts"} /\ r # "all"
      BY <2>1 DEF Raw, Runs, Cohorts
    <3> QED BY <1>2, <1>4, <3>1
  <2>2. CASE p # <<k, r>>
    BY <1>3, <2>2, PathsAre
  <2> QED BY <2>1, <2>2
<1>7. Moves({})
  BY <1>1, <1>5, <1>6 DEF Moves, git
<1>8. Holds(p, v) /\ FileInv(p)'
  <2>1. CASE p \in Sources
    <3>1. v \in Versions
      BY <1>2, <1>4, <2>1
    <3> QED BY <1>3, <2>1, <3>1 DEF Holds, FileInv, Sources, All, Cohorts, Runs
  <2>2. CASE p \notin Sources
    <3>1. v \in Marks /\ p[2] # "all"
      BY <1>2, <2>2 DEF Marks
    <3> QED BY <1>3, <2>2, <3>1 DEF Holds, FileInv, Whole, All
  <2> QED BY <2>1, <2>2
<1>9. TypeInv'
  <2>1. \A q \in Paths : Holds(q, files'[q])
    BY <1>3, <1>8 DEF IInv, TypeInv
  <2> QED BY <1>1, <1>3, <2>1 DEF IInv, TypeInv, git
<1>10. GitInv'
  <2>1. <<"manifest", "v1">> \in Paths /\ <<"manifest", "v1">> \notin Sources
        /\ <<"manifest", "v1">> # All("checkpoints")
    BY PathsAre DEF Cohorts, All, Sources
  <2> QED BY <1>1, <1>5, <2>1, KeptFile, KeptGit
<1> QED BY <1>1, <1>3, <1>7, <1>8, <1>9, <1>10, StepInv

\* Where an invocation may die inside a write.
LEMMA Targets ==
  ASSUME IInv, NEW i \in Procs, job[i] # Idle, files[Target(i)] = Absent
  PROVE  \E path \in Paths \ Sources :
           /\ path = Target(i) /\ path # All("checkpoints")
           /\ path \in Raw \X Runs => path[1] = "marker" \/ Busy(i, path[2])
<1>1. JobInv(i)
  BY DEF IInv
<1>2. CASE job[i].cmd = "lock"
  <2>1. Target(i) = All("trainingLock")
    BY <1>1, <1>2 DEF JobInv, Target, Stands
  <2> QED BY <2>1, PathsAre DEF All, Sources, Raw
<1>3. CASE job[i].cmd = "experiment"
  <2>1. Target(i) = All("experiment")
    BY <1>1, <1>3 DEF JobInv, Target, Stands
  <2> QED BY <2>1, PathsAre DEF All, Sources, Raw
<1>4. CASE job[i].cmd = "train"
  <2>1. Target(i) = All("core")
    BY <1>1, <1>4 DEF JobInv, Target, Stands
  <2>2. files[All("core")] \in Versions
    BY PathsAre DEF IInv, TypeInv, Holds, Sources
  <2> QED BY <2>1, <2>2, MarksAssumption DEF Marks
<1>5. CASE job[i].cmd = "build"
  <2>1. Target(i) = <<at[i], job[i].of>> /\ at[i] \in {"prompts", "manifest"} /\ job[i].of \in Cohorts
    BY <1>1, <1>5 DEF JobInv, Target, Stands
  <2>2. PICK k \in {"prompts", "manifest"}, c \in Cohorts : Target(i) = <<k, c>>
    BY <2>1
  <2>3. <<k, c>> \in Paths \ Sources /\ <<k, c>> # All("checkpoints") /\ <<k, c>> \notin Raw \X Runs
    BY PathsAre DEF All, Sources, Raw
  <2> QED BY <2>2, <2>3
<1>6. ASSUME job[i].cmd = "run", NEW r \in Runs, job[i].of = r
      PROVE  \E k \in Raw \cup {"result"} :
               /\ Target(i) = <<k, r>>
               /\ k \in Raw => k = "marker" \/ Busy(i, r)
  <2>1. RunInv(i, r)
    BY <1>1, <1>6 DEF JobInv
  <2> QED BY <1>6, <2>1 DEF RunInv, Target, Stands, Raw, Busy, Running
<1>7. ASSUME job[i].cmd = "score", NEW c \in Cohorts, job[i].of = c
      PROVE  Target(i) = All("core") \/ Target(i) = <<"result", c>>
  <2>1. ScoreInv(i, c)
    BY <1>1, <1>7 DEF JobInv
  <2> QED BY <1>7, <2>1 DEF ScoreInv, Target, Stands
<1>8. CASE job[i].cmd = "run"
  <2>1. PICK r \in Runs : job[i].of = r
    BY <1>1, <1>8 DEF JobInv, RunInv
  <2>2. PICK k \in Raw \cup {"result"} :
          /\ Target(i) = <<k, r>>
          /\ k \in Raw => k = "marker" \/ Busy(i, r)
    BY <1>6, <1>8, <2>1
  <2>3. <<k, r>> \in Paths \ Sources /\ <<k, r>> # All("checkpoints")
    BY PathsAre DEF All, Sources, Raw
  <2>4. <<k, r>> \in Raw \X Runs => <<k, r>>[1] = "marker" \/ Busy(i, <<k, r>>[2])
    BY <2>2
  <2> QED BY <2>2, <2>3, <2>4
<1>9. CASE job[i].cmd = "score"
  <2>1. PICK c \in Cohorts : job[i].of = c
    BY <1>1, <1>9 DEF JobInv, ScoreInv
  <2>2. files[All("core")] # Absent
    BY PathsAre, MarksAssumption DEF IInv, TypeInv, Holds, Sources, Marks
  <2>3. Target(i) = <<"result", c>>
    BY <1>7, <1>9, <2>1, <2>2
  <2>4. <<"result", c>> \in Paths \ Sources /\ <<"result", c>> # All("checkpoints")
        /\ <<"result", c>> \notin Raw \X Runs
    BY PathsAre DEF All, Sources, Raw, Runs
  <2> QED BY <2>3, <2>4
<1> QED BY <1>1, <1>2, <1>3, <1>4, <1>5, <1>8, <1>9 DEF JobInv

LEMMA DieStep ==
  ASSUME IInv, NEW i \in Procs, Die(i)
  PROVE  IInv'
<1>1. End(i) /\ UNCHANGED <<calls, opened>> /\ job[i] # Idle
  BY DEF Die
<1>2. CASE UNCHANGED <<files, git>>
  BY <1>1, <1>2, EndStep
<1>3. CASE files[Target(i)] = Absent /\ Put(Target(i), Torn)
  <2>1. PICK path \in Paths \ Sources :
           /\ path = Target(i) /\ path # All("checkpoints")
           /\ path \in Raw \X Runs => path[1] = "marker" \/ Busy(i, path[2])
    BY <1>1, <1>3, Targets
  <2>2. files' = [files EXCEPT ![path] = Torn] /\ UNCHANGED git /\ files[path] = Absent
    BY <1>3, <2>1 DEF Put
  <2>3. Creates(i, path) /\ files'[path] = Torn
    BY <1>1, <2>1, <2>2, CreateFacts DEF IInv, TypeInv
  <2> QED BY <1>1, <2>3, TornStep
<1> QED BY <1>2, <1>3 DEF Die

-----------------------------------------------------------------------------
(* The two arms.                                                            *)

LEMMA CanaryLoaded ==
  ASSUME IInv, NEW c \in Cohorts, CanaryLoads(c)
  PROVE  /\ files[<<"manifest", c>>] \in FirstManifests \cup SecondManifests
         /\ Whole(<<"manifest", c>>) /\ files[<<"manifest", c>>].prompts = PromptsOf(c)
         /\ files[<<"prompts", c>>] = PromptsOf(c) /\ PromptsOf(c) \in Seq(Texts)
         /\ Whole(All("experiment")) /\ files[<<"manifest", c>>].experiment = Experiment
<1>1. Whole(<<"manifest", c>>) /\ files[<<"prompts", c>>] = files[<<"manifest", c>>].prompts
  BY DEF CanaryLoads, ManifestLoads
<1>2. ManifestOK(c, files[<<"manifest", c>>])
  BY <1>1, PathsAre DEF IInv, FileInv
<1> QED BY <1>1, <1>2, PairedPromptsAre DEF ManifestOK

LEMMA GatedArms ==
  ASSUME NEW base \in Seq(Records), NEW adapter \in Seq(Records), Gated(base), Gated(adapter)
  PROVE  Gated(base \o adapter) /\ Len(base \o adapter) = Len(base) + Len(adapter)
<1>1. /\ base \o adapter \in Seq(Records) /\ Len(base \o adapter) = Len(base) + Len(adapter)
      /\ \A n \in 1 .. Len(base) + Len(adapter) :
           (base \o adapter)[n] = IF n <= Len(base) THEN base[n] ELSE adapter[n - Len(base)]
  BY ConcatProperties
<1>2. Len(base) \in Nat /\ Len(adapter) \in Nat
      /\ DOMAIN base = 1 .. Len(base) /\ DOMAIN adapter = 1 .. Len(adapter)
      /\ DOMAIN (base \o adapter) = 1 .. Len(base) + Len(adapter)
  BY <1>1, LenProperties
<1>3. ASSUME NEW n \in 1 .. Len(base) + Len(adapter)
      PROVE  \/ n \in DOMAIN base /\ (base \o adapter)[n] = base[n]
             \/ n - Len(base) \in DOMAIN adapter /\ (base \o adapter)[n] = adapter[n - Len(base)]
  BY <1>1, <1>2
<1> QED BY <1>1, <1>2, <1>3 DEF Gated

LEMMA SmokeCalls ==
  ASSUME IInv, NEW x, SmokeResultOK(x), x.passed
  PROVE  /\ files[<<"seal", "smoke">>] # Absent
         /\ Len(calls["smoke"]) = 2 /\ Gated(calls["smoke"])
<1>1. /\ files[<<"seal", "smoke">>] # Absent
      /\ x.seal.base \in Seq(Records) /\ x.seal.adapter \in Seq(Records)
      /\ Covers(x.seal.base, PromptsOf("smoke")) /\ Covers(x.seal.adapter, PromptsOf("smoke"))
      /\ calls["smoke"] = x.seal.base \o x.seal.adapter
      /\ Gated(x.seal.base) /\ Gated(x.seal.adapter)
  BY DEF SmokeResultOK, WholeRun
<1>2. PromptsOf("smoke") \in Seq(Texts) /\ Len(PromptsOf("smoke")) = 1
  BY DEF PromptsOf, SmokePrompts, Texts
<1>3. Len(x.seal.base) = 1 /\ Len(x.seal.adapter) = 1
  BY <1>1, <1>2, CoversAre
<1>4. \A base, adapter \in Seq(Records) :
        Gated(base) /\ Gated(adapter) =>
          Gated(base \o adapter) /\ Len(base \o adapter) = Len(base) + Len(adapter)
  BY GatedArms
<1>5. /\ Gated(x.seal.base \o x.seal.adapter)
      /\ Len(x.seal.base \o x.seal.adapter) = Len(x.seal.base) + Len(x.seal.adapter)
  BY <1>1, <1>4
<1> QED BY <1>1, <1>3, <1>5

LEMMA SecondIsReady ==
  ASSUME IInv, CanRun("v2")
  PROVE  SecondReady
<1>1. /\ CommitmentsVerified /\ CanaryLoads("v2") /\ TreeClean /\ pushed
  BY DEF CanRun, RevisionPublished
<1>2. Whole(All("protocol")) /\ ProtocolOK(Protocol)
  BY <1>1, PathsAre DEF CommitmentsVerified, IInv, FileInv, Protocol
<1>3. /\ SmokeResultOK(Protocol.result) /\ Protocol.result.passed
      /\ files[<<"manifest", "v1">>] \notin Marks
  BY <1>1, <1>2 DEF CommitmentsVerified, SmokeVerified, ProtocolOK
<1>4. files[<<"manifest", "v2">>] \notin Marks /\ files[<<"prompts", "v2">>] \in Seq(Texts)
  BY <1>1, CanaryLoaded DEF Cohorts, Whole
<1>5. files[<<"prompts", "v2">>] \notin Marks
  BY <1>4, MarksAssumption
<1>6. \A p \in {All("protocol"), <<"manifest", "v1">>, <<"manifest", "v2">>, <<"prompts", "v2">>} :
        p \in Tracked \ {All("core")}
  BY PathsAre DEF Tracked, All, Cohorts
<1>7. \A p \in {All("protocol"), <<"manifest", "v1">>, <<"manifest", "v2">>, <<"prompts", "v2">>} :
        head[p] = files[p]
  BY <1>1, <1>6 DEF TreeClean
<1>8. {All("protocol"), <<"manifest", "v1">>, <<"manifest", "v2">>, <<"prompts", "v2">>} \subseteq public
  BY <1>1, <1>2, <1>3, <1>4, <1>5, <1>6, <1>7 DEF IInv, GitInv, Whole
<1> QED BY <1>3, <1>8, SmokeCalls DEF SecondReady

LEMMA BeginRunStep ==
  ASSUME IInv, NEW i \in Procs, BeginRun(i)
  PROVE  IInv'
<1>1. PICK r \in Runs :
        /\ CanRun(r) /\ Begin(i, "run", r, "marking", RunInputs(r))
        /\ UNCHANGED <<files, git, calls, opened>>
  BY DEF BeginRun
<1>2. /\ OthersWait(i) /\ job'[i].cmd = "run" /\ job'[i].of = r /\ at'[i] = "marking"
      /\ held'[i] = RunInputs(r)
  BY <1>1 DEF Begin, OthersWait, IInv, TypeInv
<1>3. Lock \notin Marks /\ Whole(All("experiment")) /\ (r = "v2" => SecondReady)
  BY <1>1, VerifiedLocks, SecondIsReady DEF CanRun
<1>4. r # "smoke" => files[<<"prompts", r>>] = PromptsOf(r)
  BY <1>1, CanaryLoaded DEF CanRun, Runs
<1>5. RunInputs(r) = [prompts |-> PromptsOf(r), sampler |-> Experiment.sampler, records |-> << >>]
  BY <1>4 DEF RunInputs, PromptsOf, Experiment
<1>6. CallsPerArm(r) \in Nat
  BY PromptsAre
<1>7. RunInv(i, r)'
  <2>1. SecondReady => SecondReady'
    BY <1>1 DEF SecondReady, git
  <2>2. Len(held'[i].records) <= CallsPerArm(r) /\ held'[i].records = << >>
        /\ held'[i].records \in Seq(Records)
    BY <1>2, <1>5, <1>6
  <2> QED BY <1>1, <1>2, <1>3, <1>5, <2>1, <2>2
          DEF RunInv, Busy, Running, Lock, Experiment, Whole
<1>8. JobInv(i)' /\ \A q \in Runs : OwnsByMarking(i, q)
  BY <1>2, <1>7 DEF JobInv, Stands, OwnsByMarking, Working, Running
<1> QED BY <1>1, <1>2, <1>8, QuietStep

LEMMA MarkAttemptStep ==
  ASSUME IInv, NEW i \in Procs, MarkAttempt(i)
  PROVE  IInv'
<1>1. /\ Stands(i, "run", "marking") /\ UNCHANGED <<calls, opened>>
      /\ RunInv(i, job[i].of)
  BY DEF MarkAttempt, IInv, JobInv, Stands
<1>2. PICK r \in Runs : job[i].of = r
  BY <1>1 DEF RunInv
<1> DEFINE path == <<"marker", r>>
<1>3. path \in Paths \ Sources /\ path # All("checkpoints") /\ path[1] = "marker"
  BY PathsAre DEF All, Sources, Raw
<1>4. CASE ~(files[path] = Absent /\ (r = "smoke" \/ CanaryLoads(r)))
  BY <1>1, <1>2, <1>4, EndStep DEF MarkAttempt, Create
<1>5. CASE files[path] = Absent /\ (r = "smoke" \/ CanaryLoads(r))
  <2>1. /\ Goes(i, "base", held[i]) /\ UNCHANGED git
        /\ files' = [files EXCEPT ![path] = Marker(r)]
    BY <1>2, <1>5 DEF MarkAttempt, Create, Put
  <2>2. Creates(i, path) /\ files'[path] = Marker(r)
    BY <1>1, <1>3, <1>5, <2>1, CreateFacts DEF IInv, TypeInv
  <2>3. OthersWait(i) /\ job' = job /\ at'[i] = "base" /\ held'[i] = held[i]
    BY <2>1 DEF Goes, OthersWait, IInv, TypeInv
  <2>4. Moves({i})
    BY <2>2, <2>3, CreateMoves
  <2>5. RunInv(i, r)
    BY <1>1, <1>2
  <2>6. /\ Marker(r) \in IF r = "smoke" THEN SmokeMarkers ELSE CanaryMarkers
        /\ r = "smoke" => Marker(r).experiment = Experiment
    <3>1. CASE r = "smoke"
      <4>1. Lock \in Locks /\ Experiment \in Experiments
        BY <2>5, PathsAre DEF RunInv, IInv, TypeInv, Holds, Lock, Experiment, Whole
      <4> QED BY <3>1, <4>1 DEF Marker, SmokeMarkers, Lock, Experiment
    <3>2. CASE r # "smoke"
      <4>1. /\ files[<<"manifest", r>>] \in FirstManifests \cup SecondManifests
            /\ files[<<"prompts", r>>] \in Seq(Texts)
        BY <1>5, <3>2, CanaryLoaded DEF Runs
      <4> QED BY <3>2, <4>1 DEF Marker, CanaryMarkers
    <3> QED BY <3>1, <3>2
  <2>7. Marker(r) \notin Marks
    BY <2>6, MarksAssumption
  <2>8. Experiment' = Experiment /\ Whole(All("experiment"))' /\ Lock' = Lock /\ Lock \notin Marks
    BY <2>4, <2>5, KeptInputs DEF RunInv
  <2>9. Holds(path, files[path])' /\ FileInv(path)'
    BY <1>3, <2>2, <2>6, <2>8 DEF Holds, FileInv, All, Cohorts, Runs
  <2>10. /\ calls[r] = << >> /\ \A k \in Raw : files[<<k, r>>] = Absent
    BY <1>5 DEF IInv, OwnerInv
  <2>11. \A k \in {"base", "adapter", "seal"} : files'[<<k, r>>] = Absent
    <3>1. \A k \in {"base", "adapter", "seal"} : k \in Raw /\ <<k, r>> \in Paths \ {path}
      BY PathsAre DEF Raw
    <3> QED BY <2>2, <2>10, <3>1 DEF Creates
  <2>12. BusyInv(i, r)'
    BY <1>1, <2>2, <2>3, <2>5, <2>7, <2>10, <2>11 DEF BusyInv, RunInv, Stands, Whole
  <2>13. RunInv(i, r)'
    <3>1. SecondReady => SecondReady'
      BY <2>4, KeptFacts
    <3> QED BY <1>1, <2>2, <2>3, <2>5, <2>7, <2>8, <2>12, <3>1 DEF RunInv, Stands, Marks
  <2>14. JobInv(i)' /\ \A q \in Runs : OwnsByMarking(i, q)
    BY <1>1, <1>2, <1>5, <2>3, <2>13 DEF JobInv, Stands, OwnsByMarking, Working, Running
  <2> QED BY <2>2, <2>3, <2>9, <2>14, CreateStep
<1> QED BY <1>4, <1>5

\* An owner, and what it puts to which model next.
LEMMA OwnerAt ==
  ASSUME IInv, NEW i \in Procs, NEW r \in Runs, job[i].of = r, NEW place,
         Stands(i, "run", place), place \in {"base", "adapter", "sealing"}
  PROVE  /\ RunInv(i, r) /\ Busy(i, r) /\ BusyInv(i, r)
         /\ held[i].prompts = PromptsOf(r) /\ held[i].sampler = Experiment.sampler
         /\ Experiment.sampler \in Samplers
<1>1. RunInv(i, r) /\ Busy(i, r)
  BY DEF IInv, JobInv, Stands, Busy, Running
<1>2. Experiment \in Experiments
  BY <1>1, PathsAre DEF RunInv, IInv, FileInv, ExperimentOK, Experiment
<1>3. Experiment.sampler \in Samplers
  BY <1>2 DEF Experiments
<1>4. held[i].prompts = PromptsOf(r) /\ held[i].sampler = Experiment.sampler
  BY <1>1 DEF RunInv
<1> QED BY <1>1, <1>3, <1>4 DEF RunInv

LEMMA AppendToConcat ==
  ASSUME NEW s \in Seq(Records), NEW t \in Seq(Records), NEW e \in Records
  PROVE  Append(s \o t, e) = s \o Append(t, e)
<1>1. s \o t \in Seq(Records) /\ <<e>> \in Seq(Records)
  BY ConcatProperties
<1>2. Append(s \o t, e) = (s \o t) \o <<e>> /\ Append(t, e) = t \o <<e>>
  BY <1>1, AppendIsConcat
<1>3. (s \o t) \o <<e>> = s \o (t \o <<e>>)
  BY <1>1, ConcatAssociative
<1> QED BY <1>2, <1>3

Grown(memory, record) == [memory EXCEPT !.records = Append(@, record)]
Memory(prompts, sampler, records) ==
  [prompts |-> prompts, sampler |-> sampler, records |-> records]

LEMMA MemoryGrows ==
  ASSUME NEW p, NEW s, NEW done, NEW record
  PROVE  Grown(Memory(p, s, done), record) = Memory(p, s, Append(done, record))
BY DEF Grown, Memory

LEMMA SampleStep ==
  ASSUME IInv, NEW i \in Procs, Sample(i)
  PROVE  IInv'
<1>1. PICK arm \in {"base", "adapter"}, response \in Responses :
        /\ Stands(i, "run", arm) /\ Len(held[i].records) < Len(held[i].prompts)
        /\ LET record == RecordOf(held[i].prompts[Len(held[i].records) + 1],
                                  Model(arm, held[i].sampler), response)
           IN /\ Goes(i, arm, [held[i] EXCEPT !.records = Append(@, record)])
              /\ calls' = [calls EXCEPT ![job[i].of] = Append(@, record)]
        /\ UNCHANGED <<files, git, opened>>
  BY ArmsAre DEF Sample
<1>2. PICK r \in Runs : job[i].of = r
  BY <1>1 DEF IInv, JobInv, Stands, RunInv
<1> DEFINE n == CallsPerArm(r)
<1>3. /\ RunInv(i, r) /\ Busy(i, r) /\ BusyInv(i, r)
      /\ held[i].prompts = PromptsOf(r) /\ held[i].sampler = Experiment.sampler
      /\ Experiment.sampler \in Samplers
  BY <1>1, <1>2, OwnerAt
<1>4. /\ n \in Nat \ {0} /\ PromptsOf(r) \in Seq(Texts) /\ Len(PromptsOf(r)) = n
  BY PromptsAre DEF CallsPerArm
<1>5. PICK done \in Seq(Records) : held[i].records = done
  BY <1>3 DEF RunInv
<1>6. Len(done) \in Nat /\ Len(done) < n
  BY <1>1, <1>3, <1>4, <1>5
<1>7. PICK record : record = RecordOf(PromptsOf(r)[Len(done) + 1],
                                      Model(arm, Experiment.sampler), response)
  OBVIOUS
<1>8. /\ record \in Records /\ record.prompt = PromptsOf(r)[Len(done) + 1]
      /\ record.model = IF arm = "base" THEN BaseModel ELSE Experiment.sampler
  <2>1. PromptsOf(r)[Len(done) + 1] \in Texts
    BY <1>4, <1>6
  <2>2. Model(arm, Experiment.sampler) \in {BaseModel} \cup Samplers
    BY <1>3 DEF Model
  <2> QED BY <1>7, <2>1, <2>2, RecordsAre DEF Model
<1>9. /\ Goes(i, arm, [held[i] EXCEPT !.records = Append(@, record)])
      /\ calls' = [calls EXCEPT ![r] = Append(@, record)]
  BY <1>1, <1>2, <1>3, <1>5, <1>7
<1>10. calls[r] \in Seq(Records) /\ DOMAIN calls = Runs
  BY DEF IInv, TypeInv
<1>11. /\ DOMAIN calls' = Runs /\ calls'[r] = Append(calls[r], record)
       /\ \A q \in Runs \ {r} : calls'[q] = calls[q]
  BY <1>9, <1>10
<1>12. /\ OthersWait(i) /\ job' = job /\ at'[i] = arm
       /\ held'[i] = [held[i] EXCEPT !.records = Append(@, record)]
  BY <1>9 DEF Goes, OthersWait, IInv, TypeInv
<1>13. held'[i] = [prompts |-> PromptsOf(r), sampler |-> Experiment.sampler,
                   records |-> Append(done, record)]
  <2>1. held[i] = [prompts |-> PromptsOf(r), sampler |-> Experiment.sampler, records |-> done]
    BY <1>3, <1>5 DEF RunInv
  <2>2. held'[i] = Grown(Memory(PromptsOf(r), Experiment.sampler, done), record)
    BY <1>12, <2>1 DEF Grown, Memory
  <2>3. held'[i] = Memory(PromptsOf(r), Experiment.sampler, Append(done, record))
    BY <2>2, MemoryGrows
  <2> QED BY <2>3 DEF Memory
<1>14. Moves({i})
  BY <1>1, <1>3, <1>11, <1>12 DEF Moves, Kept, OthersWait, git
<1>15. TypeInv'
  <2>1. \A q \in Runs : calls'[q] \in Seq(Records)
    <3>1. Append(calls[r], record) \in Seq(Records)
      BY <1>8, <1>10
    <3> QED BY <1>11, <3>1 DEF IInv, TypeInv
  <2> QED BY <1>1, <1>11, <1>12, <2>1 DEF IInv, TypeInv, OthersWait, git
<1>16. GitInv'
  BY <1>1, KeptGit
<1>17. at[i] = arm /\ Stands(i, "run", arm)
  BY <1>1 DEF Stands
\* The new call is the next of its arm.
<1>18. PICK old \in Seq(Records) : calls[r] = old
  BY <1>10
<1>19. /\ Len(old) \in Nat
       /\ arm = "base" => old = done
       /\ arm = "adapter" => Len(old) = n + Len(done)
  <2>1. arm = "base" => old = done
    BY <1>3, <1>5, <1>17, <1>18 DEF BusyInv
  <2>2. ASSUME arm = "adapter" PROVE Len(old) = n + Len(done)
    <3>1. PICK base \in Seq(Records) :
            base = files[<<"base", r>>] /\ Covers(base, PromptsOf(r)) /\ old = base \o done
      BY <1>3, <1>5, <1>17, <1>18, <2>2 DEF BusyInv
    <3>2. Len(base) = n
      BY <1>4, <3>1, CoversAre
    <3> QED BY <3>1, <3>2
  <2> QED BY <2>1, <2>2
<1>20. /\ Len(Append(old, record)) = Len(old) + 1
       /\ DOMAIN Append(old, record) = 1 .. Len(old) + 1 /\ DOMAIN old = 1 .. Len(old)
       /\ Append(old, record)[Len(old) + 1] = record
       /\ \A k \in 1 .. Len(old) : Append(old, record)[k] = old[k]
  BY <1>8
<1>21. HistoryInv(r)'
  <2>1. HistoryInv(r)
    BY DEF IInv
  <2>2. /\ Experiment' = Experiment /\ Whole(All("experiment")) /\ Whole(All("experiment"))'
        /\ r = "v2" => SecondReady'
    BY <1>3, <1>14, KeptInputs, KeptFacts DEF RunInv
  <2>3. Len(Append(old, record)) <= 2 * n
    BY <1>4, <1>6, <1>17, <1>19, <1>20
  <2>4. ASSUME NEW k \in 1 .. Len(old) + 1
        PROVE  /\ Append(old, record)[k].prompt = PromptsOf(r)[IF k <= n THEN k ELSE k - n]
               /\ Append(old, record)[k].model = IF k <= n THEN BaseModel ELSE Experiment.sampler
    <3>1. CASE k <= Len(old)
      BY <1>18, <1>19, <1>20, <2>1, <3>1 DEF HistoryInv
    <3>2. CASE k = Len(old) + 1
      BY <1>4, <1>6, <1>8, <1>19, <1>20, <3>2
    <3> QED BY <1>19, <3>1, <3>2
  <2> HIDE DEF n
  <2> QED BY <1>11, <1>18, <1>20, <2>2, <2>3, <2>4 DEF HistoryInv, n
<1>22. BusyInv(i, r)'
  <2>1. arm = "base" => calls'[r] = Append(done, record)
    BY <1>11, <1>18, <1>19
  <2>2. ASSUME arm = "adapter"
        PROVE  calls'[r] = files[<<"base", r>>] \o Append(done, record)
    <3>1. PICK base \in Seq(Records) : base = files[<<"base", r>>] /\ old = base \o done
      BY <1>3, <1>5, <1>17, <1>18, <2>2 DEF BusyInv
    <3>2. Append(base \o done, record) = base \o Append(done, record)
      BY <1>8, AppendToConcat
    <3> QED BY <1>11, <1>18, <3>1, <3>2
  <2>3. held'[i].records = Append(done, record)
    BY <1>13
  <2> QED BY <1>1, <1>3, <1>12, <1>17, <2>1, <2>2, <2>3 DEF BusyInv, Whole
<1>23. RunInv(i, r)'
  <2>1. SecondReady => SecondReady'
    BY <1>14, KeptFacts
  <2>2. held'[i].records = Append(done, record) /\ Append(done, record) \in Seq(Records)
        /\ Len(Append(done, record)) <= n
    BY <1>4, <1>6, <1>8, <1>13
  <2>3. /\ Lock' = Lock /\ Experiment' = Experiment
        /\ Whole(All("experiment"))' = Whole(All("experiment"))
        /\ files'[<<"marker", r>>] = files[<<"marker", r>>]
    BY <1>1 DEF Lock, Experiment, Whole
  <2>4. files[<<"marker", r>>] # Absent
    BY <1>3 DEF BusyInv, Whole, Marks
  <2>5. held'[i] = [prompts |-> PromptsOf(r), sampler |-> Experiment'.sampler,
                    records |-> held'[i].records]
    BY <1>13, <2>2, <2>3
  <2> QED BY <1>3, <1>12, <1>22, <2>1, <2>2, <2>3, <2>4, <2>5 DEF RunInv
<1>24. JobInv(i)' /\ \A q \in Runs : OwnsByMarking(i, q)
  BY <1>1, <1>2, <1>12, <1>17, <1>23
     DEF JobInv, Stands, Idle, OwnsByMarking, Working, Running
<1> QED BY <1>1, <1>11, <1>14, <1>15, <1>16, <1>21, <1>24, StepInv

LEMMA MemoryEmptied ==
  ASSUME NEW p, NEW s, NEW done
  PROVE  [Memory(p, s, done) EXCEPT !.records = << >>] = Memory(p, s, << >>)
BY DEF Memory

LEMMA WriteArmStep ==
  ASSUME IInv, NEW i \in Procs, WriteArm(i)
  PROVE  IInv'
<1>1. PICK arm \in {"base", "adapter"} :
        /\ Stands(i, "run", arm) /\ Covers(held[i].records, held[i].prompts)
        /\ \/ Create(i, <<arm, job[i].of>>, held[i].records,
                     IF arm = "base" THEN "adapter" ELSE "sealing",
                     [held[i] EXCEPT !.records = << >>])
           \/ End(i) /\ UNCHANGED <<files, git>>
        /\ UNCHANGED <<calls, opened>>
  <2>1. PICK n \in {1, 2} :
          /\ Stands(i, "run", Arms[n]) /\ Covers(held[i].records, held[i].prompts)
          /\ \/ Create(i, <<Arms[n], job[i].of>>, held[i].records,
                       IF n = 1 THEN "adapter" ELSE "sealing",
                       [held[i] EXCEPT !.records = << >>])
             \/ End(i) /\ UNCHANGED <<files, git>>
          /\ UNCHANGED <<calls, opened>>
    BY DEF WriteArm, Arms
  <2>2. Arms[n] \in {"base", "adapter"} /\ (Arms[n] = "base") = (n = 1)
    BY DEF Arms
  <2> QED BY <2>1, <2>2
<1>2. PICK r \in Runs : job[i].of = r
  BY <1>1 DEF IInv, JobInv, Stands, RunInv
<1> DEFINE path == <<arm, r>>
<1>3. /\ RunInv(i, r) /\ Busy(i, r) /\ BusyInv(i, r) /\ held[i].prompts = PromptsOf(r)
  BY <1>1, <1>2, OwnerAt
<1>4. PICK done \in Seq(Records) : held[i].records = done
  BY <1>3 DEF RunInv
<1>5. at[i] = arm /\ job[i].cmd = "run" /\ files[path] = Absent /\ Covers(done, PromptsOf(r))
  BY <1>1, <1>3, <1>4 DEF Stands, BusyInv
<1>6. /\ path \in Paths \ Sources /\ path # All("checkpoints") /\ path[2] = r
  BY PathsAre DEF All, Sources, Raw
<1>7. CASE End(i) /\ UNCHANGED <<files, git>>
  BY <1>1, <1>7, EndStep
<1>8. CASE Create(i, <<arm, job[i].of>>, held[i].records,
                  IF arm = "base" THEN "adapter" ELSE "sealing",
                  [held[i] EXCEPT !.records = << >>])
  <2> DEFINE next == IF arm = "base" THEN "adapter" ELSE "sealing"
  <2>1. /\ Goes(i, next, [held[i] EXCEPT !.records = << >>]) /\ UNCHANGED git
        /\ files' = [files EXCEPT ![path] = done]
    BY <1>2, <1>4, <1>5, <1>8 DEF Create, Put
  <2>2. Creates(i, path) /\ files'[path] = done
    BY <1>1, <1>3, <1>5, <1>6, <2>1, CreateFacts DEF IInv, TypeInv
  <2>3. OthersWait(i) /\ job' = job /\ at'[i] = next /\ held'[i] = [held[i] EXCEPT !.records = << >>]
    BY <2>1 DEF Goes, OthersWait, IInv, TypeInv
  <2>4. held'[i] = [prompts |-> PromptsOf(r), sampler |-> Experiment.sampler, records |-> << >>]
    <3>1. held[i] = Memory(PromptsOf(r), Experiment.sampler, done)
      BY <1>3, <1>4 DEF RunInv, Memory
    <3>2. held'[i] = Memory(PromptsOf(r), Experiment.sampler, << >>)
      BY <2>3, <3>1, MemoryEmptied
    <3> QED BY <3>2 DEF Memory
  <2>5. Moves({i})
    BY <2>2, <2>3, CreateMoves
  <2>6. \A k \in Raw \ {arm} : files'[<<k, r>>] = files[<<k, r>>]
    <3>1. \A k \in Raw \ {arm} : <<k, r>> \in Paths \ {path}
      BY PathsAre
    <3> QED BY <2>2, <3>1 DEF Creates
  <2>7. done \o << >> = done
    BY ConcatEmptySeq
  <2>8. BusyInv(i, r)'
    <3>1. /\ Whole(<<"marker", r>>)' /\ files'[<<"seal", r>>] = Absent
          /\ held'[i].records = << >> /\ calls'[r] = calls[r]
      BY <1>1, <1>3, <2>4, <2>6 DEF BusyInv, Whole, Raw
    <3>2. CASE arm = "base"
      <4>1. files'[<<"adapter", r>>] = Absent /\ calls[r] = done /\ at'[i] = "adapter"
        BY <1>3, <1>4, <1>5, <2>3, <2>6, <3>2 DEF BusyInv, Raw
      <4>2. files'[<<"base", r>>] = done
        BY <2>2, <3>2
      <4> QED BY <1>5, <2>7, <3>1, <4>1, <4>2 DEF BusyInv
    <3>3. CASE arm = "adapter"
      <4>1. /\ files'[<<"base", r>>] = files[<<"base", r>>]
            /\ files[<<"base", r>>] \in Seq(Records) /\ Covers(files[<<"base", r>>], PromptsOf(r))
            /\ calls[r] = files[<<"base", r>>] \o done /\ at'[i] = "sealing"
        BY <1>3, <1>4, <1>5, <2>3, <2>6, <3>3 DEF BusyInv, Raw
      <4>2. files'[<<"adapter", r>>] = done
        BY <2>2, <3>3
      <4> QED BY <1>5, <3>1, <4>1, <4>2 DEF BusyInv
    <3> QED BY <3>2, <3>3
  <2>9. RunInv(i, r)'
    <3>1. /\ Lock' = Lock /\ Experiment' = Experiment /\ Whole(All("experiment"))'
          /\ SecondReady => SecondReady'
      BY <1>3, <2>5, KeptInputs, KeptFacts DEF RunInv
    <3>2. files'[<<"marker", r>>] # Absent
      BY <2>8 DEF BusyInv, Whole, Marks
    <3>3. held'[i].records = << >> /\ << >> \in Seq(Records) /\ Len(<< >>) <= CallsPerArm(r)
      BY <2>4, PromptsAre
    <3>4. held'[i] = [prompts |-> PromptsOf(r), sampler |-> Experiment'.sampler,
                      records |-> held'[i].records]
      BY <2>4, <3>1, <3>3
    <3>5. at'[i] \in {"adapter", "sealing"}
      BY <2>3
    <3> QED BY <1>3, <2>8, <3>1, <3>2, <3>3, <3>4, <3>5 DEF RunInv
  <2>10. Holds(path, files[path])' /\ FileInv(path)'
    BY <2>2 DEF Holds, FileInv, All, Sources, Cohorts, Runs
  <2>11. JobInv(i)' /\ \A q \in Runs : OwnsByMarking(i, q)
    BY <1>2, <1>5, <2>3, <2>9 DEF JobInv, Stands, Idle, OwnsByMarking, Working, Running
  <2> QED BY <2>2, <2>3, <2>10, <2>11, CreateStep
<1> QED BY <1>1, <1>7, <1>8

LEMMA SealOutputsStep ==
  ASSUME IInv, NEW i \in Procs, SealOutputs(i)
  PROVE  IInv'
<1>1. /\ Stands(i, "run", "sealing") /\ UNCHANGED <<calls, opened>>
      /\ RunInv(i, job[i].of)
  BY DEF SealOutputs, IInv, JobInv, Stands
<1>2. PICK r \in Runs : job[i].of = r
  BY <1>1 DEF RunInv
<1> DEFINE path == <<"seal", r>>
<1>3. /\ RunInv(i, r) /\ Busy(i, r) /\ BusyInv(i, r)
  BY <1>1, <1>2, OwnerAt
<1>4. /\ path \in Paths \ Sources /\ path # All("checkpoints") /\ path[2] = r
  BY PathsAre DEF All, Sources, Raw
<1>5. CASE ~CanSeal(r)
  BY <1>1, <1>2, <1>5, EndStep DEF SealOutputs
<1>6. CASE CanSeal(r)
  <2> DEFINE next == IF r = "smoke" THEN "gating" ELSE "end"
  <2>1. files[path] = Absent /\ at[i] = "sealing" /\ job[i].cmd = "run"
    BY <1>1, <1>3 DEF BusyInv, Stands
  <2>2. /\ IF next = "end" THEN End(i) ELSE Goes(i, next, held[i])
        /\ files' = [files EXCEPT ![path] = SealOf(r)] /\ UNCHANGED git
    BY <1>2, <1>6, <2>1 DEF SealOutputs, Create, Put
  <2>3. Creates(i, path) /\ files'[path] = SealOf(r)
    BY <1>1, <1>3, <1>4, <2>1, <2>2, CreateFacts DEF IInv, TypeInv
  <2>4. OthersWait(i)
    BY <2>2 DEF Goes, End, OthersWait, IInv, TypeInv
  <2>5. Moves({i})
    BY <2>3, <2>4, CreateMoves
  <2>6. /\ Experiment' = Experiment /\ Whole(All("experiment"))' /\ Lock' = Lock
        /\ SecondReady => SecondReady'
    BY <1>3, <2>5, KeptInputs, KeptFacts DEF RunInv
  <2>7. PICK s : s = SealOf(r)
    OBVIOUS
  <2>8. /\ s.base = files[<<"base", r>>] /\ s.adapter = files[<<"adapter", r>>]
        /\ s.marker = files[<<"marker", r>>]
        /\ r # "smoke" => /\ s.manifest = files[<<"manifest", r>>]
                          /\ s.prompts = files[<<"prompts", r>>]
    BY <2>7 DEF SealOf, SmokeSeal, GenerationSeal
  <2>9. /\ s.base \in Seq(Records) /\ s.adapter \in Seq(Records) /\ s.marker \notin Marks
        /\ Covers(s.base, PromptsOf(r)) /\ Covers(s.adapter, PromptsOf(r))
        /\ calls'[r] = s.base \o s.adapter
    BY <1>1, <1>3, <2>1, <2>8 DEF BusyInv, Whole
  <2>10. CASE r = "smoke"
    <3>1. s.marker.experiment = Experiment
      BY <1>3, <2>8, <2>9, <2>10, PathsAre DEF IInv, FileInv, Whole, Raw, Runs
    <3>2. ASSUME files'[path] # Absent PROVE SealOK(r, s)'
      BY <2>6, <2>9, <2>10, <3>1, <3>2 DEF SealOK, WholeRun
    <3>3. s \in SmokeSeals
      <4>1. s.marker \in SmokeMarkers
        BY <2>8, <2>9, <2>10, PathsAre DEF IInv, TypeInv, Holds, Raw, Runs
      <4>2. s = [k \in {"marker", "base", "adapter"} |-> files[<<k, r>>]]
        BY <2>7, <2>10 DEF SealOf, SmokeSeal
      <4>3. s = [marker |-> s.marker, base |-> s.base, adapter |-> s.adapter]
        BY <4>2
      <4> QED BY <2>9, <4>1, <4>3 DEF SmokeSeals
    <3>4. Holds(path, files[path])' /\ FileInv(path)'
      <4>1. Whole(path)' => SealOK(r, files[path])'
        BY <2>3, <2>7, <3>2 DEF Whole, Marks
      <4> QED BY <2>3, <2>7, <2>10, <3>3, <4>1 DEF Holds, FileInv, All, Sources, Cohorts, Runs
    <3>5. job' = job /\ at'[i] = "gating" /\ held'[i] = held[i]
      BY <2>2, <2>10 DEF Goes, IInv, TypeInv
    <3>6. RunInv(i, r)'
      <4>1. files'[<<"marker", r>>] # Absent
        BY <1>3, <2>5, KeptRun DEF BusyInv, Whole, Marks
      <4> QED BY <1>3, <2>6, <2>10, <3>5, <4>1 DEF RunInv, Busy
    <3>7. JobInv(i)' /\ \A q \in Runs : OwnsByMarking(i, q)
      BY <1>2, <2>1, <3>5, <3>6 DEF JobInv, Stands, Idle, OwnsByMarking, Working, Running
    <3> QED BY <2>3, <2>4, <3>4, <3>7, CreateStep
  <2>11. CASE r \in Cohorts
    <3>1. /\ CanaryLoads(r) /\ files[<<"marker", r>>] = Marker(r) /\ r # "smoke"
      BY <1>6, <2>11 DEF CanSeal, Cohorts
    <3>2. /\ s.marker = [manifest |-> s.manifest, prompts |-> s.prompts]
          /\ s.prompts = PromptsOf(r) /\ s.manifest.prompts = PromptsOf(r)
          /\ s.manifest.experiment = Experiment
      BY <2>8, <2>11, <3>1, CanaryLoaded DEF Marker
    <3>3. ASSUME files'[path] # Absent PROVE SealOK(r, s)'
      BY <2>6, <2>9, <3>1, <3>2, <3>3 DEF SealOK, WholeRun
    <3>4. Holds(path, files[path])' /\ FileInv(path)'
      <4>1. Whole(path)' => SealOK(r, files[path])'
        BY <2>3, <2>7, <3>3 DEF Whole, Marks
      <4> QED BY <3>1, <4>1 DEF Holds, FileInv, All, Sources, Cohorts, Runs
    <3> QED BY <2>2, <2>3, <3>1, <3>4, LastWrite
  <2> QED BY <2>10, <2>11 DEF Runs
<1> QED BY <1>5, <1>6

LEMMA GateSmokeStep ==
  ASSUME IInv, NEW i \in Procs, GateSmoke(i)
  PROVE  IInv'
<1> DEFINE path == <<"result", "smoke">>
           seal == SealOf("smoke")
           result == [passed |-> Gated(seal.base) /\ Gated(seal.adapter), seal |-> seal]
<1>1. path \in Paths \ Sources /\ path # All("checkpoints") /\ path \notin Raw \X Runs
  BY PathsAre DEF All, Sources, Raw, Runs
<1>2. UNCHANGED <<calls, opened>>
  BY DEF GateSmoke
<1>3. CASE ~(files[<<"seal", "smoke">>] = seal /\ files[path] = Absent)
  BY <1>2, <1>3, EndStep DEF GateSmoke, Create
<1>4. CASE files[<<"seal", "smoke">>] = seal /\ files[path] = Absent
  <2>1. End(i) /\ files' = [files EXCEPT ![path] = result] /\ UNCHANGED git
    BY <1>4 DEF GateSmoke, Create, Put
  <2>2. PICK x : x = result
    OBVIOUS
  <2>3. Creates(i, path) /\ files'[path] = x
    BY <1>1, <1>2, <1>4, <2>1, <2>2, CreateFacts DEF IInv, TypeInv
  <2>4. seal \in SmokeSeals
    <3>1. /\ files[<<"marker", "smoke">>] \in Marks \cup SmokeMarkers
          /\ files[<<"base", "smoke">>] \in Marks \cup Seq(Records)
          /\ files[<<"adapter", "smoke">>] \in Marks \cup Seq(Records)
      BY PathsAre DEF IInv, TypeInv, Holds, Raw, Runs
    <3>2. seal = [marker |-> files[<<"marker", "smoke">>], base |-> files[<<"base", "smoke">>],
                  adapter |-> files[<<"adapter", "smoke">>]]
      BY DEF SealOf, SmokeSeal
    <3> QED BY <3>1, <3>2 DEF SmokeSeals
  <2>5. Whole(<<"seal", "smoke">>)
    BY <1>4, <2>4, MarksAssumption DEF Whole
  <2>6. SealOK("smoke", seal)
    BY <1>4, <2>5, PathsAre DEF IInv, FileInv, Runs, Raw
  <2>7. SmokeResultOK(x)
    BY <2>2, <2>6 DEF SmokeResultOK, SealOK
  <2>8. x \in SmokeResults
    <3>1. (Gated(seal.base) /\ Gated(seal.adapter)) \in BOOLEAN
      OBVIOUS
    <3> QED BY <2>2, <2>4, <3>1 DEF SmokeResults
  <2>9. OthersWait(i)
    BY <2>1 DEF End, OthersWait, IInv, TypeInv
  <2>10. SmokeResultOK(x)'
    BY <2>3, <2>7, <2>9, CreateMoves, KeptFacts
  <2>11. Holds(path, files[path])' /\ FileInv(path)'
    BY <2>3, <2>8, <2>10 DEF Holds, FileInv, All, Sources, Cohorts, Runs
  <2> QED BY <2>1, <2>3, <2>11, LastWrite
<1> QED BY <1>3, <1>4

-----------------------------------------------------------------------------
(* Scoring.                                                                 *)

LEMMA BothArms ==
  ASSUME NEW base \in Seq(Records), NEW adapter \in Seq(Records), NEW size \in Nat,
         Len(base) = size, Len(adapter) = size
  PROVE  /\ Len(base \o adapter) = size + size
         /\ \A m \in 1 .. size :
              (base \o adapter)[m] = base[m] /\ (base \o adapter)[size + m] = adapter[m]
<1>1. /\ Len(base \o adapter) = size + size
      /\ \A n \in 1 .. size + size :
           (base \o adapter)[n] = IF n <= size THEN base[n] ELSE adapter[n - size]
  BY ConcatProperties
<1>2. ASSUME NEW m \in 1 .. size
      PROVE  /\ m \in 1 .. size + size /\ m <= size
             /\ size + m \in 1 .. size + size /\ ~(size + m <= size) /\ size + m - size = m
  OBVIOUS
<1> QED BY <1>1, <1>2

\* Every record of a whole run is the call of its place, and usable if that was answered validly.
LEMMA ScoredCalls ==
  ASSUME NEW c \in Cohorts, NEW pair, WholeRun(c, pair)
  PROVE  /\ Len(calls[c]) = 4 * CohortSize
         /\ \A arm \in {"base", "adapter"}, m \in 1 .. 2 * CohortSize :
              /\ CallTo(c, arm, m) = pair[arm][m]
              /\ Usable(pair[arm][m]) <=> CallTo(c, arm, m).response = "valid"
<1>1. CohortSize \in Nat /\ PromptsOf(c) \in Seq(Texts) /\ Len(PromptsOf(c)) = 2 * CohortSize
  BY CanaryAssumption, PairedPromptsAre DEF CallsPerArm
<1>2. PICK base \in Seq(Records), adapter \in Seq(Records) :
        /\ base = pair["base"] /\ adapter = pair["adapter"]
        /\ Covers(base, PromptsOf(c)) /\ Covers(adapter, PromptsOf(c))
        /\ calls[c] = base \o adapter
  BY DEF WholeRun
<1>3. /\ Len(base) = 2 * CohortSize /\ Len(adapter) = 2 * CohortSize
      /\ \A m \in 1 .. 2 * CohortSize : Consistent(base[m]) /\ Consistent(adapter[m])
  BY <1>1, <1>2, CoversAre
<1>4. PICK size \in Nat : size = 2 * CohortSize
  BY <1>1
<1>5. /\ Len(base \o adapter) = size + size
      /\ \A m \in 1 .. size :
           (base \o adapter)[m] = base[m] /\ (base \o adapter)[size + m] = adapter[m]
  BY <1>3, <1>4, BothArms
<1>6. Len(calls[c]) = 4 * CohortSize
  BY <1>1, <1>2, <1>4, <1>5
<1>7. \A record : Consistent(record) => (Usable(record) <=> record.response = "valid")
  BY DEF Consistent, Usable, Parsed, Unread
<1>8. ASSUME NEW arm \in {"base", "adapter"}, NEW m \in 1 .. size
      PROVE  CallTo(c, arm, m) = pair[arm][m] /\ Consistent(pair[arm][m])
  BY <1>2, <1>3, <1>4, <1>5 DEF CallTo
<1> QED BY <1>4, <1>6, <1>7, <1>8

LEMMA ReportIsRight ==
  ASSUME NEW c \in Cohorts, NEW pair, NEW v, WholeRun(c, pair),
         v.primary = [arm \in ToSet(Arms) |-> PrimaryMetrics(pair[arm])],
         v.historical = [arm \in ToSet(Arms) |-> HistoricalMetrics(pair[arm])]
  PROVE  ReportOK(c, v)
<1>1. files[<<"seal", c>>] # Absent /\ CohortSize \in Nat
  BY CanaryAssumption DEF WholeRun
<1>2. ASSUME NEW arm \in ToSet(Arms), NEW n \in 1 .. CohortSize
      PROVE  /\ (n \in v.primary[arm].original) = (CallTo(c, arm, 2 * n - 1).response = "valid")
             /\ (n \in v.primary[arm].pairs) =
                  (CallTo(c, arm, 2 * n - 1).response = "valid" /\ CallTo(c, arm, 2 * n).response = "valid")
             /\ (v.historical[arm][n] = "worst") = ~(CallTo(c, arm, 2 * n - 1).response = "valid")
  <2>1. 2 * n - 1 \in 1 .. 2 * CohortSize /\ 2 * n \in 1 .. 2 * CohortSize
    BY <1>1
  <2>2. /\ Usable(pair[arm][2 * n - 1]) <=> CallTo(c, arm, 2 * n - 1).response = "valid"
        /\ Usable(pair[arm][2 * n]) <=> CallTo(c, arm, 2 * n).response = "valid"
    BY <2>1, ArmsAre, ScoredCalls
  <2>3. /\ n \in v.primary[arm].original <=> Usable(pair[arm][2 * n - 1])
        /\ n \in v.primary[arm].pairs <=> Usable(pair[arm][2 * n - 1]) /\ Usable(pair[arm][2 * n])
    BY DEF PrimaryMetrics
  <2>4. v.historical[arm][n] = "worst" <=> ~Usable(pair[arm][2 * n - 1])
    BY DEF HistoricalMetrics
  <2> QED BY <2>2, <2>3, <2>4
<1>3. Len(calls[c]) = 4 * CohortSize
  BY ScoredCalls
<1> QED BY <1>1, <1>2, <1>3 DEF ReportOK

LEMMA SealedPair ==
  ASSUME IInv, NEW c \in Cohorts, SealedLoads(c)
  PROVE  /\ WholeRun(c, LoadedPair(c)) /\ \A k \in Raw : Whole(<<k, c>>)
<1>1. /\ Whole(<<"seal", c>>) /\ files[<<"seal", c>>] = GenerationSeal(c)
      /\ Whole(<<"base", c>>) /\ Whole(<<"adapter", c>>)
  BY ArmsAre DEF SealedLoads, SealVerified, SealOf, GenerationsLoad, Cohorts
<1>2. SealOK(c, files[<<"seal", c>>])
  BY <1>1, PathsAre DEF IInv, FileInv, Runs, Raw
<1>3. /\ GenerationSeal(c).base = files[<<"base", c>>]
      /\ GenerationSeal(c).adapter = files[<<"adapter", c>>]
      /\ GenerationSeal(c).marker = files[<<"marker", c>>]
  BY DEF GenerationSeal
<1>4. Whole(<<"marker", c>>)
  BY <1>1, <1>2, <1>3 DEF SealOK, Whole
<1>5. WholeRun(c, LoadedPair(c))
  BY <1>1, <1>2, <1>3 DEF SealOK, WholeRun, LoadedPair
<1> QED BY <1>1, <1>4, <1>5 DEF Raw

LEMMA OutputsArePublic ==
  ASSUME IInv, OutputsProved("v2"), NEW k \in Raw
  PROVE  files[<<k, "v2">>] # Absent /\ (Whole(<<k, "v2">>) => <<k, "v2">> \in public)
<1>1. /\ TreeClean /\ pushed /\ head[<<k, "v2">>] # Absent
  BY DEF OutputsProved, RevisionPublished, SealedPaths
<1>2. <<k, "v2">> \in Tracked \ {All("core")}
  BY PathsAre DEF Tracked, All, Raw, Runs, Cohorts
<1> QED BY <1>1, <1>2 DEF TreeClean, IInv, GitInv, Whole

LEMMA ScoreCanaryStep ==
  ASSUME IInv, NEW i \in Procs, ScoreCanary(i)
  PROVE  IInv'
<1>1. ASSUME NEW c \in Cohorts, OutputsProved(c), Begin(i, "score", c, "loading", << >>),
             UNCHANGED <<files, git, calls, opened>>
      PROVE  IInv'
  <2>1. /\ OthersWait(i) /\ job'[i].cmd = "score" /\ job'[i].of = c /\ at'[i] = "loading"
    BY <1>1 DEF Begin, OthersWait, IInv, TypeInv
  <2>2. c = "v2" => \A k \in Raw : files[<<k, c>>] # Absent /\ (Whole(<<k, c>>) => <<k, c>> \in public)
    BY <1>1, OutputsArePublic
  <2>3. ScoreInv(i, c)'
    BY <1>1, <2>1, <2>2 DEF ScoreInv, Whole, git
  <2>4. JobInv(i)' /\ \A r \in Runs : OwnsByMarking(i, r)
    BY <2>1, <2>3 DEF JobInv, Stands, OwnsByMarking, Working, Running
  <2> QED BY <1>1, <2>1, <2>4, QuietStep
<1>2. ASSUME NEW c \in Cohorts, job[i].of = c, Stands(i, "score", "loading"), SealedLoads(c),
             Goes(i, "opening", LoadedPair(c)), UNCHANGED <<files, git, calls, opened>>
      PROVE  IInv'
  <2>1. /\ OthersWait(i) /\ job' = job /\ at'[i] = "opening" /\ held'[i] = LoadedPair(c)
    BY <1>2 DEF Goes, OthersWait, IInv, TypeInv
  <2>2. WholeRun(c, LoadedPair(c)) /\ \A k \in Raw : Whole(<<k, c>>)
    BY <1>2, SealedPair
  <2>3. ScoreInv(i, c)
    BY <1>2 DEF IInv, JobInv, Stands
  <2>4. WholeRun(c, held[i])'
    BY <1>2, <2>1, <2>2 DEF WholeRun
  <2>5. ScoreInv(i, c)'
    BY <1>2, <2>1, <2>2, <2>3, <2>4 DEF ScoreInv, Stands, git
  <2>6. JobInv(i)' /\ \A r \in Runs : OwnsByMarking(i, r)
    BY <1>2, <2>1, <2>5 DEF JobInv, Stands, OwnsByMarking, Working, Running
  <2> QED BY <1>2, <2>1, <2>6, QuietStep
<1>3. ASSUME NEW c \in Cohorts, job[i].of = c, Stands(i, "score", "opening"),
             Goes(i, "writing", held[i]), UNCHANGED <<files, git, calls>>,
             opened' = opened \cup {[of |-> c, public |-> \A k \in Raw : <<k, c>> \in public]}
      PROVE  IInv'
  <2>1. /\ OthersWait(i) /\ job' = job /\ at'[i] = "writing" /\ held'[i] = held[i]
    BY <1>3 DEF Goes, OthersWait, IInv, TypeInv
  <2>2. ScoreInv(i, c) /\ at[i] = "opening" /\ job[i].cmd = "score"
    BY <1>3 DEF IInv, JobInv, Stands
  <2>3. WholeRun(c, held[i])'
    BY <1>3, <2>1, <2>2 DEF ScoreInv, WholeRun
  <2>4. ScoreInv(i, c)'
    BY <1>3, <2>1, <2>2, <2>3 DEF ScoreInv
  <2>5. JobInv(i)' /\ \A r \in Runs : OwnsByMarking(i, r)
    BY <1>3, <2>1, <2>2, <2>4 DEF JobInv, Stands, Idle, OwnsByMarking, Working, Running
  <2>6. Moves({i})
    BY <1>3, <2>1 DEF OthersWait, Moves, Kept, git
  <2>7. TypeInv'
    BY <1>3, <2>1 DEF IInv, TypeInv, OthersWait, git
  <2>8. GitInv'
    <3>1. c = "v2" => \A k \in Raw : <<k, c>> \in public
      BY <2>2 DEF ScoreInv
    <3>2. \A o \in opened' : o.of = "v2" => o.public
      BY <1>3, <3>1 DEF IInv, GitInv
    <3> QED BY <1>3, <3>2 DEF IInv, GitInv, git
  <2> QED BY <1>3, <2>5, <2>6, <2>7, <2>8, StepInv
<1>4. ASSUME NEW c \in Cohorts, job[i].of = c, Stands(i, "score", "writing"),
             Create(i, <<"result", c>>, Report(c, held[i]), "end", << >>),
             UNCHANGED <<calls, opened>>
      PROVE  IInv'
  <2> DEFINE path == <<"result", c>>
  <2>1. path \in Paths \ Sources /\ path # All("checkpoints") /\ path \notin Raw \X Runs
    BY PathsAre DEF All, Sources, Raw, Runs
  <2>2. WholeRun(c, held[i])
    BY <1>4 DEF IInv, JobInv, ScoreInv, Stands
  <2>3. CASE files[path] # Absent
    BY <1>4, <2>3, EndStep DEF Create
  <2>4. CASE files[path] = Absent
    <3>1. End(i) /\ files' = [files EXCEPT ![path] = Report(c, held[i])] /\ UNCHANGED git
      BY <1>4, <2>4 DEF Create, Put
    <3>2. PICK v : v = Report(c, held[i])
      OBVIOUS
    <3>3. Creates(i, path) /\ files'[path] = v
      BY <1>4, <2>1, <2>4, <3>1, <3>2, CreateFacts DEF IInv, TypeInv
    <3>4. ReportOK(c, v)
      <4>1. PICK pair : pair = held[i]
        OBVIOUS
      <4> QED BY <2>2, <3>2, <4>1, ReportIsRight DEF Report
    <3>5. OthersWait(i)
      BY <3>1 DEF End, OthersWait, IInv, TypeInv
    <3>6. ReportOK(c, v)'
      BY <3>3, <3>4, <3>5, CreateMoves, KeptFacts
    <3>7. FileInv(path)' /\ Holds(path, files[path])'
      BY <3>3, <3>6 DEF FileInv, Holds, All, Sources, Cohorts, Runs
    <3> QED BY <3>1, <3>3, <3>7, LastWrite
  <2> QED BY <2>3, <2>4
<1>5. ASSUME \/ Stands(i, "score", "loading")
             \/ Stands(i, "score", "opening")
             \/ Stands(i, "score", "writing")
      PROVE  job[i].of \in Cohorts
  BY <1>5 DEF IInv, JobInv, ScoreInv, Stands
<1>6. ASSUME End(i), UNCHANGED <<files, git, calls, opened>> PROVE IInv'
  BY <1>6, EndStep
<1> QED BY <1>1, <1>2, <1>3, <1>4, <1>5, <1>6 DEF ScoreCanary

-----------------------------------------------------------------------------
(* Every step.                                                              *)

LEMMA InitIInv == Init => IInv
<1> SUFFICES ASSUME Init PROVE IInv
  OBVIOUS
<1>1. /\ DOMAIN files = Paths
      /\ \A p \in Sources : files[p] = 0
      /\ files[All("checkpoints")] = << >>
      /\ \A p \in Paths \ Sources : p # All("checkpoints") => files[p] = Absent
  BY PathsAre DEF Init, Sources, All
<1>2. /\ All("core") \in Tracked /\ All("protocol") \in Tracked
      /\ All("core") \in Sources /\ All("protocol") \in Paths \ Sources
      /\ All("protocol") # All("checkpoints")
  BY PathsAre DEF Tracked, All, Sources
<1>3. head = [p \in Tracked |-> files[p]]
  BY DEF Init
<1>4. /\ \A i \in Procs : job[i] = Idle /\ at[i] = "idle"
      /\ DOMAIN job = Procs /\ DOMAIN at = Procs /\ DOMAIN held = Procs
      /\ DOMAIN calls = Runs /\ \A r \in Runs : calls[r] = << >>
      /\ public = {} /\ opened = {}
  BY DEF Init
<1>5. \A p \in Paths : Holds(p, files[p])
  <2>1. ASSUME NEW p \in Paths PROVE Holds(p, files[p])
    <3>1. CASE p \in Sources
      BY <1>1, <3>1, CanaryAssumption DEF Holds, Sources, All, Cohorts, Runs
    <3>2. CASE p = All("checkpoints")
      BY <1>1, <3>2 DEF Holds, Sources, All, Cohorts, Runs
    <3>3. CASE p \notin Sources /\ p # All("checkpoints")
      BY <1>1, <3>3 DEF Holds, Marks
    <3> QED BY <3>1, <3>2, <3>3
  <2> QED BY <2>1
<1>6. TypeInv
  <2>1. files[All("core")] = 0 /\ files[All("protocol")] = Absent
    BY <1>1, <1>2
  <2>2. /\ DOMAIN head = Tracked
        /\ head[All("core")] \in Versions /\ head[All("protocol")] \in Marks \cup Protocols
    BY <1>2, <1>3, <2>1, CanaryAssumption DEF Marks
  <2>3. \A r \in Runs : calls[r] \in Seq(Records)
    <3>1. << >> \in Seq(Records)
      OBVIOUS
    <3> QED BY <1>4, <3>1
  <2> QED BY <1>1, <1>4, <1>5, <2>2, <2>3 DEF TypeInv
<1>7. \A r \in Runs, k \in Raw : files[<<k, r>>] = Absent
  BY <1>1, PathsAre DEF Sources, All, Raw
<1>8. OwnerInv
  BY <1>4, <1>7 DEF OwnerInv, Working, Running, Idle
<1>9. GitInv
  <2>1. \A p \in Tracked \ {All("core")} : head[p] = Absent
    <3>1. \A p \in Tracked \ {All("core")} :
            p \in Paths \ Sources /\ p # All("checkpoints")
      BY DEF Tracked, Sources
    <3> QED BY <1>1, <1>3, <3>1
  <2> QED BY <1>2, <1>4, <2>1 DEF GitInv, Marks, All
<1>10. ASSUME NEW p \in Paths PROVE FileInv(p)
  <2>1. CASE p \in Sources
    BY <2>1 DEF FileInv, Sources, All, Cohorts, Runs
  <2>2. CASE p = All("checkpoints")
    BY <1>1, <2>2 DEF FileInv, All, Cohorts, Runs
  <2>3. CASE p \notin Sources /\ p # All("checkpoints")
    BY <1>1, <2>3 DEF FileInv, Whole, Marks
  <2> QED BY <2>1, <2>2, <2>3
<1>11. \A i \in Procs : JobInv(i)
  BY <1>4 DEF JobInv, Stands, Idle
<1>12. \A r \in Runs : HistoryInv(r)
  <2>1. ASSUME NEW r \in Runs PROVE HistoryInv(r)
    <3>1. CallsPerArm(r) \in Nat
      BY PromptsAre
    <3>2. calls[r] = << >> /\ Len(calls[r]) = 0 /\ DOMAIN calls[r] = {}
      BY <1>4
    <3> QED BY <3>1, <3>2 DEF HistoryInv
  <2> QED BY <2>1
<1> QED BY <1>6, <1>8, <1>9, <1>10, <1>11, <1>12 DEF IInv

LEMMA StutterStep ==
  ASSUME IInv, UNCHANGED vars
  PROVE  IInv'
<1>1. UNCHANGED <<files, head, pushed, public, job, at, held, calls, opened>>
  BY DEF vars, git
<1>2. Moves({})
  BY <1>1 DEF Moves, Kept
<1>3. TypeInv' /\ GitInv'
  BY <1>1 DEF IInv, TypeInv, GitInv
<1> QED BY <1>1, <1>2, <1>3, StepInv

LEMMA NextIInv == IInv /\ [Next]_vars => IInv'
<1> SUFFICES ASSUME IInv, [Next]_vars PROVE IInv'
  OBVIOUS
<1>1. CASE UNCHANGED vars
  BY <1>1, StutterStep
<1>2. ASSUME NEW i \in Procs, Step(i) PROVE IInv'
  BY <1>2, FreezeTrainingLockStep, TrainStep, FreezeExperimentStep, BuildCanaryStep, BeginRunStep,
     MarkAttemptStep, SampleStep, WriteArmStep, SealOutputsStep, GateSmokeStep, ScoreCanaryStep
     DEF Step
<1>3. ASSUME NEW i \in Procs, Die(i) PROVE IInv'
  BY <1>3, DieStep
<1> QED BY <1>1, <1>2, <1>3, CommitStep, PushStep, WriteProtocolStep, EditStep DEF Next

-----------------------------------------------------------------------------
(* What follows.                                                            *)

\* The invariant holds of every interleaving of the study's commands, edits, pushes and deaths.
THEOREM Invariance == Spec => []IInv
<1> QED BY InitIInv, NextIInv, PTL DEF Spec

\* Every file the commands write holds what they parse, or a mark of a death or an edit; and the
\* commit, the jobs and the calls are what their types say.
THEOREM TypeCorrectness == Spec => []TypeInv
<1>1. IInv => TypeInv
  BY DEF IInv
<1> QED BY <1>1, Invariance, PTL

\* No run puts a prompt to an arm twice: the marker that run_tinker_canary.py and the smoke
\* create exclusively before a client exists keeps every second invocation away.
THEOREM CalledOnceAlways == Spec => []CalledOnce
<1>1. ASSUME IInv PROVE CalledOnce
  <2> SUFFICES ASSUME NEW r \in Runs, NEW m \in DOMAIN calls[r], NEW n \in DOMAIN calls[r], m < n,
                      calls[r][m].prompt = calls[r][n].prompt, calls[r][m].model = calls[r][n].model
               PROVE  FALSE
    <3>1. \A r1 \in Runs : DOMAIN calls[r1] \subseteq Nat
      <4>1. \A r1 \in Runs : calls[r1] \in Seq(Records)
        BY <1>1 DEF IInv, TypeInv
      <4> QED BY <4>1
    <3> QED BY <3>1 DEF CalledOnce
  <2> DEFINE size == CallsPerArm(r)
  <2>1. HistoryInv(r) /\ calls[r] \in Seq(Records) /\ calls[r] # << >>
    BY <1>1 DEF IInv, TypeInv
  <2>2. size \in Nat \ {0} /\ \A j, k \in 1 .. size : j # k => PromptsOf(r)[j] # PromptsOf(r)[k]
    BY PromptsAre
  <2>3. Experiment.sampler # BaseModel
    BY <1>1, <2>1, PathsAre DEF HistoryInv, IInv, FileInv, ExperimentOK, Experiment
  <2>4. m \in 1 .. 2 * size /\ n \in 1 .. 2 * size
    BY <2>1, <2>2 DEF HistoryInv
  <2>5. /\ PromptsOf(r)[IF m <= size THEN m ELSE m - size] =
             PromptsOf(r)[IF n <= size THEN n ELSE n - size]
        /\ (IF m <= size THEN BaseModel ELSE Experiment.sampler) =
             IF n <= size THEN BaseModel ELSE Experiment.sampler
    BY <2>1 DEF HistoryInv
  <2> HIDE DEF size
  <2>6. CASE m <= size /\ n <= size
    BY <2>2, <2>4, <2>5, <2>6
  <2>7. CASE m > size /\ n > size
    <3>1. m - size \in 1 .. size /\ n - size \in 1 .. size /\ m - size # n - size
      BY <2>2, <2>4, <2>7
    <3>2. PromptsOf(r)[m - size] = PromptsOf(r)[n - size]
      BY <2>2, <2>4, <2>5, <2>7
    <3> QED BY <2>2, <3>1, <3>2
  <2>8. CASE m <= size /\ n > size
    BY <2>2, <2>3, <2>4, <2>5, <2>8
  <2> QED BY <2>2, <2>4, <2>6, <2>7, <2>8
<1> QED BY <1>1, Invariance, PTL

\* What is sealed is all the one attempt got, both arms of it, in order and with its failures.
THEOREM SealedIsTheAttemptAlways == Spec => []SealedIsTheAttempt
<1>1. ASSUME IInv PROVE SealedIsTheAttempt
  <2> DEFINE Good(r, s) ==
          /\ s.base \o s.adapter = calls[r]
          /\ \A n \in DOMAIN s.adapter : s.adapter[n].model = Experiment.sampler
          /\ r = "smoke" => s.marker.experiment = Experiment
          /\ Covers(s.base, PromptsOf(r)) /\ Covers(s.adapter, PromptsOf(r))
          /\ r # "smoke" =>
               /\ s.marker = [manifest |-> s.manifest, prompts |-> s.prompts]
               /\ s.prompts = PromptsOf(r) /\ s.manifest.prompts = PromptsOf(r)
               /\ s.manifest.experiment = Experiment
  <2>1. ASSUME NEW r \in Runs, Whole(<<"seal", r>>), NEW s, s = files[<<"seal", r>>]
        PROVE  Good(r, s)
    <3>1. SealOK(r, s)
      BY <1>1, <2>1, PathsAre DEF IInv, FileInv, Raw
    <3>2. PICK base \in Seq(Records), adapter \in Seq(Records) :
            /\ base = s.base /\ adapter = s.adapter /\ calls[r] = base \o adapter
            /\ Covers(base, PromptsOf(r)) /\ Covers(adapter, PromptsOf(r))
      BY <3>1 DEF SealOK, WholeRun
    <3>3. PICK size \in Nat \ {0} : size = CallsPerArm(r)
      BY PromptsAre
    <3>4. Len(base) = size /\ Len(adapter) = size
      BY <3>2, <3>3, PromptsAre, CoversAre DEF CallsPerArm
    <3>5. /\ Len(base \o adapter) = size + size
          /\ \A m \in 1 .. size :
               (base \o adapter)[m] = base[m] /\ (base \o adapter)[size + m] = adapter[m]
      BY <3>3, <3>4, BothArms
    <3>6. ASSUME NEW n \in 1 .. size PROVE adapter[n].model = Experiment.sampler
      <4>0. DOMAIN calls[r] = 1 .. size + size
        <5>1. calls[r] \in Seq(Records) /\ Len(calls[r]) = size + size
          BY <1>1, <3>2, <3>5 DEF IInv, TypeInv
        <5> QED BY <5>1
      <4>1. PICK k \in DOMAIN calls[r] : k = size + n
        BY <3>3, <4>0
      <4>2. calls[r][k].model = Experiment.sampler
        BY <1>1, <3>3, <4>1 DEF IInv, HistoryInv
      <4>3. calls[r][k] = adapter[n]
        BY <3>2, <3>5, <4>1
      <4> QED BY <4>2, <4>3
    <3> QED BY <3>1, <3>2, <3>4, <3>6 DEF SealOK
  <2> HIDE DEF Good
  <2>2. PromptsOf("smoke") = SmokePrompts
    BY DEF PromptsOf
  <2>3. ASSUME NEW r \in Runs, Whole(<<"seal", r>>)
        PROVE  LET s == files[<<"seal", r>>]
                   experiment == IF r = "smoke" THEN s.marker.experiment ELSE s.manifest.experiment
               IN /\ s.base \o s.adapter = calls[r]
                  /\ \A n \in DOMAIN s.adapter : s.adapter[n].model = experiment.sampler
                  /\ IF r = "smoke"
                     THEN Covers(s.base, SmokePrompts) /\ Covers(s.adapter, SmokePrompts)
                     ELSE /\ s.marker = [manifest |-> s.manifest, prompts |-> s.prompts]
                          /\ s.prompts = s.manifest.prompts
                          /\ Covers(s.base, s.prompts) /\ Covers(s.adapter, s.prompts)
    <3>1. PICK s : s = files[<<"seal", r>>]
      OBVIOUS
    <3>2. Good(r, s)
      BY <2>1, <2>3, <3>1
    <3>3. CASE r = "smoke"
      <4>1. Covers(s.base, SmokePrompts) /\ Covers(s.adapter, SmokePrompts)
        BY <2>2, <3>2, <3>3 DEF Good
      <4>2. \A n \in DOMAIN s.adapter : s.adapter[n].model = s.marker.experiment.sampler
        BY <3>2, <3>3 DEF Good
      <4> QED BY <3>1, <3>2, <3>3, <4>1, <4>2 DEF Good
    <3>4. CASE r # "smoke"
      <4>1. Covers(s.base, s.prompts) /\ Covers(s.adapter, s.prompts) /\ s.prompts = s.manifest.prompts
        BY <3>2, <3>4 DEF Good
      <4>2. \A n \in DOMAIN s.adapter : s.adapter[n].model = s.manifest.experiment.sampler
        BY <3>2, <3>4 DEF Good
      <4> QED BY <3>1, <3>2, <3>4, <4>1, <4>2 DEF Good
    <3> QED BY <3>3, <3>4
  <2> QED BY <2>3 DEF SealedIsTheAttempt
<1> QED BY <1>1, Invariance, PTL

\* Whatever is edited while training runs, the sampler of the experiment was trained on the data
\* and code of the training lock, and no run calls another adapter.
THEOREM SamplerIsLockedAlways == Spec => []SamplerIsLocked
<1>1. ASSUME IInv PROVE SamplerIsLocked
  <2>1. ASSUME Whole(All("experiment"))
        PROVE  /\ Experiment.sampler.data = Experiment.lock.data
               /\ Experiment.sampler.core = Experiment.lock.core
    BY <1>1, <2>1, PathsAre DEF IInv, FileInv, ExperimentOK, Experiment
  <2>2. ASSUME NEW r \in Runs, NEW n \in DOMAIN calls[r]
        PROVE  calls[r][n].model \in {BaseModel, Experiment.sampler}
    BY <1>1, <2>2 DEF IInv, HistoryInv
  <2> QED BY <2>1, <2>2 DEF SamplerIsLocked, Experiment
<1> QED BY <1>1, Invariance, PTL

\* The second canary is not paid for before the smoke passed and its inputs are public, and it
\* asks about no game of the first.
THEOREM SecondFollowsSmokeAlways == Spec => []SecondFollowsSmoke
<1>1. ASSUME IInv PROVE SecondFollowsSmoke
  <2>1. ASSUME calls["v2"] # << >> PROVE SecondReady
    BY <1>1, <2>1 DEF IInv, HistoryInv, Runs, Cohorts
  <2>2. ASSUME NEW c \in Cohorts, NEW n \in DOMAIN calls[c]
        PROVE  \E k \in 1 .. CallsPerArm(c) : calls[c][n].prompt = PromptsOf(c)[k]
    <3>1. /\ HistoryInv(c) /\ calls[c] \in Seq(Records)
      BY <1>1 DEF IInv, TypeInv, Runs
    <3>2. CallsPerArm(c) \in Nat \ {0}
      BY PromptsAre DEF Runs
    <3>3. n \in 1 .. 2 * CallsPerArm(c)
      BY <2>2, <3>1, <3>2 DEF HistoryInv
    <3>4. (IF n <= CallsPerArm(c) THEN n ELSE n - CallsPerArm(c)) \in 1 .. CallsPerArm(c)
      BY <3>2, <3>3
    <3> QED BY <2>2, <3>1, <3>4 DEF HistoryInv
  <2>3. ASSUME NEW m \in DOMAIN calls["v1"], NEW n \in DOMAIN calls["v2"]
        PROVE  calls["v1"][m].prompt[1] # calls["v2"][n].prompt[1]
    BY <2>2, CohortsAreApart DEF Cohorts
  <2> QED BY <2>1, <2>3 DEF SecondFollowsSmoke, SecondReady
<1> QED BY <1>1, Invariance, PTL

\* Scores are of the whole sealed run, its failures counted as the worst there is, and the
\* answers of the second canary are opened over public outputs only.
THEOREM ScoresAreTheSealedRunAlways == Spec => []ScoresAreTheSealedRun
<1>1. ASSUME IInv PROVE ScoresAreTheSealedRun
  <2>1. ASSUME NEW c \in Cohorts, Whole(<<"result", c>>) PROVE ReportOK(c, files[<<"result", c>>])
    BY <1>1, <2>1, PathsAre DEF IInv, FileInv, Runs
  <2>2. \A o \in opened : o.of = "v2" => o.public
    BY <1>1 DEF IInv, GitInv
  <2> QED BY <2>1, <2>2 DEF ScoresAreTheSealedRun, ReportOK
<1> QED BY <1>1, Invariance, PTL
=============================================================================
