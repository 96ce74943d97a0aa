----------------------------- MODULE CellProofs -----------------------------
(***************************************************************************)
(* Safety of the benchmark cell for every crew, schedule, number of        *)
(* repetitions and of reruns.  The inductive invariant has two halves:     *)
(* LoopInv says what the scheduler's counters mean while workers run and   *)
(* die; FileInv says which files a phase of the command relies on.         *)
(***************************************************************************)
EXTENDS Cell, FiniteSetTheorems, TLAPS

(* A worker outside the crew never moves, and a held task was claimed. *)
CrewOnly == \A w \in Workers \ crew : worker[w].pc = "exited"
HeldIsClaimed == \A w \in Holding : worker[w].task \in 1..(next - 1)

LoopInv == LoopTypeOK /\ EachTaskOnce /\ InFlightIsSlots /\ CrewOnly /\ HeldIsClaimed

(* What is on disk when a phase is reached. *)
Stored(kind, n) == File(kind, n) \in files
FileInv ==
  /\ run \in Nat /\ rep \in Nat
  /\ pc # "idle" => \A f \in files : f.kind \in {"manifest", "result"} => f.id[1] = run
  /\ pc \in {"warmup_document", "validation", "manifest", "result"}
       => Stored("observations", Measured)
  /\ pc \in {"validation", "manifest", "result"} /\ rep = 1
       => \E n : Stored("warmup", n)
  /\ pc \in {"manifest", "result"} => Measured = N
  /\ pc = "result" => Stored("manifest", 0)

(* Whatever is announced or published under the label is of one run.       *)
LabelHoldsOneRun ==
  \A f, g \in files :
    f.kind \in {"manifest", "result"} /\ g.kind \in {"manifest", "result"}
      => f.id[1] = g.id[1]

IInv == LoopInv /\ FileInv /\ ResultIsBacked /\ ResultCountsEveryTask /\ LabelHoldsOneRun

-----------------------------------------------------------------------------
(* A fresh pass establishes the scheduler's invariant. *)
LEMMA FreshLoop ==
  ASSUME NEW c, c \subseteq Workers, FreshPass(c)
  PROVE  LoopInv'
<1> USE ClosedLoopAssumption DEF FreshPass, Idle, At
<1>1. LoopTypeOK'
  BY DEF LoopTypeOK
<1>2. Holding' = {} /\ Slots' = {}
  BY DEF Holding, Slots
<1>3. EachTaskOnce'
  BY <1>2 DEF EachTaskOnce, Tasks
<1>4. InFlightIsSlots'
  <2>1. IsFiniteSet(c)
    BY FS_Subset
  <2> QED BY <1>2, <2>1, FS_EmptySet, FS_CardinalityType DEF InFlightIsSlots
<1>5. CrewOnly' /\ HeldIsClaimed'
  BY <1>2 DEF CrewOnly, HeldIsClaimed
<1> QED BY <1>1, <1>3, <1>4, <1>5 DEF LoopInv

(* Slots are held by crew members. *)
LEMMA SlotsInCrew ==
  ASSUME LoopInv
  PROVE  /\ Slots \subseteq crew /\ IsFiniteSet(Slots) /\ IsFiniteSet(crew)
         /\ Cardinality(Slots) \in Nat /\ Cardinality(crew) \in Nat
<1>1. Slots \subseteq crew
  BY DEF LoopInv, Slots, CrewOnly
<1>2. IsFiniteSet(crew)
  BY ClosedLoopAssumption, FS_Subset DEF LoopInv, LoopTypeOK
<1>3. IsFiniteSet(Slots)
  BY <1>1, <1>2, FS_Subset
<1> QED BY <1>1, <1>2, <1>3, FS_CardinalityType

(* A step of a worker preserves the scheduler's invariant. *)
LEMMA WorkKeepsLoop ==
  ASSUME LoopInv, NEW w \in Workers, Work(w)
  PROVE  LoopInv'
<1> USE ClosedLoopAssumption
<1> USE DEF LoopInv, LoopTypeOK, Tasks, At, Idle
<1>1. CASE Claim(w)
  <2> USE <1>1 DEF Claim
  <2>0. w \in crew
    BY DEF CrewOnly
  <2>1. LoopTypeOK'
    BY DEF Larger
  <2>2. Holding' = Holding \cup {w} /\ w \notin Holding
    BY DEF Holding
  <2>3. Slots' = Slots \cup {w} /\ w \notin Slots
    BY DEF Slots
  <2>4. \A v \in Holding : worker'[v] = worker[v]
    BY <2>2
  <2>5. EachTaskOnce'
    <3>1. \A v, u \in Holding' : worker'[v].task = worker'[u].task => v = u
      BY <2>2, <2>4 DEF EachTaskOnce, HeldIsClaimed
    <3>2. next \notin outcomes
      BY DEF EachTaskOnce
    <3>3. \A v \in Holding' : worker'[v].task \notin outcomes'
      BY <2>2, <2>4, <3>2 DEF EachTaskOnce
    <3>4. \A t \in Tasks : t < next' <=>
            (t \in outcomes' \/ \E v \in Holding' : worker'[v].task = t)
      <4> SUFFICES ASSUME NEW t \in Tasks
                   PROVE  t < next' <=> (t \in outcomes' \/ \E v \in Holding' : worker'[v].task = t)
        OBVIOUS
      <4>1. t < next' <=> (t < next \/ t = next)
        OBVIOUS
      <4>2. (\E v \in Holding' : worker'[v].task = t)
              <=> ((\E v \in Holding : worker[v].task = t) \/ t = next)
        BY <2>2, <2>4
      <4> QED BY <4>1, <4>2 DEF EachTaskOnce
    <3> QED BY <3>1, <3>3, <3>4 DEF EachTaskOnce
  <2>6. InFlightIsSlots'
    <3>1. Cardinality(Slots') = Cardinality(Slots) + 1
      BY <2>3, SlotsInCrew, FS_AddElement
    <3>2. Slots' \subseteq crew
      BY <2>0, <2>3, SlotsInCrew
    <3>3. Cardinality(Slots') <= Cardinality(crew)
      BY <3>2, SlotsInCrew, FS_Subset
    <3> QED BY <3>1, <3>3, SlotsInCrew DEF InFlightIsSlots, Larger
  <2>7. CrewOnly' /\ HeldIsClaimed'
    BY <2>0, <2>2, <2>4 DEF CrewOnly, HeldIsClaimed
  <2> QED BY <2>1, <2>5, <2>6, <2>7
<1>2. CASE Release(w)
  <2> USE <1>2 DEF Release
  <2>1. LoopTypeOK'
    OBVIOUS
  <2>2. Holding' = Holding /\ \A v \in Holding : worker'[v].task = worker[v].task
    BY DEF Holding
  <2>3. Slots' = Slots \ {w} /\ w \in Slots
    BY DEF Slots
  <2>4. EachTaskOnce' /\ HeldIsClaimed'
    BY <2>2 DEF EachTaskOnce, HeldIsClaimed
  <2>5. InFlightIsSlots'
    <3>1. Cardinality(Slots') = Cardinality(Slots) - 1
      BY <2>3, SlotsInCrew, FS_RemoveElement
    <3> QED BY <3>1 DEF InFlightIsSlots
  <2>6. CrewOnly'
    BY DEF CrewOnly
  <2> QED BY <2>1, <2>4, <2>5, <2>6
<1>3. CASE Store(w)
  <2> USE <1>3 DEF Store
  <2>0. w \in Holding
    BY DEF Holding
  <2>1. LoopTypeOK'
    <3>1. worker[w].task \in Tasks
      BY <2>0 DEF HeldIsClaimed
    <3>2. worker' \in [Workers -> [pc : {"idle", "running", "storing", "exited", "dead"},
                                   task : 0..N]]
      OBVIOUS
    <3> QED BY <3>1, <3>2
  <2>2. Holding' = Holding \ {w} /\ \A v \in Holding' : worker'[v] = worker[v]
    BY DEF Holding
  <2>3. Slots' = Slots
    BY DEF Slots
  <2>4. EachTaskOnce' /\ HeldIsClaimed'
    <3>1. \A v, u \in Holding' : worker'[v].task = worker'[u].task => v = u
      BY <2>2 DEF EachTaskOnce
    <3>2. \A v \in Holding' : worker'[v].task \notin outcomes'
      BY <2>0, <2>2 DEF EachTaskOnce
    <3>3. \A t \in Tasks : t < next' <=>
            (t \in outcomes' \/ \E v \in Holding' : worker'[v].task = t)
      <4> SUFFICES ASSUME NEW t \in Tasks
                   PROVE  t < next' <=> (t \in outcomes' \/ \E v \in Holding' : worker'[v].task = t)
        OBVIOUS
      <4>1. (\E v \in Holding : worker[v].task = t)
              <=> (t = worker[w].task \/ \E v \in Holding' : worker'[v].task = t)
        BY <2>0, <2>2
      <4> QED BY <4>1 DEF EachTaskOnce
    <3>4. HeldIsClaimed'
      BY <2>2 DEF HeldIsClaimed
    <3> QED BY <3>1, <3>2, <3>3, <3>4 DEF EachTaskOnce
  <2>5. InFlightIsSlots'
    BY <2>3 DEF InFlightIsSlots
  <2>6. CrewOnly'
    BY <2>0 DEF CrewOnly, Holding
  <2> QED BY <2>1, <2>4, <2>5, <2>6
<1>4. CASE Die(w)
  <2> USE <1>4 DEF Die
  <2>1. LoopTypeOK'
    OBVIOUS
  <2>2. Holding' = Holding /\ \A v \in Holding : worker'[v].task = worker[v].task
    BY DEF Holding
  <2>3. Slots' = Slots
    BY DEF Slots
  <2>4. EachTaskOnce' /\ HeldIsClaimed'
    BY <2>2 DEF EachTaskOnce, HeldIsClaimed
  <2>5. InFlightIsSlots' /\ CrewOnly'
    BY <2>3 DEF InFlightIsSlots, CrewOnly
  <2> QED BY <2>1, <2>4, <2>5
<1>5. CASE Leave(w)
  <2> USE <1>5 DEF Leave
  <2>1. LoopTypeOK'
    OBVIOUS
  <2>2. Holding' = Holding /\ \A v \in Holding : worker'[v] = worker[v]
    BY DEF Holding
  <2>3. Slots' = Slots
    BY DEF Slots
  <2>4. EachTaskOnce' /\ HeldIsClaimed'
    BY <2>2 DEF EachTaskOnce, HeldIsClaimed
  <2>5. InFlightIsSlots' /\ CrewOnly'
    BY <2>3 DEF InFlightIsSlots, CrewOnly
  <2> QED BY <2>1, <2>4, <2>5
<1> QED BY <1>1, <1>2, <1>3, <1>4, <1>5 DEF Work

(* Steps outside the scheduler leave its invariant alone. *)
LEMMA LoopUnchanged ==
  ASSUME LoopInv, UNCHANGED loopVars
  PROVE  LoopInv'
BY DEF LoopInv, loopVars, LoopTypeOK, EachTaskOnce, InFlightIsSlots, CrewOnly,
       HeldIsClaimed, Holding, Slots, Tasks

-----------------------------------------------------------------------------
(* Adding a file that is neither manifest nor result keeps what is said of  *)
(* those two.                                                              *)
LEMMA OtherFile ==
  ASSUME NEW kind, kind \notin {"manifest", "result"}, NEW n,
         files' = files \cup {File(kind, n)},
         ResultIsBacked, ResultCountsEveryTask, LabelHoldsOneRun
  PROVE  ResultIsBacked' /\ ResultCountsEveryTask' /\ LabelHoldsOneRun'
<1>1. \A f \in files' : f.kind \in {"manifest", "result"} => f \in files
  BY DEF File
<1>2. files \subseteq files'
  OBVIOUS
<1>3. ResultIsBacked'
  BY <1>1, <1>2 DEF ResultIsBacked
<1>4. ResultCountsEveryTask' /\ LabelHoldsOneRun'
  BY <1>1 DEF ResultCountsEveryTask, LabelHoldsOneRun
<1> QED BY <1>3, <1>4

(* The same when no file is written. *)
LEMMA NoFile ==
  ASSUME UNCHANGED files, ResultIsBacked, ResultCountsEveryTask, LabelHoldsOneRun
  PROVE  ResultIsBacked' /\ ResultCountsEveryTask' /\ LabelHoldsOneRun'
BY DEF ResultIsBacked, ResultCountsEveryTask, LabelHoldsOneRun

(* The end of the command, however it comes about, keeps the invariant as   *)
(* far as the files allow.                                                 *)
LEMMA EndKeeps ==
  ASSUME IInv, EndRun
  PROVE  LoopInv' /\ FileInv'
<1>1. LoopInv'
  BY FreshLoop DEF EndRun
<1>2. FileInv'
  BY DEF EndRun, FileInv, IInv
<1> QED BY <1>1, <1>2

LEMMA InitIInv == Init => IInv
<1> SUFFICES ASSUME Init PROVE IInv
  OBVIOUS
<1> USE ClosedLoopAssumption DEF Init
<1>1. LoopTypeOK
  BY DEF LoopTypeOK, At
<1>2. Holding = {} /\ Slots = {}
  BY DEF Holding, Slots, At
<1>3. EachTaskOnce
  BY <1>2 DEF EachTaskOnce, Tasks
<1>4. InFlightIsSlots
  BY <1>2, FS_EmptySet DEF InFlightIsSlots
<1>5. CrewOnly /\ HeldIsClaimed
  BY <1>2 DEF CrewOnly, HeldIsClaimed, At
<1>6. FileInv
  BY DEF FileInv
<1>7. ResultIsBacked /\ ResultCountsEveryTask /\ LabelHoldsOneRun
  BY DEF ResultIsBacked, ResultCountsEveryTask, LabelHoldsOneRun
<1> QED BY <1>1, <1>3, <1>4, <1>5, <1>6, <1>7 DEF IInv, LoopInv

LEMMA NextIInv == IInv /\ [Next]_vars => IInv'
<1> SUFFICES ASSUME IInv, [Next]_vars PROVE IInv'
  OBVIOUS
<1> USE DEF IInv
<1>1. ASSUME NEW c \in SUBSET Workers \ {{}}, Start(c) PROVE IInv'
  <2> USE <1>1 DEF Start
  <2>1. LoopInv'
    BY FreshLoop
  <2>2. FileInv'
    BY DEF FileInv, Existing, Has
  <2> QED BY <2>1, <2>2, NoFile
<1>2. ASSUME NEW w \in Workers, PassWork(w) PROVE IInv'
  <2> USE <1>2 DEF PassWork, cellVars
  <2>1. LoopInv'
    BY WorkKeepsLoop
  <2>2. FileInv'
    BY DEF FileInv
  <2> QED BY <2>1, <2>2, NoFile
<1>3. CASE SamplerStep \/ Tick \/ StopSampler \/ JoinSampler \/ Summarize \/ Validate
  <2> USE <1>3 DEF SamplerStep, Sample, SampleUnavailable, SampleRaises, NextSample, Tick,
                   StopSampler, JoinSampler, Summarize, Validate, Quiet
  <2>1. LoopInv'
    BY LoopUnchanged
  <2>2. UNCHANGED <<files, run, rep, outcomes>>
    BY DEF loopVars
  <2>3. FileInv'
    <3>1. CASE Validate
      BY <2>2, <3>1 DEF FileInv, Stored, File, Id, Measured, SemanticsOK
    <3>2. CASE ~Validate
      BY <2>2, <3>2 DEF FileInv, Stored, File, Id, Measured
    <3> QED BY <3>1, <3>2
  <2> QED BY <2>1, <2>2, <2>3, NoFile
<1>4. CASE WarmupDone
  <2> USE <1>4 DEF WarmupDone, OpenRepetition
  <2>1. LoopInv'
    BY FreshLoop DEF LoopInv, LoopTypeOK
  <2>2. FileInv'
    BY DEF FileInv
  <2> QED BY <2>1, <2>2, NoFile
<1>5. CASE PassFailure \/ Crash
  <2>1. LoopInv' /\ FileInv'
    BY <1>5, EndKeeps DEF PassFailure, Crash
  <2> QED BY <1>5, <2>1, NoFile DEF PassFailure, Crash
<1>6. CASE WriteObservations
  <2> USE <1>6 DEF WriteObservations, Quiet
  <2>1. LoopInv'
    BY LoopUnchanged
  <2>2. FileInv'
    BY DEF FileInv, Stored, File, Id, Measured, loopVars
  <2> QED BY <2>1, <2>2, OtherFile
<1>7. CASE WriteWarmup
  <2> USE <1>7 DEF WriteWarmup, Quiet
  <2>1. LoopInv'
    BY LoopUnchanged
  <2>2. FileInv'
    <3>1. Stored("observations", Measured)'
      BY DEF FileInv, Stored, File, Id, Measured, loopVars
    <3>2. \A f \in files' : f.kind \in {"manifest", "result"} => f.id[1] = run'
      BY DEF FileInv, File, Id
    <3>3. \E n : Stored("warmup", n)'
      BY DEF Stored, File, Id
    <3> QED BY <3>1, <3>2, <3>3 DEF FileInv
  <2> QED BY <2>1, <2>2, OtherFile
<1>8. CASE RecordFailure
  <2> USE <1>8 DEF RecordFailure
  <2>1. LoopInv' /\ FileInv'
    BY EndKeeps
  <2> QED BY <2>1, OtherFile
<1>9. CASE WriteManifest
  <2> USE <1>9 DEF WriteManifest, Quiet
  <2>1. LoopInv'
    BY LoopUnchanged
  <2>2. FileInv'
    <3>1. Stored("manifest", 0)' /\ Stored("observations", Measured)' /\ Measured' = N
      BY DEF FileInv, Stored, File, Id, Measured, loopVars
    <3>2. \A f \in files' : f.kind \in {"manifest", "result"} => f.id[1] = run'
      BY DEF FileInv, File, Id
    <3>3. rep' = 1 => \E n : Stored("warmup", n)'
      BY DEF FileInv, Stored, File, Id
    <3> QED BY <3>1, <3>2, <3>3 DEF FileInv
  <2>3. \A f \in files' : f.kind \in {"manifest", "result"} => f.id[1] = run
    BY DEF FileInv, File, Id
  <2>4. LabelHoldsOneRun'
    BY <2>3 DEF LabelHoldsOneRun
  <2>5. \A f \in files' : f.kind = "result" => f \in files
    BY DEF File
  <2>6. ResultIsBacked' /\ ResultCountsEveryTask'
    BY <2>5 DEF ResultIsBacked, ResultCountsEveryTask
  <2> QED BY <2>1, <2>2, <2>4, <2>6
<1>10. CASE WriteResult
  <2> USE <1>10 DEF WriteResult
  <2>1. LoopInv'
    BY EndKeeps, FreshLoop DEF OpenRepetition, LoopInv, LoopTypeOK
  <2>2. \A f \in files' : f.kind \in {"manifest", "result"} => f.id[1] = run
    BY DEF FileInv, File, Id
  <2>3. FileInv'
    BY <2>2 DEF FileInv, OpenRepetition, EndRun
  <2>4. LabelHoldsOneRun'
    BY <2>2 DEF LabelHoldsOneRun
  <2>5. ResultCountsEveryTask'
    BY DEF ResultCountsEveryTask, FileInv, File
  <2>6. ResultIsBacked'
    <3> SUFFICES ASSUME NEW f \in files', f.kind = "result"
                 PROVE  /\ \E g \in files' : g.kind = "manifest" /\ g.id = f.id
                        /\ \E g \in files' : g.kind = "observations" /\ g.id = f.id /\ g.count = f.count
                        /\ f.id[2] = 1 => \E g \in files' : g.kind = "warmup" /\ g.id = f.id
      BY DEF ResultIsBacked
    <3>1. CASE f \in files
      BY <3>1 DEF ResultIsBacked
    <3>2. CASE f = File("result", Measured)
      <4>1. File("manifest", 0) \in files' /\ File("observations", Measured) \in files'
        BY DEF FileInv, Stored
      <4>2. f.id[2] = 1 => \E n : File("warmup", n) \in files'
        BY <3>2 DEF FileInv, Stored, File, Id
      <4> QED BY <3>2, <4>1, <4>2 DEF File
    <3> QED BY <3>1, <3>2
  <2> QED BY <2>1, <2>3, <2>4, <2>5, <2>6
<1>11. CASE UNCHANGED vars
  <2> USE <1>11 DEF vars, cellVars
  <2>1. LoopInv'
    BY LoopUnchanged
  <2>2. FileInv'
    BY DEF FileInv, Stored, File, Id, Measured, loopVars
  <2> QED BY <2>1, <2>2, NoFile
<1> QED BY <1>1, <1>2, <1>3, <1>4, <1>5, <1>6, <1>7, <1>8, <1>9, <1>10, <1>11 DEF Next, Main

(* The invariant holds in every reachable state. *)
THEOREM CellInvariance == Spec => []IInv
BY InitIInv, NextIInv, PTL DEF Spec

-----------------------------------------------------------------------------
(* The theorems of the cell (run_real_cell and _run_pass). *)

(* No task of a pass is run twice, and none that was claimed is lost unless *)
(* its worker died, for any number of workers and tasks.                   *)
THEOREM TasksRunOnce == Spec => []EachTaskOnce
<1>1. IInv => EachTaskOnce
  BY DEF IInv, LoopInv
<1> QED BY <1>1, CellInvariance, PTL

(* The reported concurrency is the real one and within the requested. *)
THEOREM ConcurrencyBounded == Spec => []InFlightIsSlots
<1>1. IInv => InFlightIsSlots
  BY DEF IInv, LoopInv
<1> QED BY <1>1, CellInvariance, PTL

(* Whatever crashes, a result on disk has its manifest, its observations    *)
(* and its warm-up record.                                                 *)
THEOREM ResultsBacked == Spec => []ResultIsBacked
<1>1. IInv => ResultIsBacked
  BY DEF IInv
<1> QED BY <1>1, CellInvariance, PTL

(* A result counts the whole schedule, whatever workers died. *)
THEOREM ResultsComplete == Spec => []ResultCountsEveryTask
<1>1. IInv => ResultCountsEveryTask
  BY DEF IInv
<1> QED BY <1>1, CellInvariance, PTL

(* All genuine repetitions under one label come from one run. *)
THEOREM OneRunPerLabel == Spec => []LabelHoldsOneRun
<1>1. IInv => LabelHoldsOneRun
  BY DEF IInv
<1> QED BY <1>1, CellInvariance, PTL

-----------------------------------------------------------------------------
(* What a label publishes: Cell implements Publication.                    *)

\* A run under way has announced and published its repetitions so far, and the
\* label holds nothing else.
PublicationInv ==
  /\ run \in 0 .. MaxRuns
  /\ pc # "idle" =>
       /\ run >= 1
       /\ IdsOf("result") = {run} \X (1 .. (rep - 1))
       /\ IdsOf("manifest") = {run} \X (1 .. (IF pc = "result" THEN rep ELSE rep - 1))
  /\ rep \in 0 .. Repetitions
  /\ pc = "warmup" => rep = 0
  /\ pc \notin {"idle", "warmup"} => rep >= 1

\* A file of another kind leaves the ids of a kind alone; one of it adds its own.
LEMMA OtherIds ==
  ASSUME NEW kind, NEW other, other # kind, NEW n, files' = files \cup {File(other, n)}
  PROVE  IdsOf(kind)' = IdsOf(kind)
BY DEF IdsOf, File

LEMMA AddedId ==
  ASSUME NEW kind, NEW n, files' = files \cup {File(kind, n)}
  PROVE  IdsOf(kind)' = IdsOf(kind) \cup {Id}
<1>1. {g \in files' : g.kind = kind} = {g \in files : g.kind = kind} \cup {File(kind, n)}
  BY DEF File
<1>2. File(kind, n).id = Id
  BY DEF File
<1> QED BY <1>1, <1>2 DEF IdsOf

LEMMA SameIds ==
  ASSUME NEW kind, UNCHANGED files
  PROVE  IdsOf(kind)' = IdsOf(kind)
BY DEF IdsOf

\* The repetitions up to the next one.
LEMMA NextId ==
  ASSUME NEW r, NEW k \in Nat, k >= 1
  PROVE  ({r} \X (1 .. (k - 1))) \cup {<<r, k>>} = {r} \X (1 .. k)
<1>1. 1 .. k = (1 .. (k - 1)) \cup {k}
  OBVIOUS
<1> QED BY <1>1

\* A repetition is published last, and the next is opened or the command ends.
LEMMA ResultPublishes ==
  ASSUME PublicationInv, WriteResult
  PROVE  /\ IdsOf("manifest")' = {run} \X (1 .. rep)
         /\ IdsOf("result")' = {run} \X (1 .. rep)
         /\ IdsOf("manifest")' = IdsOf("manifest")
<1>1. pc = "result" /\ files' = files \cup {File("result", Measured)}
  BY DEF WriteResult
<1>2. rep \in Nat /\ rep >= 1
  BY <1>1, CellAssumption DEF PublicationInv
<1>3. IdsOf("manifest")' = IdsOf("manifest")
  BY <1>1, OtherIds
<1>4. IdsOf("result")' = IdsOf("result") \cup {<<run, rep>>}
  BY <1>1, AddedId DEF Id
<1>5. /\ IdsOf("result") = {run} \X (1 .. (rep - 1))
      /\ IdsOf("manifest") = {run} \X (1 .. rep)
  BY <1>1 DEF PublicationInv
<1> QED BY <1>2, <1>3, <1>4, <1>5, NextId

LEMMA ManifestAnnounces ==
  ASSUME PublicationInv, WriteManifest
  PROVE  /\ IdsOf("manifest") = {run} \X (1 .. (rep - 1))
         /\ IdsOf("manifest")' = IdsOf("manifest") \cup {<<run, rep>>}
         /\ IdsOf("manifest")' = {run} \X (1 .. rep)
         /\ IdsOf("result") = IdsOf("manifest")
         /\ IdsOf("result")' = IdsOf("result")
<1>1. pc = "manifest" /\ files' = files \cup {File("manifest", 0)}
  BY DEF WriteManifest
<1>2. rep \in Nat /\ rep >= 1
  BY <1>1, CellAssumption DEF PublicationInv
<1>3. IdsOf("result")' = IdsOf("result")
  BY <1>1, OtherIds
<1>4. IdsOf("manifest")' = IdsOf("manifest") \cup {<<run, rep>>}
  BY <1>1, AddedId DEF Id
<1>5. /\ IdsOf("result") = {run} \X (1 .. (rep - 1))
      /\ IdsOf("manifest") = {run} \X (1 .. (rep - 1))
  BY <1>1 DEF PublicationInv
<1> QED BY <1>2, <1>3, <1>4, <1>5, NextId

\* Every other step leaves what the label shows alone.
LEMMA OthersShowNothing ==
  ASSUME [Next]_vars, ~WriteManifest, ~WriteResult
  PROVE  IdsOf("manifest")' = IdsOf("manifest") /\ IdsOf("result")' = IdsOf("result")
<1>1. \/ UNCHANGED files
      \/ \E kind \in {"observations", "warmup", "failure"} : \E n : files' = files \cup {File(kind, n)}
  BY DEF vars, cellVars, Next, Main, Start, PassWork, SamplerStep, Sample, SampleUnavailable,
     SampleRaises, NextSample, Tick, WarmupDone, StopSampler, JoinSampler, PassFailure,
     Summarize, WriteObservations, WriteWarmup, Validate, RecordFailure, Crash
<1> QED BY <1>1, SameIds, OtherIds

LEMMA PublicationInvariance == Spec => []PublicationInv
<1>1. Init => PublicationInv
  BY CellAssumption DEF Init, PublicationInv
<1>2. PublicationInv /\ [Next]_vars => PublicationInv'
  <2> SUFFICES ASSUME PublicationInv, [Next]_vars PROVE PublicationInv'
    OBVIOUS
  <2>0. /\ run \in Nat /\ MaxRuns \in Nat /\ Repetitions \in Nat /\ Repetitions >= 1
        /\ rep \in Nat
    BY CellAssumption DEF PublicationInv
  <2>1. ASSUME NEW c \in SUBSET Workers \ {{}}, Start(c) PROVE PublicationInv'
    <3>1. IdsOf("manifest")' = {} /\ IdsOf("result")' = {}
      BY <2>1 DEF Start, Existing, Has, IdsOf
    <3>2. pc' = "warmup" /\ rep' = 0 /\ run' = run + 1 /\ run < MaxRuns
      BY <2>1 DEF Start
    <3>3. {run'} \X (1 .. (0 - 1)) = {}
      OBVIOUS
    <3> QED BY <2>0, <3>1, <3>2, <3>3 DEF PublicationInv
  <2>2. CASE WriteManifest
    <3>1. pc = "manifest" /\ pc' = "result" /\ UNCHANGED <<run, rep>>
      BY <2>2 DEF WriteManifest, Quiet
    <3> QED BY <2>2, <3>1, ManifestAnnounces DEF PublicationInv
  <2>3. CASE WriteResult
    <3>1. CASE rep < Repetitions
      <4>1. pc' = "measuring" /\ rep' = rep + 1 /\ run' = run
        BY <2>3, <3>1 DEF WriteResult, OpenRepetition
      <4>2. rep' - 1 = rep /\ rep' \in 0 .. Repetitions /\ rep' >= 1
        BY <2>0, <3>1, <4>1
      <4>3. /\ IdsOf("manifest")' = {run'} \X (1 .. (rep' - 1))
            /\ IdsOf("result")' = {run'} \X (1 .. (rep' - 1))
        BY <2>3, <4>1, <4>2, ResultPublishes
      <4>4. run >= 1
        BY <2>3 DEF WriteResult, PublicationInv
      <4> QED BY <4>1, <4>2, <4>3, <4>4 DEF PublicationInv
    <3>2. CASE ~(rep < Repetitions)
      BY <2>0, <2>3, <3>2 DEF WriteResult, EndRun, PublicationInv
    <3> QED BY <3>1, <3>2
  <2>4. CASE ~WriteManifest /\ ~WriteResult /\ ~\E c \in SUBSET Workers \ {{}} : Start(c)
    <3>1. IdsOf("manifest")' = IdsOf("manifest") /\ IdsOf("result")' = IdsOf("result")
      BY <2>4, OthersShowNothing
    <3>2. run' = run
      BY <2>4 DEF vars, cellVars, Next, Main, PassWork, SamplerStep, Sample, SampleUnavailable,
         SampleRaises, NextSample, Tick, WarmupDone, StopSampler, JoinSampler, PassFailure,
         Summarize, WriteObservations, WriteWarmup, Validate, RecordFailure, Crash, Quiet,
         OpenRepetition, EndRun
    <3>3. \/ pc' = "idle" /\ rep' = 0
          \/ pc = "warmup" /\ pc' = "measuring" /\ rep' = rep + 1
          \/ rep' = rep /\ pc' = pc
          \/ rep' = rep /\ pc \notin {"idle", "warmup", "result"}
             /\ pc' \notin {"idle", "warmup", "result"}
      BY <2>4 DEF vars, cellVars, Next, Main, PassWork, SamplerStep, Sample, SampleUnavailable,
         SampleRaises, NextSample, Tick, WarmupDone, StopSampler, JoinSampler, PassFailure,
         Summarize, WriteObservations, WriteWarmup, Validate, RecordFailure, Crash, Quiet,
         OpenRepetition, EndRun
    <3>4. CASE pc' = "idle" /\ rep' = 0
      BY <2>0, <3>2, <3>4 DEF PublicationInv
    <3>5. CASE pc = "warmup" /\ pc' = "measuring" /\ rep' = rep + 1
      <4>1. rep = 0 /\ rep' = 1
        BY <3>5 DEF PublicationInv
      <4>2. {run} \X (1 .. (0 - 1)) = {} /\ {run} \X (1 .. (1 - 1)) = {}
        OBVIOUS
      <4>3. IdsOf("manifest")' = {} /\ IdsOf("result")' = {}
        BY <3>1, <3>5, <4>1, <4>2 DEF PublicationInv
      <4> QED BY <2>0, <3>2, <3>5, <4>1, <4>2, <4>3 DEF PublicationInv
    <3>6. CASE rep' = rep /\ pc' = pc
      BY <3>1, <3>2, <3>6 DEF PublicationInv
    <3>7. CASE rep' = rep /\ pc \notin {"idle", "warmup", "result"}
               /\ pc' \notin {"idle", "warmup", "result"}
      BY <3>1, <3>2, <3>7 DEF PublicationInv
    <3> QED BY <3>3, <3>4, <3>5, <3>6, <3>7
  <2> QED BY <2>1, <2>2, <2>3, <2>4
<1> QED BY <1>1, <1>2, PTL DEF Spec

(* run_real_cell implements Publication: what a label reports are the        *)
(* repetitions of one run, in order, each once, and nothing is taken back.  *)
THEOREM LabelPublishes == Spec => PublishedInOrder
<1>1. Init => Label!Init
  BY DEF Init, Label!Init, IdsOf
<1>2. PublicationInv /\ [Next]_vars => [Label!Next]_<<IdsOf("manifest"), IdsOf("result")>>
  <2> SUFFICES ASSUME PublicationInv, [Next]_vars
               PROVE  [Label!Next]_<<IdsOf("manifest"), IdsOf("result")>>
    OBVIOUS
  <2>1. CASE WriteManifest
    <3>1. run \in 1 .. MaxRuns /\ rep \in 1 .. Repetitions
      BY <2>1, CellAssumption DEF WriteManifest, PublicationInv
    <3>2. Label!Announce(run, rep)
      BY <2>1, ManifestAnnounces DEF Label!Announce
    <3> QED BY <3>1, <3>2 DEF Label!Next
  <2>2. CASE WriteResult
    <3>1. Label!Publish
      BY <2>2, ResultPublishes DEF Label!Publish
    <3> QED BY <3>1 DEF Label!Next
  <2>3. CASE ~WriteManifest /\ ~WriteResult
    BY <2>3, OthersShowNothing
  <2> QED BY <2>1, <2>2, <2>3
<1> QED BY <1>1, <1>2, PublicationInvariance, PTL DEF Spec, PublishedInOrder, Label!Spec

-----------------------------------------------------------------------------
(* A run is finite: every step of a started command brings its end nearer. *)

Phase == {"idle", "warmup", "measuring", "stopping", "joined", "observations",
          "warmup_document", "validation", "manifest", "result"}
SamplerType ==
  [thread : {"reading", "waiting", "ended"}, stop : BOOLEAN, failed : BOOLEAN,
   broken : BOOLEAN, count : Nat, first : Nat, last : Nat, end : Nat]

\* The thread lives while a window is open, and its last sample is of that window.
WindowInv ==
  /\ pc \in Phase /\ rep \in 0 .. Repetitions
  /\ pc = "warmup" => rep = 0
  /\ sampler \in SamplerType
  /\ clock \in 0 .. MaxTime /\ sampler.last <= clock
  /\ pc \notin {"measuring", "stopping"} => sampler.thread = "ended"

LEMMA WindowInvariance == Spec => []WindowInv
<1>1. Init => WindowInv
  BY CellAssumption DEF Init, WindowInv, Phase, SamplerType, NoSampler
<1>2. WindowInv /\ [Next]_vars => WindowInv'
  <2> SUFFICES ASSUME WindowInv, [Next]_vars PROVE WindowInv'
    OBVIOUS
  <2>0. NoSampler \in SamplerType /\ NoSampler.last = 0 /\ NoSampler.thread = "ended"
    BY DEF NoSampler, SamplerType
  <2>1. ASSUME NEW c \in SUBSET Workers \ {{}}, Start(c) PROVE WindowInv'
    BY <2>0, <2>1, CellAssumption DEF Start, WindowInv, Phase
  <2>2. CASE (\E w \in Workers : PassWork(w)) \/ UNCHANGED vars
    BY <2>2 DEF PassWork, cellVars, vars, WindowInv
  <2>3. CASE SamplerStep
    <3>1. ~(pc \notin {"measuring", "stopping"})
      BY <2>3 DEF SamplerStep, Sample, SampleUnavailable, SampleRaises, NextSample, WindowInv
    <3>2. sampler' \in SamplerType /\ sampler'.last <= clock
      <4>1. CASE Sample
        <5>1. sampler \in SamplerType /\ clock \in Nat /\ sampler.count + 1 \in Nat
          BY CellAssumption DEF WindowInv, SamplerType
        <5> DEFINE s == [sampler EXCEPT !.count = @ + 1, !.last = clock,
                               !.first = IF sampler.count = 0 THEN clock ELSE @]
        <5>2. s \in SamplerType /\ s.last = clock
          BY <5>1 DEF SamplerType
        <5>3. sampler' = AfterSample(s)
          BY <4>1 DEF Sample
        <5> HIDE DEF s
        <5> QED BY <5>1, <5>2, <5>3 DEF AfterSample, SamplerType
      <4>2. CASE SampleUnavailable \/ SampleRaises \/ NextSample
        BY <4>2 DEF SampleUnavailable, SampleRaises, NextSample, WindowInv, SamplerType
      <4> QED BY <2>3, <4>1, <4>2 DEF SamplerStep
    <3>3. UNCHANGED <<pc, rep, clock>>
      BY <2>3 DEF SamplerStep, Sample, SampleUnavailable, SampleRaises, NextSample
    <3> QED BY <3>1, <3>2, <3>3 DEF WindowInv
  <2>4. CASE Tick
    BY <2>4, CellAssumption DEF Tick, WindowInv, SamplerType
  <2>5. ASSUME OpenRepetition, rep < Repetitions PROVE WindowInv'
    <3>1. sampler' \in SamplerType /\ sampler'.last = 0
      BY <2>5 DEF OpenRepetition, NoSampler, SamplerType
    <3> QED BY <2>5, <3>1, CellAssumption DEF OpenRepetition, WindowInv, Phase
  <2>6. ASSUME EndRun PROVE WindowInv'
    BY <2>0, <2>6, CellAssumption DEF EndRun, WindowInv, Phase
  <2>7. CASE WarmupDone
    BY <2>5, <2>7, CellAssumption DEF WarmupDone, WindowInv
  <2>8. CASE StopSampler \/ JoinSampler
    <3>0. sampler \in SamplerType /\ clock \in Nat
      BY CellAssumption DEF WindowInv
    <3>a. ASSUME StopSampler
          PROVE  sampler' \in SamplerType /\ sampler'.last = sampler.last
                 /\ sampler'.thread = sampler.thread
      BY <3>0, <3>a DEF StopSampler, SamplerType
    <3>b. ASSUME JoinSampler
          PROVE  sampler' \in SamplerType /\ sampler'.last = sampler.last
                 /\ sampler'.thread = sampler.thread
      BY <3>0, <3>b DEF JoinSampler, SamplerType
    <3>1. sampler' \in SamplerType /\ sampler'.last = sampler.last
          /\ sampler'.thread = sampler.thread
      BY <2>8, <3>a, <3>b
    <3> QED BY <2>8, <3>1 DEF StopSampler, JoinSampler, WindowInv, Phase
  <2>9. CASE Summarize
    BY <2>0, <2>9, CellAssumption DEF Summarize, WindowInv, Phase
  <2>10. CASE WriteObservations \/ WriteWarmup \/ Validate \/ WriteManifest
    BY <2>10 DEF WriteObservations, WriteWarmup, Validate, WriteManifest, Quiet,
                 WindowInv, Phase
  <2>11. CASE PassFailure \/ RecordFailure \/ Crash
    BY <2>6, <2>11 DEF PassFailure, RecordFailure, Crash
  <2>12. CASE WriteResult
    BY <2>5, <2>6, <2>12 DEF WriteResult, WindowInv
  <2> QED BY <2>1, <2>2, <2>3, <2>4, <2>7, <2>8, <2>9, <2>10, <2>11, <2>12
          DEF Next, Main
<1> QED BY <1>1, <1>2, PTL DEF Spec

\* What a pass can still do: three steps of a task not yet claimed, and of each
\* worker the steps to its next idle state and its last one.
Active == {w \in Workers : worker[w].pc \in {"idle", "running", "storing"}}
Busy == {w \in Workers : worker[w].pc \in {"running", "storing"}}
Running == {w \in Workers : worker[w].pc = "running"}
PassLeft ==
  3 * (N + 1 - next) + Cardinality(Active) + Cardinality(Busy) + Cardinality(Running)

\* What a sampling window can still do: its ticks, and of the thread two steps for
\* every tick after its last sample.
WindowLeft ==
  (IF pc \in {"measuring", "stopping"} THEN MaxTime - clock ELSE 0)
  + (CASE sampler.thread = "reading" -> 2 + 2 * (MaxTime - clock)
       [] sampler.thread = "waiting" -> 1 + 2 * (MaxTime - sampler.last)
       [] OTHER -> 0)

\* The phases of a repetition still to come, that of the warm-up apart.
PhaseLeft ==
  CASE pc = "measuring" -> 8 [] pc = "stopping" -> 7 [] pc = "joined" -> 6
    [] pc = "observations" -> 5 [] pc = "warmup_document" -> 4
    [] pc = "validation" -> 3 [] pc = "manifest" -> 2 [] OTHER -> 1

\* The steps of a repetition and of a run, at most.
APass == 3 * N + Cardinality(Workers)
ARepetition == 10 + APass + 3 * MaxTime
RepetitionsLeft == (Repetitions - rep) * ARepetition
ARun == 1 + APass + Repetitions * ARepetition

\* The steps the run under way can still take, at most.
StepsLeft ==
  IF pc = "idle" THEN 0 ELSE PhaseLeft + PassLeft + WindowLeft + RepetitionsLeft

LEMMA PassTypes ==
  ASSUME LoopInv
  PROVE  /\ IsFiniteSet(Active) /\ IsFiniteSet(Busy) /\ IsFiniteSet(Running)
         /\ Cardinality(Active) \in Nat /\ Cardinality(Busy) \in Nat
         /\ Cardinality(Running) \in Nat
         /\ N \in Nat /\ next \in Nat /\ next <= N + 1 /\ PassLeft \in Nat
<1>1. /\ IsFiniteSet(Active) /\ IsFiniteSet(Busy) /\ IsFiniteSet(Running)
  BY ClosedLoopAssumption, FS_Subset DEF Active, Busy, Running
<1>2. /\ Cardinality(Active) \in Nat /\ Cardinality(Busy) \in Nat
      /\ Cardinality(Running) \in Nat
  BY <1>1, FS_CardinalityType
<1>3. N \in Nat /\ next \in Nat /\ next <= N + 1
  BY ClosedLoopAssumption DEF LoopInv, LoopTypeOK
<1> QED BY <1>1, <1>2, <1>3 DEF PassLeft

\* Every step of a worker uses up one of them.
LEMMA WorkUsesUp ==
  ASSUME LoopInv, NEW w \in Workers, Work(w)
  PROVE  PassLeft' < PassLeft
<1> USE PassTypes DEF At, Idle
<1>t. worker \in [Workers -> [pc : {"idle", "running", "storing", "exited", "dead"},
                              task : 0 .. N]]
  BY DEF LoopInv, LoopTypeOK
<1>1. CASE Claim(w)
  <2>1. Active' = Active
    BY <1>1, <1>t DEF Claim, Active
  <2>2. Busy' = Busy \cup {w} /\ w \notin Busy
    BY <1>1, <1>t DEF Claim, Busy
  <2>3. Running' = Running \cup {w} /\ w \notin Running
    BY <1>1, <1>t DEF Claim, Running
  <2>4. /\ Cardinality(Busy') = Cardinality(Busy) + 1
        /\ Cardinality(Running') = Cardinality(Running) + 1
    BY <2>2, <2>3, FS_AddElement
  <2>5. next' = next + 1
    BY <1>1 DEF Claim
  <2> QED BY <2>1, <2>4, <2>5 DEF PassLeft
<1>2. CASE Release(w)
  <2>1. Active' = Active /\ Busy' = Busy /\ next' = next
    BY <1>2, <1>t DEF Release, Active, Busy
  <2>2. Running' = Running \ {w} /\ w \in Running
    BY <1>2, <1>t DEF Release, Running
  <2>3. Cardinality(Running') = Cardinality(Running) - 1
    BY <2>2, FS_RemoveElement
  <2> QED BY <2>1, <2>3 DEF PassLeft
<1>3. CASE Store(w)
  <2>1. Active' = Active /\ Running' = Running /\ next' = next
    BY <1>3, <1>t DEF Store, Active, Running
  <2>2. Busy' = Busy \ {w} /\ w \in Busy
    BY <1>3, <1>t DEF Store, Busy
  <2>3. Cardinality(Busy') = Cardinality(Busy) - 1
    BY <2>2, FS_RemoveElement
  <2> QED BY <2>1, <2>3 DEF PassLeft
<1>4. CASE Die(w)
  <2>1. /\ Active' = Active \ {w} /\ w \in Active
        /\ Busy' = Busy \ {w} /\ w \in Busy
        /\ Running' = Running \ {w} /\ w \in Running
    BY <1>4, <1>t DEF Die, Active, Busy, Running
  <2>2. /\ Cardinality(Active') = Cardinality(Active) - 1
        /\ Cardinality(Busy') = Cardinality(Busy) - 1
        /\ Cardinality(Running') = Cardinality(Running) - 1
    BY <2>1, FS_RemoveElement
  <2>3. next' = next
    BY <1>4 DEF Die
  <2> QED BY <2>2, <2>3 DEF PassLeft
<1>5. CASE Leave(w)
  <2>1. Busy' = Busy /\ Running' = Running /\ next' = next
    BY <1>5, <1>t DEF Leave, Busy, Running
  <2>2. Active' = Active \ {w} /\ w \in Active
    BY <1>5, <1>t DEF Leave, Active
  <2>3. Cardinality(Active') = Cardinality(Active) - 1
    BY <2>2, FS_RemoveElement
  <2> QED BY <2>1, <2>3 DEF PassLeft
<1> QED BY <1>1, <1>2, <1>3, <1>4, <1>5 DEF Work

\* A fresh pass has no more than APass steps.
LEMMA FreshPassLeft ==
  ASSUME NEW c, c \subseteq Workers, FreshPass(c)
  PROVE  PassLeft' \in 0 .. APass
<1>1. Active' = c /\ Busy' = {} /\ Running' = {} /\ next' = 1
  BY DEF FreshPass, Idle, At, Active, Busy, Running
<1>2. Cardinality(c) \in Nat /\ Cardinality(Workers) \in Nat
      /\ Cardinality(c) <= Cardinality(Workers)
  BY ClosedLoopAssumption, FS_Subset, FS_CardinalityType
<1> QED BY <1>1, <1>2, FS_EmptySet, ClosedLoopAssumption DEF PassLeft, APass

\* The counts of the parts, and the product that needs a step of its own.
LEMMA WindowLeftType ==
  ASSUME WindowInv
  PROVE  /\ MaxTime \in Nat /\ WindowLeft \in Nat
         /\ pc \notin {"measuring", "stopping"} => WindowLeft = 0
<1>1. /\ MaxTime \in Nat /\ clock \in 0 .. MaxTime /\ sampler.last \in 0 .. clock
  BY CellAssumption DEF WindowInv, SamplerType
<1>2. sampler.thread \in {"reading", "waiting", "ended"}
  BY DEF WindowInv, SamplerType
<1> QED BY <1>1, <1>2 DEF WindowInv, WindowLeft

LEMMA RepetitionsLeftType ==
  ASSUME WindowInv
  PROVE  /\ APass \in Nat /\ ARepetition \in Nat
         /\ RepetitionsLeft \in Nat /\ RepetitionsLeft <= Repetitions * ARepetition
         /\ Repetitions * ARepetition \in Nat
<1>1. Cardinality(Workers) \in Nat
  BY ClosedLoopAssumption, FS_CardinalityType
<1>2. APass \in Nat
  BY <1>1, ClosedLoopAssumption DEF APass
<1>3. ARepetition \in Nat
  BY <1>2, CellAssumption DEF ARepetition
<1>4. Repetitions \in Nat /\ rep \in 0 .. Repetitions
  BY CellAssumption DEF WindowInv
<1>5. \A a, b, c \in Nat : b <= a => /\ (a - b) * c \in Nat
                                     /\ (a - b) * c <= a * c /\ a * c \in Nat
  OBVIOUS
<1>6. rep \in Nat /\ rep <= Repetitions
  BY <1>4
<1> QED BY <1>2, <1>3, <1>4, <1>5, <1>6 DEF RepetitionsLeft

LEMMA StepsLeftType ==
  ASSUME LoopInv, WindowInv
  PROVE  StepsLeft \in Nat /\ (StepsLeft = 0 <=> pc = "idle")
<1>1. PhaseLeft \in 1 .. 8
  BY DEF PhaseLeft
<1> QED BY <1>1, PassTypes, WindowLeftType, RepetitionsLeftType DEF StepsLeft

\* The same of the next state.
PartsAreCounts ==
  /\ WindowLeft \in Nat
  /\ pc \notin {"measuring", "stopping"} => WindowLeft = 0
  /\ RepetitionsLeft \in Nat /\ RepetitionsLeft <= Repetitions * ARepetition
  /\ PassLeft \in Nat /\ StepsLeft \in Nat

LEMMA NextTypes ==
  LoopInv' /\ WindowInv' =>
    /\ WindowLeft' \in Nat
    /\ pc' \notin {"measuring", "stopping"} => WindowLeft' = 0
    /\ RepetitionsLeft' \in Nat /\ RepetitionsLeft' <= Repetitions * ARepetition
    /\ PassLeft' \in Nat /\ StepsLeft' \in Nat
<1>1. LoopInv /\ WindowInv => PartsAreCounts
  BY PassTypes, WindowLeftType, RepetitionsLeftType, StepsLeftType DEF PartsAreCounts
<1>2. LoopInv' /\ WindowInv' => PartsAreCounts'
  BY <1>1, PTL
<1> QED BY <1>2 DEF PartsAreCounts, ARepetition, APass

\* A sampler step, or a tick, uses up the window.
LEMMA WindowUsesUp ==
  ASSUME WindowInv, SamplerStep \/ Tick
  PROVE  WindowLeft' < WindowLeft
<1>1. /\ MaxTime \in Nat /\ clock \in 0 .. MaxTime /\ sampler.last \in 0 .. clock
  BY CellAssumption DEF WindowInv, SamplerType
<1>2. sampler \in SamplerType
  BY DEF WindowInv
<1>3. CASE Tick
  BY <1>1, <1>2, <1>3 DEF Tick, WindowLeft, SamplerType
<1>4. CASE SamplerStep
  <2>1. UNCHANGED <<pc, clock>>
    BY <1>4 DEF SamplerStep, Sample, SampleUnavailable, SampleRaises, NextSample
  <2>2. \/ sampler.thread \in {"reading", "waiting"} /\ sampler'.thread = "ended"
        \/ sampler.thread = "reading" /\ sampler'.thread = "waiting" /\ sampler'.last = clock
        \/ sampler.thread = "waiting" /\ sampler'.thread = "reading" /\ clock > sampler.last
    <3>1. CASE Sample
      BY <1>2, <3>1 DEF Sample, AfterSample, SamplerType
    <3>2. CASE SampleUnavailable \/ SampleRaises \/ NextSample
      BY <1>2, <3>2 DEF SampleUnavailable, SampleRaises, NextSample, SamplerType
    <3> QED BY <1>4, <3>1, <3>2 DEF SamplerStep
  <2> QED BY <1>1, <2>1, <2>2 DEF WindowLeft
<1> QED BY <1>3, <1>4

\* A repetition that is opened fits into what is taken off RepetitionsLeft.
LEMMA OpenUsesUp ==
  ASSUME LoopInv, WindowInv, pc # "idle", rep < Repetitions, OpenRepetition
  PROVE  StepsLeft' < StepsLeft
<1>1. PassLeft' \in 0 .. APass
  BY FreshPassLeft DEF OpenRepetition, LoopInv, LoopTypeOK
<1>2. WindowLeft' = 2 + 3 * MaxTime /\ PhaseLeft' = 8 /\ pc' # "idle"
  BY CellAssumption DEF OpenRepetition, NoSampler, WindowLeft, PhaseLeft
<1>3. RepetitionsLeft = RepetitionsLeft' + ARepetition
  <2>1. \A a, b, c \in Nat : (a - b) * c = (a - (b + 1)) * c + c
    OBVIOUS
  <2>2. rep' = rep + 1 /\ rep \in Nat /\ Repetitions \in Nat
    BY CellAssumption DEF OpenRepetition, WindowInv
  <2>3. ARepetition' = ARepetition
    BY DEF ARepetition, APass
  <2> QED BY <2>1, <2>2, <2>3, RepetitionsLeftType DEF RepetitionsLeft
<1>4. PhaseLeft \in 1 .. 8
  BY DEF PhaseLeft
<1>5. RepetitionsLeft' \in Int
  <2>1. rep' \in Int /\ Repetitions \in Int /\ ARepetition' \in Int
    BY CellAssumption, RepetitionsLeftType DEF OpenRepetition, WindowInv, ARepetition, APass
  <2>2. \A a, b, c \in Int : (a - b) * c \in Int
    OBVIOUS
  <2> QED BY <2>1, <2>2 DEF RepetitionsLeft
<1>6. StepsLeft' <= 10 + 3 * MaxTime + APass + RepetitionsLeft'
  BY <1>1, <1>2, <1>5, CellAssumption, RepetitionsLeftType DEF StepsLeft
<1>7. StepsLeft >= 1 + ARepetition + RepetitionsLeft'
  BY <1>3, <1>4, <1>5, PassTypes, WindowLeftType, RepetitionsLeftType DEF StepsLeft
<1> QED BY <1>1, <1>2, <1>5, <1>6, <1>7, StepsLeftType, CellAssumption, RepetitionsLeftType
        DEF ARepetition, StepsLeft

LEMMA EndUsesUp ==
  ASSUME LoopInv, WindowInv, pc # "idle", pc' = "idle"
  PROVE  StepsLeft' < StepsLeft
<1>1. StepsLeft' = 0
  BY DEF StepsLeft
<1> QED BY <1>1, StepsLeftType

\* The next phase of a repetition, with the pass over and the window closing or closed.
LEMMA PhaseUsesUp ==
  ASSUME LoopInv, WindowInv, LoopInv', WindowInv', pc # "idle", pc' # "idle", UNCHANGED <<loopVars, rep>>,
         PhaseLeft' < PhaseLeft, WindowLeft' <= WindowLeft
  PROVE  StepsLeft' < StepsLeft
<1>1. PassLeft' = PassLeft
  BY DEF loopVars, PassLeft, Active, Busy, Running
<1>2. RepetitionsLeft' = RepetitionsLeft
  BY DEF RepetitionsLeft, ARepetition, APass
<1>3. PhaseLeft \in 1 .. 8 /\ PhaseLeft' \in 1 .. 8
  BY DEF PhaseLeft
<1>4. WindowLeft \in Nat /\ WindowLeft' \in Nat
  BY WindowLeftType, NextTypes
<1> QED BY <1>1, <1>2, <1>3, <1>4, PassTypes, RepetitionsLeftType DEF StepsLeft

LEMMA StepUsesUp ==
  ASSUME LoopInv, WindowInv, LoopInv', WindowInv', Next, pc # "idle"
  PROVE  StepsLeft' < StepsLeft
<1>1. ASSUME NEW w \in Workers, PassWork(w) PROVE StepsLeft' < StepsLeft
  <2>1. PassLeft' < PassLeft
    BY <1>1, WorkUsesUp DEF PassWork
  <2>2. PhaseLeft' = PhaseLeft /\ WindowLeft' = WindowLeft
        /\ RepetitionsLeft' = RepetitionsLeft /\ pc' = pc
    BY <1>1 DEF PassWork, cellVars, PhaseLeft, WindowLeft, RepetitionsLeft, ARepetition, APass
  <2>3. PassLeft' \in Int
    BY NextTypes
  <2>4. PhaseLeft \in 1 .. 8
    BY DEF PhaseLeft
  <2> QED BY <2>1, <2>2, <2>3, <2>4, PassTypes, WindowLeftType, RepetitionsLeftType DEF StepsLeft
<1>2. CASE SamplerStep \/ Tick
  <2>1. WindowLeft' < WindowLeft
    BY <1>2, WindowUsesUp
  <2>2. UNCHANGED <<loopVars, pc, rep>>
    BY <1>2 DEF SamplerStep, Sample, SampleUnavailable, SampleRaises, NextSample, Tick
  <2>3. PassLeft' = PassLeft
    BY <2>2 DEF loopVars, PassLeft, Active, Busy, Running
  <2>4. PhaseLeft' = PhaseLeft /\ RepetitionsLeft' = RepetitionsLeft
    BY <2>2 DEF PhaseLeft, RepetitionsLeft, ARepetition, APass
  <2>5. WindowLeft \in Nat /\ WindowLeft' \in Nat
    BY WindowLeftType, NextTypes
  <2>6. PhaseLeft \in 1 .. 8
    BY DEF PhaseLeft
  <2> QED BY <2>1, <2>2, <2>3, <2>4, <2>5, <2>6, PassTypes, RepetitionsLeftType DEF StepsLeft
<1>3. CASE PassFailure \/ RecordFailure \/ Crash
  <2>1. pc' = "idle"
    BY <1>3 DEF PassFailure, RecordFailure, Crash, EndRun
  <2> QED BY <2>1, EndUsesUp
<1>4. CASE WarmupDone
  <2>1. rep < Repetitions
    BY <1>4, CellAssumption DEF WarmupDone, WindowInv
  <2> QED BY <1>4, <2>1, OpenUsesUp DEF WarmupDone
<1>5. CASE WriteResult
  <2>1. CASE rep < Repetitions
    BY <1>5, <2>1, OpenUsesUp DEF WriteResult
  <2>2. CASE ~(rep < Repetitions)
    <3>1. pc' = "idle"
      BY <1>5, <2>2 DEF WriteResult, EndRun
    <3> QED BY <3>1, EndUsesUp
  <2> QED BY <2>1, <2>2
<1>6. CASE StopSampler \/ JoinSampler
  <2>1. UNCHANGED <<loopVars, rep, clock>> /\ pc' # "idle" /\ PhaseLeft' < PhaseLeft
    BY <1>6 DEF StopSampler, JoinSampler, PhaseLeft
  <2>2. sampler'.thread = sampler.thread /\ sampler'.last = sampler.last
    BY <1>6 DEF StopSampler, JoinSampler, WindowInv, SamplerType
  <2>3. WindowLeft' <= WindowLeft
    <3>1. CASE StopSampler
      <4>1. WindowLeft' = WindowLeft
        BY <2>1, <2>2, <3>1 DEF StopSampler, WindowLeft
      <4> QED BY <4>1, WindowLeftType
    <3>2. CASE JoinSampler
      <4>1. WindowLeft' = 0
        BY <3>2, NextTypes DEF JoinSampler
      <4> QED BY <4>1, WindowLeftType
    <3> QED BY <1>6, <3>1, <3>2
  <2> QED BY <2>1, <2>3, PhaseUsesUp
<1>7. CASE Summarize \/ WriteObservations \/ WriteWarmup \/ Validate \/ WriteManifest
  <2>1. UNCHANGED <<loopVars, rep>> /\ pc' # "idle" /\ PhaseLeft' < PhaseLeft
    BY <1>7 DEF Summarize, WriteObservations, WriteWarmup, Validate, WriteManifest, Quiet,
                PhaseLeft
  <2>2. pc' \notin {"measuring", "stopping"}
    BY <1>7 DEF Summarize, WriteObservations, WriteWarmup, Validate, WriteManifest
  <2>3. WindowLeft' <= WindowLeft
    BY <2>2, WindowLeftType, NextTypes
  <2> QED BY <2>1, <2>3, PhaseUsesUp
<1>8. ASSUME NEW c \in SUBSET Workers \ {{}}, Start(c) PROVE FALSE
  BY <1>8 DEF Start
<1> QED BY <1>1, <1>2, <1>3, <1>4, <1>5, <1>6, <1>7, <1>8 DEF Next, Main

\* A run that starts has at most ARun steps to take.
LEMMA StartIsBounded ==
  ASSUME LoopInv', WindowInv', WindowInv, NEW c \in SUBSET Workers \ {{}}, Start(c)
  PROVE  StepsLeft' <= ARun
<1>1. PassLeft' \in 0 .. APass
  BY FreshPassLeft DEF Start
<1>2. WindowLeft' = 0 /\ PhaseLeft' = 1
  BY NextTypes DEF Start, PhaseLeft
<1>3. RepetitionsLeft' \in Nat /\ RepetitionsLeft' <= Repetitions * ARepetition
      /\ APass \in Nat /\ Repetitions * ARepetition \in Nat
  BY NextTypes, RepetitionsLeftType
<1> QED BY <1>1, <1>2, <1>3 DEF StepsLeft, ARun

StepsBounded == StepsLeft <= ARun

\* The command ends within ARun steps of its start, whatever its workers, its
\* sampler and the disk do: every step of a run brings its end nearer. (That the
\* next of them is taken is the fairness of LiveSpec.)
THEOREM RunIsFinite ==
  Spec => /\ [](StepsLeft \in 0 .. ARun)
          /\ [](StepsLeft = 0 <=> pc = "idle")
          /\ [][pc # "idle" => StepsLeft' < StepsLeft]_vars
<1>1. ARun \in Nat
  <2>1. Repetitions \in Nat /\ Cardinality(Workers) \in Nat /\ N \in Nat /\ MaxTime \in Nat
    BY CellAssumption, ClosedLoopAssumption, FS_CardinalityType
  <2>2. APass \in Nat
    BY <2>1 DEF APass
  <2>3. ARepetition \in Nat
    BY <2>1, <2>2 DEF ARepetition
  <2>4. Repetitions * ARepetition \in Nat
    BY <2>1, <2>3
  <2> QED BY <2>2, <2>4 DEF ARun
<1>2. Init => StepsBounded
  BY <1>1 DEF Init, StepsLeft, StepsBounded
<1>3. IInv /\ WindowInv /\ WindowInv' /\ StepsBounded /\ [Next]_vars => StepsBounded'
  <2> SUFFICES ASSUME LoopInv, WindowInv, WindowInv', StepsLeft <= ARun, [Next]_vars, LoopInv'
               PROVE  StepsLeft' <= ARun
    BY NextIInv DEF IInv, StepsBounded, ARun, ARepetition, APass
  <2>1. StepsLeft \in Nat /\ StepsLeft' \in Nat
    BY StepsLeftType, NextTypes
  <2>2. CASE UNCHANGED vars
    BY <2>2 DEF vars, cellVars, loopVars, StepsLeft, PhaseLeft, PassLeft, Active, Busy,
                Running, WindowLeft, RepetitionsLeft, ARepetition, APass
  <2>3. CASE Next /\ pc # "idle"
    <3>1. StepsLeft' < StepsLeft
      BY <2>3, StepUsesUp
    <3> QED BY <1>1, <2>1, <3>1
  <2>4. CASE Next /\ pc = "idle"
    <3>1. CASE \E c \in SUBSET Workers \ {{}} : Start(c)
      BY <3>1, StartIsBounded
    <3>2. CASE ~\E c \in SUBSET Workers \ {{}} : Start(c)
      <4>1. FALSE
        BY <2>4, <3>2 DEF Next, Main, PassWork, SamplerStep, Sample, SampleUnavailable,
           SampleRaises, NextSample, Tick, WarmupDone, StopSampler, JoinSampler, PassFailure,
           Summarize, WriteObservations, WriteWarmup, Validate, RecordFailure, WriteManifest,
           WriteResult, Crash, WindowInv
      <4> QED BY <4>1
    <3> QED BY <3>1, <3>2
  <2> QED BY <2>2, <2>3, <2>4
<1>4. IInv /\ IInv' /\ WindowInv /\ WindowInv' /\ [Next]_vars => [pc # "idle" => StepsLeft' < StepsLeft]_vars
  BY StepUsesUp DEF IInv
<1>5. IInv /\ WindowInv /\ StepsBounded
        => StepsLeft \in 0 .. ARun /\ (StepsLeft = 0 <=> pc = "idle")
  BY <1>1, StepsLeftType DEF IInv, StepsBounded
<1> QED BY <1>2, <1>3, <1>4, <1>5, CellInvariance, WindowInvariance, PTL DEF Spec
=============================================================================
