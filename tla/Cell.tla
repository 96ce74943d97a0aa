-------------------------------- MODULE Cell --------------------------------
(***************************************************************************)
(* One genuine benchmark cell (run_real_cell of cloud/realbench.py): the   *)
(* warm-up pass, then for each repetition the measured pass bracketed by   *)
(* the GPU sampler thread, and the files that persist it in the directory  *)
(* of the run label.  The command may die at any step and be run again     *)
(* with the same label.  Time passes only inside a sampling window, as     *)
(* Ticks counted from its start.                                           *)
(***************************************************************************)
EXTENDS ClosedLoop

CONSTANTS Repetitions,  \* spec.repetitions
          MaxRuns,      \* bound: runs of the command with this label
          MaxTime       \* bound: length of a sampling window

ASSUME CellAssumption ==
  Repetitions \in Nat \ {0} /\ MaxRuns \in Nat \ {0} /\ MaxTime \in Nat

VARIABLES pc,        \* where the command is
          run,       \* which run of the command this is
          rep,       \* current repetition
          warm,      \* number of warm-up outcomes, until they are written
          sampler,   \* the GPU sampler of this repetition and its thread
          clock,     \* time since the window was opened
          files      \* files in the label's directory

cellVars == <<pc, run, rep, warm, sampler, clock, files>>
vars == <<loopVars, cellVars>>

-----------------------------------------------------------------------------
(* The sampler: what its thread does, what it recorded, its window.        *)
(* "broken" is a history variable: the thread ended by an exception that   *)
(* _loop does not catch.                                                   *)
NoSampler ==
  [thread |-> "ended", stop |-> FALSE, failed |-> FALSE, broken |-> FALSE,
   count |-> 0, first |-> 0, last |-> 0, end |-> 0]

(* while not stop_event.is_set(): the loop goes on reading or ends. *)
AfterSample(s) == IF s.stop THEN [s EXCEPT !.thread = "ended"]
                  ELSE [s EXCEPT !.thread = "waiting"]

(* read_gpu_sample returned: the sample is stamped and appended. *)
Sample ==
  /\ sampler.thread = "reading"
  /\ sampler' = AfterSample([sampler EXCEPT !.count = @ + 1, !.last = clock,
                               !.first = IF sampler.count = 0 THEN clock ELSE @])
  /\ UNCHANGED <<loopVars, pc, run, rep, warm, clock, files>>

(* nvidia-smi failed or printed something else: the reason is recorded. *)
SampleUnavailable ==
  /\ sampler.thread = "reading"
  /\ sampler' = [sampler EXCEPT !.thread = "ended", !.failed = TRUE]
  /\ UNCHANGED <<loopVars, pc, run, rep, warm, clock, files>>

(* run_command's timeout, or an OSError: neither is TelemetryUnavailable, so *)
(* the thread dies and no reason is recorded.                               *)
SampleRaises ==
  /\ sampler.thread = "reading"
  /\ sampler' = [sampler EXCEPT !.thread = "ended", !.broken = TRUE]
  /\ UNCHANGED <<loopVars, pc, run, rep, warm, clock, files>>

(* The interval has elapsed (a positive time), or stop() woke the thread. *)
NextSample ==
  /\ sampler.thread = "waiting"
  /\ IF sampler.stop THEN sampler' = [sampler EXCEPT !.thread = "ended"]
     ELSE clock > sampler.last /\ sampler' = [sampler EXCEPT !.thread = "reading"]
  /\ UNCHANGED <<loopVars, pc, run, rep, warm, clock, files>>

Tick ==
  /\ pc \in {"measuring", "stopping"} /\ clock < MaxTime
  /\ clock' = clock + 1
  /\ UNCHANGED <<loopVars, pc, run, rep, warm, sampler, files>>

(* summary(): the samples must cover four fifths of the window. *)
Covered(s) == s.count >= 2 /\ s.end > 0 /\ 10 * (s.last - s.first) >= 8 * s.end
SummaryOK(s) == ~s.failed /\ Covered(s)

-----------------------------------------------------------------------------
(* Files are named by the run id of the repetition, fresh in every run; a   *)
(* result and an observation file count the outcomes they were made from.  *)
Id == <<run, rep>>
File(kind, n) == [kind |-> kind, id |-> Id, count |-> n]
Measured == Cardinality(outcomes)
Has(kind) == \E f \in files : f.kind = kind

Quiet == UNCHANGED <<loopVars, run, rep, sampler, clock>>

\* Mutant: only results count as existing artifacts.
OnlyResults == Has("result")

(* Existing genuine artifacts in this run label. *)
Existing == Has("result") \/ Has("manifest")

(* The command is started; with a crew of one the pass runs in its thread. *)
Start(c) ==
  /\ pc = "idle" /\ run < MaxRuns /\ ~Existing
  /\ pc' = "warmup" /\ run' = run + 1 /\ rep' = 0 /\ warm' = 0
  /\ FreshPass(c)
  /\ sampler' = NoSampler /\ clock' = 0
  /\ UNCHANGED files

(* Worker steps happen while a pass runs. *)
PassWork(w) == pc \in {"warmup", "measuring"} /\ Work(w) /\ UNCHANGED cellVars

(* An exception in the only worker leaves _run_pass. *)
PassRaised == Cardinality(crew) = 1 /\ \E w \in crew : worker[w].pc = "dead"

(* The sampler is created and started, then the measured pass.              *)
OpenRepetition ==
  /\ pc' = "measuring" /\ rep' = rep + 1
  /\ FreshPass(crew)
  /\ sampler' = [NoSampler EXCEPT !.thread = "reading"]
  /\ clock' = 0
  /\ UNCHANGED run

WarmupDone ==
  /\ pc = "warmup" /\ Joined /\ ~PassRaised
  /\ warm' = Measured
  /\ OpenRepetition /\ UNCHANGED files

\* Mutant: stop() joins without setting the event.
StopUnset ==
  /\ pc = "measuring" /\ Joined
  /\ pc' = "stopping"
  /\ UNCHANGED <<loopVars, run, rep, warm, sampler, clock, files>>

(* The measured pass has returned or raised; stop() sets the event. *)
StopSampler ==
  /\ pc = "measuring" /\ Joined
  /\ pc' = "stopping"
  /\ sampler' = [sampler EXCEPT !.stop = TRUE]
  /\ UNCHANGED <<loopVars, run, rep, warm, clock, files>>

(* join() returns and the window is closed; run_command's timeout ends a    *)
(* hanging read before join's own timeout does.                            *)
JoinSampler ==
  /\ pc = "stopping" /\ sampler.thread = "ended"
  /\ sampler' = [sampler EXCEPT !.end = clock]
  /\ pc' = "joined"
  /\ UNCHANGED <<loopVars, run, rep, warm, clock, files>>

(* The command ends; what it knew is gone. *)
EndRun ==
  /\ pc' = "idle" /\ rep' = 0 /\ warm' = 0 /\ sampler' = NoSampler /\ clock' = 0
  /\ FreshPass({}) /\ UNCHANGED run

(* An exception of a pass itself: no failure record. *)
PassFailure ==
  /\ pc \in {"warmup", "joined"} /\ PassRaised
  /\ EndRun /\ UNCHANGED files

(* The summary is taken; the sampler is not used again. *)
Summarize ==
  /\ pc = "joined" /\ ~PassRaised /\ SummaryOK(sampler)
  /\ pc' = "observations" /\ sampler' = NoSampler /\ clock' = 0
  /\ UNCHANGED <<loopVars, run, rep, warm, files>>

WriteObservations ==
  /\ pc = "observations"
  /\ files' = files \cup {File("observations", Measured)}
  /\ pc' = IF rep = 1 THEN "warmup_document" ELSE "validation"
  /\ Quiet /\ UNCHANGED warm

WriteWarmup ==
  /\ pc = "warmup_document"
  /\ files' = files \cup {File("warmup", warm)}
  /\ pc' = "validation" /\ warm' = 0
  /\ Quiet

\* Mutant: the schedule's length is not compared with the outcomes.
SomeAttempted == Measured > 0

(* validate_result_semantics: sample_design.total_attempts, taken from the  *)
(* schedule, must equal tasks.attempted, counted over the outcomes, and at *)
(* least one task was attempted.                                           *)
SemanticsOK == Measured > 0 /\ Measured = N

Validate ==
  /\ pc = "validation" /\ SemanticsOK
  /\ pc' = "manifest"
  /\ Quiet /\ UNCHANGED <<warm, files>>

(* Anything that raises between the summary and the validation leaves a     *)
(* failure record: a failed summary, a failed validation, or an I/O error. *)
RecordFailure ==
  /\ \/ pc = "joined" /\ ~PassRaised /\ ~SummaryOK(sampler)
     \/ pc \in {"observations", "warmup_document", "validation"}
  /\ files' = files \cup {File("failure", 0)}
  /\ EndRun

\* Mutant: the result is written before its manifest.
ResultFirst ==
  /\ pc = "manifest"
  /\ files' = files \cup {File("result", Measured)}
  /\ pc' = "result"
  /\ Quiet /\ UNCHANGED warm

WriteManifest ==
  /\ pc = "manifest"
  /\ files' = files \cup {File("manifest", 0)}
  /\ pc' = "result"
  /\ Quiet /\ UNCHANGED warm

WriteResult ==
  /\ pc = "result"
  /\ files' = files \cup {File("result", Measured)}
  /\ IF rep < Repetitions THEN OpenRepetition /\ UNCHANGED warm ELSE EndRun

(* The command dies, or the manifest or the result cannot be written. *)
Crash == pc # "idle" /\ EndRun /\ UNCHANGED files

-----------------------------------------------------------------------------
Init ==
  /\ crew = {} /\ next = 1 /\ inFlight = 0 /\ achieved = 0 /\ outcomes = {}
  /\ worker = [w \in Workers |-> At("exited", 0)]
  /\ pc = "idle" /\ run = 0 /\ rep = 0 /\ warm = 0
  /\ sampler = NoSampler /\ clock = 0 /\ files = {}

SamplerStep == Sample \/ SampleUnavailable \/ SampleRaises \/ NextSample

Main ==
  \/ WarmupDone \/ StopSampler \/ JoinSampler \/ PassFailure
  \/ Summarize \/ WriteObservations \/ WriteWarmup \/ Validate
  \/ RecordFailure \/ WriteManifest \/ WriteResult

Next ==
  \/ \E c \in SUBSET Workers \ {{}} : Start(c)
  \/ \E w \in Workers : PassWork(w)
  \/ SamplerStep \/ Tick \/ Main \/ Crash

Spec == Init /\ [][Next]_vars

(* A task ends within its deadline and the client's socket timeouts, a read *)
(* of the sampler within the timeout of run_command, and the command goes  *)
(* on: nothing obliges it to be started, and nothing obliges time to pass. *)
LiveSpec ==
  /\ Spec
  /\ \A w \in Workers : WF_vars(PassWork(w))
  /\ WF_vars(SamplerStep)
  /\ WF_vars(Main)

-----------------------------------------------------------------------------
(* Properties. *)

(* Whenever a result is in the directory, also right after a crash, the    *)
(* manifest, the observations it was computed from and, for the first      *)
(* repetition, the warm-up record of the same run are there for            *)
(* verify-results to hold against it.                                      *)
ResultIsBacked ==
  \A f \in files : f.kind = "result" =>
    /\ \E g \in files : g.kind = "manifest" /\ g.id = f.id
    /\ \E g \in files : g.kind = "observations" /\ g.id = f.id /\ g.count = f.count
    /\ f.id[2] = 1 => \E g \in files : g.kind = "warmup" /\ g.id = f.id

(* A result counts every task of the schedule: a worker that died in the    *)
(* measured pass can never shorten a repetition unnoticed.                 *)
ResultCountsEveryTask == \A f \in files : f.kind = "result" => f.count = N

(* One label reports the repetitions of one run, in order, each once, and    *)
(* takes none back, however often the command crashed and was started again *)
(* (run_real_cell: the refusal of a used label, the order of its writes).   *)
IdsOf(kind) == {f.id : f \in {g \in files : g.kind = kind}}
Label == INSTANCE Publication WITH
  Runs <- 1..MaxRuns, announced <- IdsOf("manifest"), published <- IdsOf("result")
PublishedInOrder == Label!Spec

(* A run that was started ends. *)
RunEnds == pc # "idle" ~> pc = "idle"

(* src/src/blackwell_lab/cloud/telemetry.py:350: a run with broken telemetry *)
(* fails visibly; the summary never accepts a sampler whose thread died.   *)
BrokenTelemetryFails ==
  pc = "joined" /\ SummaryOK(sampler) => ~sampler.broken
=============================================================================
