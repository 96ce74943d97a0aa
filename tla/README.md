# A verification of the Blackwell inference lab

The repository provisions one GPU instance, measures an inference engine on it
with an agentic workload, and tears the instance down again. Four things must
not go wrong, and each depends on the order of steps that tests seldom vary:

- nothing may go on billing that no file of the run knows of,
- a number that is published must come from a complete measurement by the rules
  it names,
- measurements that are compared must have been made on one machine, and a
  verdict must have been earned on the whole stage it speaks of,
- a sealed task set must be written once and read whole.

This directory holds TLA+ modules of the code that decides these, the TLC
configurations that check them on small instances, and proofs, checked by
TLAPS, of the properties for every instance. Source paths below are relative to
`src/src/blackwell_lab/` unless they begin with `src/`.

    tlc -workers 2 -config MCLifecycle.cfg MCLifecycle     # any run of the table below
    tlapm LifecycleProofs.tla                              # any of the *Proofs modules

Contents: 1 the system; 2 the modules; 3 what each run checks; 4 bounds;
5 fairness; 6 proofs; 7 where code and text disagree; 8 what is left out;
9 what could come next.

## 1. The system

### Components

| Component | State it keeps | Operations | Model |
|---|---|---|---|
| Terraform lifecycle, `cloud/lifecycle.py` | per run tag: `terraform.tfstate`, `<stage>.tfplan`, `<stage>.plan-meta.json`, `ledger.json`, `pending.json`, `session.json` | plan, apply, reconcile, teardown-plan, destroy, confirm_deletion, recover-empty-apply, pilot_blockers, orphan_report, session_summary | `Lifecycle` |
| Operator commands, `cloud/cli.py` | none of its own | the order of the calls above; qualify-agent, canary-agent, the baselines, analyze-qualification, verify-results | `Lifecycle`, `Qualification`, `Baseline`, `Grading` |
| Infrastructure, `src/infra/akamai/` | instance, firewall, the watchdog's stamp file | terraform resources; idle power-off | resources in `Lifecycle` |
| Private artifacts, `cloud/artifacts.py` | the files of all other components | atomic replacement | one step of every model that writes |
| Sealed-set custody, `sealed_sets/custody.py` | the custody directory | prepare, import, verify, scrub | `Custody` implements `CustodyLocation` |
| Sealed binding, `cloud/sealed_binding.py`, `sealed_materialize.py` | none; reads the directory | load one bound stage | the readers of `Custody` |
| Benchmark runner, `workload/runner.py` | shared index, in-flight counters, outcomes | closed-loop pass over a schedule | `ClosedLoop` |
| Genuine cells, `cloud/realbench.py` | files under a run label | warm-up, repetitions, failure records, semantic validation | `Cell` implements `Publication` |
| GPU telemetry, `cloud/telemetry.py` | samples, stop event, failure reason | sampler thread, summary | `Cell` |
| Agent loop, `workload/agent.py`, `catalog_agent.py` | turn counter, tool trace, deadline | one task, turn by turn | `Task` |
| Controllers, `workload/evidence.py`, `workflow.py`, `workflow_v3.py` | observations, runbooks, attempts, budget state | record evidence, judge a recommendation, warn, exhaust | `Task` implements `WorkflowProgress` |
| Model clients, `workload/openai_client.py`, `native_tools.py` | per turn: the assembler's slots and flags | one streamed turn under a deadline; assembly of its fragments into one call | the stream steps of `Task`; `ToolStream` |
| Simulated tools, scenarios, evaluator | fixed data | answer a call | constants of `Task` |
| Qualification protocol, `cloud/qualification.py`, `canary.py`, `analysis.py` | receipts, markers, session events | development, holdout, freeze, canary; metrics and gates; analysis | `Candidates`, `Qualification`, `Grading` |
| Matched control, `cloud/matched_control.py` | control record | capture, revalidate, persist, authenticate, audit | `Qualification` |
| Baselines, `cloud/mvl.py`, `qualified_mvl.py` | results of three cells, a marker | admission by a freeze or a canary, cells under a session budget | `Baseline`; admission in `Qualification` |
| Live provenance, `cloud/provenance.py` | none | compare the machine with the ledger in hand | `LiveProvenance` of `Qualification` |
| Preflight, engine contract, schemas, public metadata, AWS and Nebius kits | none that outlives a call | pure comparisons, static data, one-off scripts | not modelled |

`PROJECT.json` lists every component with its sources, including those not
modelled and the reason.

### How they meet

    owner ─► cli ─► lifecycle ─► terraform (child process) ─► provider account
               │        └─ ledger, pending, session files ─┐
               │                                           │ pilot gate
               ├─► sealed custody ◄── stage loads ─────────┤
               ├─► stage / canary / baseline command ─ receipt, event, control
               │         │   ▲ live provenance             │ ledger digest
               │         ▼   └─────────────────────────────┘
               └─► realbench cell ──► runner pass ──► task loop ──► endpoint
                        └── GPU sampler thread      └── tools, controller

- **Lifecycle and everything measured** meet in the files of the run: a
  measured run starts only if `pilot_blockers` returns nothing. The gate is a
  function of `ledger.json` and `pending.json` (`GateOpen`).
- **Importers and stage readers** share only a directory; there is no lock.
- **A cell** starts worker threads (shared index and counters under a lock,
  outcomes outside it) and a sampler thread (an event, a list, one field), and
  writes up to four files per repetition.
- **Stage commands** of several terminals share one results directory, the
  session record and the ledger, without a lock. What one publishes (a control
  record, the receipt of a freeze) admits another.
- **A cell and its verdict** meet in the observations, the result and the
  receipt; analyze-qualification and qualified-baseline read the observations
  again later.
- **A task** is one thread; what it waits for is the endpoint's stream, whose
  timing (`Task`) and cutting into chunks (`ToolStream`) are the environment's
  choice.

### What is hard, and what makes each part correct

| Part | Hard behaviour | It is correct when |
|---|---|---|
| Lifecycle | a command, or its terraform, dies between a provider call and its record; an orphaned terraform goes on; plans outlive their review; deletion takes longer than the window; console edits; ids that coincide between types | the gate never opens over an unrecorded resource, a recovery record covers every terraform run, a confirmation means gone, terraform runs what was approved, unless a second terminal plans over it, and the approved teardown deletes only what is recorded |
| Custody | attempts and their scrubs interleave file by file; a kill leaves half a tree; a removal of the scrub fails; a reader is between two reads when the tree is replaced | a receipted set stays whole, a manifest is over a whole body, a reader never mixes sets, a reported failure leaves no file but what its scrub could not remove |
| Cell | workers die silently; the sampler hangs, fails or dies; the command dies between files and is started again | each task runs once, results count every task and are backed by their files, a label holds one run, every run ends |
| Task | a stall outlives the deadline; acceptance and deadline race; rejected and malformed recommendations take different paths; evidence is overturned later | a completed task is grounded in what was shown, costs one call per turn, ends before its deadline; counts agree with the trace; every task ends |
| ToolStream | fragments of several calls interleaved, misnumbered, torn; a stream that stops anywhere | what is executed is what the model said, and a clean call is executed; a recorded turn is timed |
| Qualification | hours between the gate and the last write, in which the ledger may be replaced, the session record rewritten by another terminal, and the command killed between two of its files; two commands of one label | a control binds one execution, and the instance it ran on unless its own two reads of the ledger differed; with the same exception a treatment ran where its control ran and the audit accepts no directory of which that is not so; a baseline runs where its freeze ran |
| Grading | thresholds met exactly; the same rule evaluated in three places; failed repetitions whose observations stay | a passing receipt was earned on the whole schedule, and a stage that earned it gets it |
| Baseline | a missing, second, unreadable or early provisioned event; a canary that uses up the session; a turn that starts just before its end | the matrix fits what is left when it begins; no request of the qualified baseline leaves the session |

The hazards, each at the line where it bites and with the properties that cover
it, are in `PROJECT.json`; those that no property covers yet carry a note.

## 2. The modules and the code

Each definition's source lines are in the `map` of `PROJECT.json`. Definitions
that begin with the comment "Mutant:" are plausible faults of the definition
that follows them; no specification uses them. Each was substituted for its
definition once and makes the property it is listed with fail.

### Lifecycle

One run tag. `cloud` is the provider account, `state` is `terraform.tfstate`,
`bin` and `meta` are the saved plans and their reviewed metadata per stage,
`ledger`, `pending` and `session` are the files of the same names, `ctl` is the
command in progress and `tf` the terraform child process.

| Actions | Code |
|---|---|
| `PlanBinary`, `PlanMeta`, `PlanFails` | `save_plan`: terraform writes the binary, the plan is rendered and classified, the stage rules are enforced, the metadata is written; a refusal leaves the new binary beside the old metadata |
| `ApplyBegin`, `DestroyBegin` | `apply`, `destroy` up to the subprocess: `verify_saved_plan`, for destroy `verify_teardown_identity` and the comparison with the ledger, then `pending.json` |
| `StartTerraform`, `TfCreate`, `TfDelete`, `TfRecord`, `TfExit` | the subprocess: lock and staleness checks, one provider call and one state write per resource in dependency order, failure anywhere |
| `ReconcileBegin`, `ReconcileLedger`, `ClearPending`, `Report` | `reconcile`: `terraform show`, the two tagged lists, the verdict, `ledger.json`, then `pending.json`, then the session event |
| `ConfirmDeletion`, `ConfirmTimeout` | `confirm_deletion` and the end of `destroy` |
| `RecoverEmptyApply` | `recover_verified_empty_apply` |
| `Crash` | the command is killed between two steps; its terraform dies with it or lives on |
| `DeletionCompletes`, `ConsoleDelete`, `ConsoleEdit`, `Drift` | the provider, the owner at the console, a checkout or an hour's age that no longer matches the metadata |

A plan's digest is its number (`nplans`); a resource is a pair of type and
numeric id, because the two id sequences may coincide and some comparisons in
the code depend on the type being part of the key. Nothing in the code locks a plan
file, so a plan command may run in a second terminal at any moment, also between
another command's verification of the plan and its terraform. `ctl.began` is history:
the number of plans made when the command verified its own.

### CustodyLocation and Custody

`CustodyLocation` is the promise: a set appears at once and whole, may be
withdrawn while nobody holds a receipt for it, and never changes after the
receipt. `Custody` is the code: `tree` maps each existing path to the attempt
that created it and to whether its bytes are all there; `att` is a record per
run of the import command; `rd` a record per stage load.

| Actions | Code |
|---|---|
| `Prepare`, `MakeRoot` | `_prepare_destination`: absent, empty, replay, non-empty; the `mkdir` race |
| `MakeDir`, `OpenFile`, `FillFile` | `_mkdir_private`, `_write_bytes`: `O_EXCL` creation, then the bytes and a chmod by name |
| `BodyWritten`, `Readback`, `VerifyManifest`, `Verify` | `import_authorized_set` from the checkpoint before the manifest to the receipt, through `verify_custody`, one read per step |
| `IOError`, `Kill` | any exception inside the try block; death or Ctrl-C, which no except clause catches |
| `ScrubEnter`, `ScrubFile`, `ScrubLeave`, `ScrubDone`, `ScrubRaises` | `_scrub`: `rmtree`, one entry per step over a listing that may be out of date |
| `StartRead`, `ReadReceipt`, `ReadIndex`, `ReadBlob` | the stage load of the sealed binding, one file per step |

`rmtree` is called with `ignore_errors=True` (`sealed_sets/custody.py:639`, `:647`): a
directory it cannot list and an entry it cannot remove stay, and the scrub goes on.
`Stubborn` is the set of paths of which the environment may refuse that, at each try
anew (`MayStick`), and an attempt's `stuck` the paths that were refused to its scrub.
Outside `rmtree` nothing is ignored: an `OSError` of the `iterdir` or `unlink` at the
top of a destination the command did not create (`:643`) ends the scrub where it is
(`ScrubRaises`).

The refinement maps `published` to the set all of whose files are complete and
consistent (`Published`), `receipted` to the set whose import returned
(`Receipted`). `contended` is a history variable: two attempts have been inside
the try block at once. The promise is void from then on, and section 7 says why.

### Publication, ClosedLoop and Cell

`Publication` is what a label promises to whoever reads its results: repetitions are
announced (their manifest) and published (their result) in order, one at a time, all
by one run, and nothing is taken back. `Cell` implements it; the refinement maps
`announced` and `published` to the ids of the manifests and of the results on disk
(`IdsOf`).

`ClosedLoop` is `_run_pass`: `Claim` and `Release` are the two critical
sections, `Store` the write of the outcome outside the lock, `Die` an exception
outside `run_task`, `Leave` the end of the schedule. `Cell` extends it with the
command (`pc`), the sampler thread and the files of the label. A crew of one is
the branch of `_run_pass` that spawns no thread, in which an exception leaves
the pass instead of ending a thread (`PassRaised`).

| Actions of Cell | Code |
|---|---|
| `Start` | the refusal of a label with genuine artifacts; the warm-up pass |
| `WarmupDone`, `StopSampler`, `JoinSampler`, `PassFailure` | the repetition: sampler start, measured pass, `stop()`, in the order of the finally clause |
| `Summarize`, `WriteObservations`, `WriteWarmup`, `Validate`, `WriteManifest`, `WriteResult`, `RecordFailure` | the persistence of a repetition and its failure record |
| `Sample`, `SampleUnavailable`, `SampleRaises`, `NextSample` | `_loop` of the sampler: a sample, a recorded failure, an exception it does not catch |
| `Tick`, `Crash` | time inside a sampling window; the command's death between any two steps |

### WorkflowProgress and Task

`Task` is `run_task` (and its copy `run_catalog_task`) together with the four
controller families of `contract`: none, grounding, and workflow v1, v2 and v3,
with or without the citation of observation ids. `ctl` is the controller.

| Actions | Code |
|---|---|
| `BeginTurn`, `LateTurn`, `Exhaust` | the head of the loop over `range(max_turns)`, `note_turn`, the code after it |
| `ReadLine`, `ReadStalls`, `TurnBreaks`, `AssemblyFails`, `TurnCompletes` | `stream_turn` and `_parse_stream`: a line and the deadline check, the socket timeout, the error classes |
| `Observe`, `Recommend`, `CorrectTerminal`, `RefuseTerminal`, `ToolCrashes` | tool execution, `record_observation`, the terminal rules (`Judge`), the correction of a schema-invalid recommendation |

`Judge` is `validate_terminal` by contract: `RefsResolve`, `Publishable`,
`RelevantLog`, `PatternSupported`. What makes a log line relevant or a finding
match an assertion is lexical in the code and data in the model: a lookup
carries the diagnoses it is relevant to and the assertions it covers or denies.
`WorkflowProgress` is the controller's state machine by itself.

### ToolStream

One streamed turn, where `Task` takes its outcome as given. `said` is what the
model says: a set of calls, each with a kind of tool and of arguments. A call is
streamed in order as `Last` pieces: its id, its name, its arguments. `server`
records what was sent, `asm` is the `ToolCallAssembler`, `turn` what the agent
loop's turn record counts, `call` the assembled call.

| Actions | Code |
|---|---|
| `Fragment`, `Content`, `Reasoning` | `consume_delta`: fragments appended by index, the text flags, the timing events; `OutputEvent` is the loop over events in `run_task` |
| `Breaks` | the errors `_parse_stream` raises, and any exception of the transport |
| `Finalize` | the end of the stream, complete or not: `finalize`, whose refusals are `Failure` and `SlotFailure` in their order |
| `Execute` | `toolbox.execute` with its second validation, or the controller's correction |

### Candidates and Qualification

`Candidates` holds the tables of `qualification.py`: who is a candidate, of
which family, under which contract, which candidate is whose control, and which
configuration a command accepts for a candidate and a stage (`ConfigAccepted`,
`CanaryAccepted`, `BaselineAccepted`). It has no state.

`Qualification` is one run tag with its results directory, several terminals,
and the three commands that measure. `ledger` and `pending` are the lifecycle's
files; `session` is the set of terminal events of `session.json`; `results`,
`failed`, `markers`, `receipts` and `controls` are the artifacts, each under the
label and job that name it; `cmd` is what a command holds in memory. A digest
is the run or the ledger it was taken from. `machine` and `freezeOf` are
histories: where a run really executed, and on which freeze it was admitted.

| Actions | Code |
|---|---|
| `Begin`, `Gate` | the refusals, the configuration, `pilot_blockers` over the ledger read once (`cmd_qualify_agent`, `cmd_canary_agent`, `qualified_mvl.execute`) |
| `Capture` | `capture_development_session` and, for a treatment, the authentication of its control and the comparison with it |
| `Admit` | `authenticate_freeze` and the session budget of a baseline |
| `ReadSession`, `WriteStarted`, `WriteEnded` | `record_session_event`: the whole record is read, then written; events written in between by others are lost |
| `EnterCell`, `Measure`, `MeasurementFails` | live provenance, the label's directory, `run_real_cell` |
| `Judge`, `WriteReceipt`, `Mint`, `WriteControl`, `WriteMarker` | the verdict after `revalidate_development_session`, the receipt, `persist_completed_p1_development_control`, the failure marker |
| `ReplaceLedger`, `TogglePending`, `Crash` | a reconcile, apply or destroy in another terminal; the command's death between any two steps |

The ledger may be replaced by any genuine ledger of the run tag at any moment, also
between the gate's read (`cloud/cli.py:1338`) and the capture a few statements later
(`:1365`). `swapped`, a history too, is the set of runs of which these two reads saw
ledgers of different instances; section 7 says what follows from it.

### Grading

`Grading` follows one stage from its task outcomes to its verdict, at the
stage sizes and thresholds of the code. `blocks` are the observations, run-length
coded: consecutive tasks with one kind of outcome are a block, and because
templates follow each other round-robin a block knows how many tasks of each
template it holds. `result` is the result document, `receipt` the gates, `report`
the verdict of analyze-qualification, `replay` what a baseline's authentication of
the freeze concluded.

| Actions | Code |
|---|---|
| `Record`, `PassLost`, `PassEnds` | `_run_pass` at concurrency 1, where an exception leaves the pass and nothing is persisted; the observations file |
| `Build` | `build_real_result`, `validate_result_semantics`, or the failure record |
| `Judge` | `require_complete_stage_evidence`, `compute_catalog_metrics` or `compute_qualification_metrics`, `evaluate_stage_thresholds` or `evaluate_canary` |
| `Analyze` | `analysis.analyze` |
| `Replay` | the second grading in `authenticate_freeze` |

### Baseline

`Baseline` is either baseline command against a clock: `events` are the
timestamps of the provisioned events, `expiry` the deadline of
`SessionBudgetClient`, `flight` the request each worker waits for, with the
moment it was sent and its bound.

| Actions | Code |
|---|---|
| `Refused`, `Admit`, `Project`, `CanaryProject` | the refusals; the freeze or the canary; `remaining_session_seconds`, `project_measured_seconds`, `refuse_if_session_exceeded` |
| `BeginCell`, `TakeTask`, `Answer`, `EndPass`, `Abort` | `_run_cell`, the workers of a pass, the turns of a task, the persisted repetitions, the marker of a stop |
| `Tick` | a second of both clocks; a stream runs past its bound by at most the read timeout it was sent with |

## 3. What each run checks

| Run | Instance | Checks | Shows |
|---|---|---|---|
| `MCLifecycle.cfg` | 2 ids, 3 plans made at any moment, 1 console action; 1.6 M states | `TypeOK`, `GateMeansAccounted`, `ConfirmedMeansGone`, `ExecutesApprovedUnlessReplanned`, `DeletesOnlyRecorded`, `SessionEventsTrue` | with a second terminal that plans, crashes anywhere, orphans and console actions: the gate, the confirmation and the session events tell the truth, and only a plan made after the approval can take the approved one's place |
| `LifecycleTeardown.cfg` | 1 id, fair | `TeardownIsConfirmed` **violated** | section 7, 1 |
| `MCCustody.cfg` | 2 attempts at once, 2 sets, 1 reader, 2 blobs a stage, 2 stubborn paths; 970 k | `TypeOK`, `FailureLeavesOnlyStuck`, `WriteOnce`, `ReceiptedSetStaysWhole`, `SealedOverWholeBody`, `ReadsOneSet` | the refinement; overlapping scrubs, with removals that fail, leave of a failed attempt only what they were refused; kills, half scrubs and re-imports never mislead a reader or damage a receipted set |
| `MCCell.cfg` | 2 workers, 2 tasks, 2 repetitions, 2 runs of a label, fair; 591 k | `EachTaskOnce`, `ResultIsBacked`, `ResultCountsEveryTask`, `PublishedInOrder`, `RunEnds` | worker deaths, sampler failures and crashes never yield a short or unbacked result, the label implements `Publication`, and every run ends |
| `CellBrokenSampler.cfg` | window of 5 ticks | `BrokenTelemetryFails` **violated** | section 7, 2 |
| `MCTask.cfg` | 6 contracts, 4 turns, 2 diagnoses, fair; 503 k | `TypeOK`, `CompletedIsGrounded`, `CountsMatchTrace`, `OneCallPerTurn`, `ExhaustedWasWarned`, `DeadlineHolds`, `ProgressIsOrderly`, `TaskEnds` | grounding, budget, deadline and counts on every path, and the refinement of `WorkflowProgress` |
| `MCToolStream.cfg` | up to 2 calls in 4 pieces each, 2 indexes and an unusable one, 1 text or reasoning chunk; 2.3 M | `ExecutedAsSaid`, `CleanCallIsExecuted`, `OutputIsTimed` | no cutting, numbering or mixing of a turn executes what was not said or loses what was |
| `MCQualification.cfg` | 2 terminals, 2 labels, 2 ledgers on 2 machines, 2 commands out of 5 jobs, 2 ledger changes; 1.1 M | `TypeOK`, `ControlBoundUnlessSwapped`, `ControlFromOneRun`, `TreatmentComparable`, `AuditSound`, `BaselineOnFreezeHost` | where a measurement ran is where its records say it ran, except after a swap between its own two reads of the ledger, across crashes, replaced ledgers, lost session events and overlapping commands |
| `QualificationReplacedLedger.cfg` | the same | `ControlMeasuredOnBoundResource` **violated** | section 7, 4 |
| `MCBaseline.cfg` | both commands, cells of 1 and 2 workers, 7 session records, 9 ticks of a session of 6; 288 k | `TypeOK`, `RequestsInSession`, `MatrixFitsSession` | no request leaves the session, no matrix begins that does not fit |
| `MCGrading.cfg` | all stages at their real size, 12 outcomes, up to 3 blocks; 1.5 M | `TypeOK`, `VerdictIsEarned`, `MeritedStageContinues` | no verdict without merit, and no merit without its verdict |
| `GradingAnalysis.cfg` | development | `AnalysisIsOfAResult` **violated** | section 7, 3 |

What the less obvious properties say:

- `GateMeansAccounted`: when `pilot_blockers` returns nothing, every resource
  the provider would bill is in the ledger. It relates the account to two files
  written at different times by commands that may have died in between.
- `ExecutesApprovedUnlessReplanned`: of the plans that were on disk when the owner's
  phrase was checked, none but the one it names is executed: not the binary a refused
  plan left beside older metadata, not the other stage's. What it leaves open is in
  section 7.
- `FailureLeavesOnlyStuck` is stated entry by entry: a file that a failed attempt leaves
  behind was refused to its scrub, by name or with a directory above it. A removal that
  fails must not keep the scrub from the rest, nor must a second attempt in the tree.
- `SessionEventsTrue`: the session record gains `provisioned` only when both
  resources are in the ledger and nothing else bills, and
  `deletion_confirmed` only when every recorded resource is gone.
- `ResultCountsEveryTask`: a worker that dies in a crew of two ends silently
  and its task is filtered out of the outcomes; only the comparison of the
  schedule's length with the counted attempts keeps a short repetition from
  being persisted.
- `CompletedIsGrounded` is stated over the tool trace, that is over what the
  model was shown, and not over the controller's own lists.
- `ExecutedAsSaid` compares the call that runs with what the model said, not with
  the assembler's slots: a merged or torn name must come out as no tool's name,
  and a call may have lost its arguments only if it lost all of them.
- `ControlFromOneRun`: a control record is bound from a result, a receipt and an
  event that carry the label, not the run. Only the conjunction of the checks
  (one result, one completed event, no stopped one, no marker) makes them one
  execution, in spite of the events that overlapping writers lose.
- `ControlBoundUnlessSwapped`: a control record binds the instance on which its run
  was measured, unless the run is in `swapped`. The ledger may be replaced any number
  of times before, between and after the reads, by ledgers of one instance even
  between them. `TreatmentComparable` and `AuditSound` make the same exception for the
  runs they compare, and no other.
- `AuditSound` speaks of a directory as verify-results finds it, whoever wrote
  its parts and in which order.
- `VerdictIsEarned` is said of the scheduled tasks, the gates of the code of the
  recorded ones; `MeritedStageContinues` is the converse, and fails if any two of
  the checks on the way (result, evidence, metrics, gates, replay) disagree.
- `MatrixFitsSession` compares the projection with the session at the moment the
  matrix begins, for any record whose first event can be read;
  `RequestsInSession` also holds for two provisioned events, because the
  qualified baseline refuses them.

`CHECK_DEADLOCK FALSE` stands where the program really stops: an import that
has ended is not run again beyond the bounded number of attempts, a label that
has its results refuses a further run, a task returns, and each command of the
protocol ends.

## 4. Bounds

| Bound | Why it is enough |
|---|---|
| `Ids` 2 | two resource types share a number, and a second creation after a lost one gets a fresh number; a third id would be needed only for a third generation, which three plans do not reach |
| `MaxPlans` 3 | apply, a refused plan over it and one of a second terminal; apply, tear down and apply again; or apply, a refused plan and a teardown. Every plan gets a fresh digest, so the bound also ends the run |
| `MaxMeddlings` 1 | one console deletion or label change at any point; the properties are about one disagreement between account and ledger |
| `Attempts` 2, `MaxRunning` 2 | two at once for the scrub races, or one after the other: a kill and what the next import makes of its tree, a scrub and another set under the same names. `MaxRunning` is a bound on the environment, not something the code enforces |
| `TASKS_PER_STAGE` 2 | a body written in part, a reader between two blobs |
| `Stubborn` the manifest and the root | a file whose removal fails, and a directory whose listing or removal fails, at every depth of the scrub that uses it; the file is the one a reader looks at first. The proofs allow any paths |
| `ReadersUntilOverlap` | a state constraint: readers are followed until two attempts overlap for the first time. `ReadsOneSet` holds beyond that, and its proof has neither constraint nor bound |
| `SmallOverlappingScrubs` | a state constraint: while two scrubs are under way at once, at most 4 files are left in the tree (a whole set has 8). One scrub against a writer, a verifier or a finished import is explored at every size; between two scrubs what matters is an entry that one has listed and the other has removed. `FailuresLeaveOnlyStuck` is proved without it |
| `Workers` 2, `N` 2 | one worker dies while another goes on; every claim order |
| `Repetitions` 2, `MaxRuns` 2 | a crash in the first or second repetition, then a rerun of the label |
| `MaxTime` 2 or 5 | one sample, several, or none inside a window; 5 lets the last sample cover four fifths of the window without being its end |
| `MaxTurns` 4, `WarningAt` 1 | the code's 12 and 3, scaled: log, health result, runbook and recommendation need four turns, and the warning begins within them |
| `Deadline`, `ReadTimeout` 2 | each turn may be early, exactly at the deadline, or late |
| `NamePieces` 1, `ArgPieces` 2, `MaxChunks` 1 (ToolStream) | a stream may stop before, between and inside a name and arguments (one delta may carry several pieces); one chunk of text or reasoning at any place. `NamePieces` 2 only adds torn names, which the proofs cover |
| `MaxRuns` 2, `Terminals` 2, `Labels` 2 (Qualification) | a control and its treatment, a freeze and its baseline, or two commands of one label, one after the other or interleaved at any file; the proofs have no bound |
| `MaxMoves` 2 | the ledger is replaced and comes back, or moves once in each of two commands |
| `Jobs`, `Configs` | one historical pair, and a catalog candidate with freeze, baseline and canary; `Candidates` is evaluated for each |
| `Cuts` 2, 3, 8, 10, 11, 80 and the rest of the stage, `MaxBlocks` 3 (Grading) | block sizes on both sides of 1 %, 5 %, 40 %, 50 %, 60 % and 4 of 10; three blocks mix two kinds of failure with success |
| `TTL` 6, `MaxTime` 9, `TaskTimeout` 2, `MaxTurns` 2 (Baseline) | the session may end during the admission, the canary, any cell, pass, turn and stream; a stalled stream can run past it |
| `Matrix` <<1, 2>>, `Repetitions` 2, `WarmupPasses` 1 | two cells of different concurrency, a warm-up and a measured pass of each followed by another |

Symmetry is used only for sets whose members are compared for equality
(`Ids`, `Attempts`, `Sets`, `Terminals`, `Labels`), and only in runs without liveness.

## 5. Fairness

- **Lifecycle, `LiveSpec`.** Weak fairness of the steps of a running command,
  of terraform and of the provider's deletions: they are processes that run to
  their end. Strong fairness of planning a teardown, running it and reconciling:
  the owner follows the timeout message ("retry") again and again whenever the
  code allows it, in one terminal (`AtPrompt`: the next command after the last has
  ended). Crashes, drift and the console are left out of `LiveNext`,
  and reconcile's reads succeed. All this is generous to the code, so the
  violation does not hang on a lazy owner.
- **Cell, `LiveSpec`.** Weak fairness of each worker: `run_task` ends by its
  deadline and its socket timeouts. Weak fairness of the sampler: `nvidia-smi`
  runs under the 30 s timeout of `run_command`, and `stop()` sets the event the
  sleep waits on. Weak fairness of the main thread. None of `Tick` or `Crash`.
- **Task, `LiveSpec`.** Weak fairness of `Next`: one thread, every read has a
  timeout and every simulated tool a fixed latency.
- **ToolStream.** None: a turn that waits for ever is the matter of `Task`.
- **Qualification, Grading, Baseline.** None. A stage command that ends is the
  end of `Cell` and `Task`; nothing in the protocol itself waits for another
  command, and the owner is not obliged to type the next one.

## 6. Proofs

All theorems hold for every value of the constants that satisfies the named
assumptions: `IdsAssumption`, `BoundsAssumption` (Lifecycle),
`ClosedLoopAssumption`, `CellAssumption`, `TaskAssumption`,
`ToolStreamAssumption`, `TurnsAssumption`,
`QualificationAssumption`, `BaselineAssumption`, `CustodyAssumption`,
`NoPathAssumption` (Custody), `GradingAssumption`.
No theorem has a hypothesis on the environment besides: all hold with a second
planning terminal, with a ledger replaced at any moment and with any removals that fail.

### LifecycleProofs

`TypeCorrect`, `PendingCorrect`, `GateCorrect`, `ConfirmationCorrect`, from
`Invariance: Spec => []IInv`. `GateMeansAccounted` is not inductive by itself:
nothing in it says why a resource created a moment ago cannot be visible while
the gate is open. `IInv` adds the reasons:

- `IssuedIds`, `OpenIsNew`: an id in the state or the ledger was issued by the
  provider, and the creation under way is of an id no file knows yet;
- `CreatesAbsent`: terraform creates at an address only if what the state holds
  there has left the provider;
- `InStep`: command, terraform and pending record agree on the job;
- `UnfinishedIsFlagged`: while an apply still has something to create, a clean
  ledger stands under a pending record that no command is about to clear;
- `CleanIsComplete`: a ledger whose verdict is clean records all that is visible,
  or is out of date for good under a pending record (`Outdated`: one of its own
  resources has left the state or the provider), so that a teardown refuses it;
- `ConfirmedMeansGone`: the provider never reissues an id, so gone stays gone.

`SessionCorrect` follows from `ReportInvariance`, which adds `ReportInv`: what a
command is about to write into the session record agrees with the ledger it has
just written, whoever plans meanwhile.

The step is proved one conjunct at a time, each with one step per action, from
lemmas that say which actions write a variable at all (`WritesCloud`,
`WritesState`, ...).

`ExecutionCorrect` and `DeletionCorrect` follow from `PlanInvariance`. A digest in the
metadata is no longer that of the binary once a plan command was refused, so the
invariant has to say which binary terraform may open, and what the approved one does
to the files the verification compared it with:

- `PlansReviewed`: metadata whose digest is the binary's describes the binary;
- `ApprovedInv`: from its verification until terraform has taken it, the plan on disk
  is the approved one or was made since. A digest is never used twice and their number
  only grows (`PlansGrow`), while a command keeps the digest it approved
  (`ApprovalKept`), so "made since" is a comparison with `ctl.began`;
- `TeardownInv`: the resources the approved teardown will delete are in the state what
  they are in the ledger it was compared with, as long as its terraform may delete them.

### CellProofs

`TasksRunOnce`, `ConcurrencyBounded`, `ResultsBacked`, `ResultsComplete`,
`OneRunPerLabel`, from `CellInvariance`; `LabelPublishes` from `PublicationInvariance`. `LoopInv` is about the scheduler:
types, `EachTaskOnce`, `InFlightIsSlots`, only the crew works, what is held was
claimed. `FileInv` says, for each place the command can be in, which files of
the current repetition are there, and that every manifest and result under the
label is of the current run; with it the file properties are inductive. `InFlightIsSlots` needs the cardinality
lemmas of `FiniteSetTheorems`.

`LabelPublishes` is the refinement of `Publication`. `PublicationInv` says what a run
under way has left so far: the results of its repetitions before the current one, their
manifests, the current manifest once it is written, and nothing else under the label,
because a run starts only on a label that shows nothing. `WriteManifest` is then
`Announce`, `WriteResult` is `Publish`, and every other step, crashes included, leaves
both sets of ids alone (`OthersShowNothing`).

`RunIsFinite` is the safety half of `RunEnds`: a started command ends within `ARun`
steps. `StepsLeft` adds up what is left: of the pass (three steps of a task not yet
claimed, and by the sizes of `Active`, `Busy` and `Running` the rest of each worker's
task), of the sampling window (its ticks, and two steps of the thread for each tick
after its last sample, `WindowInv`), of the phases of the repetition, and
`ARepetition` for each repetition to come. Every step of a run lowers it
(`StepUsesUp`), so a run cannot go on for ever by any interleaving of deaths, samples
and ticks, for any number of workers, tasks and repetitions.

### TaskProofs

`TaskTyped`, `TurnBudget`, `DeadlineBounded`, `TaskGrounded`, `TaskProgress`,
from `TaskInvariance`; `TaskCounted` and `TaskWarned` from `Bookkeeping`. `LoopInv` (phases, turn counting, time) needs no
controller. `ControllerInv` says that the controller's state is the one its
evidence determines and stays open until the task is done. `EvidenceInv`
relates the controller's lists to the trace: the observations are the lookups of
the trace under the ids it shows, and a nonzero counter stands for an
observation of its kind, so an id that resolves in the controller names something
the model has seen. `CompletedIsGrounded` follows where a task is accepted
(`GroundedByVerdict`). `TaskProgress` is the refinement: each step of `Task` is
a step of `WorkflowProgress` or leaves the controller's state alone.

`Bookkeeping` adds `BookInv`. `CountsInv` is `CountsMatchTrace` with what the next
turn needs: the positions of a kind in the trace are a finite set that grows by the
new position or not at all (`AnswerAdds`, `CountsAreEntries`, from the cardinality
lemmas of `FiniteSetTheorems`), and a recommendation enters the trace as accepted, as
corrected or as rejected, one of the three. `WarningsInv` says how many warnings a
task has had that is at turn k: none before the last turns, then one for each of them.
That is enough only because an answered turn that does not end the task is
a tool answer or a correction, both of which carry the budget block.

`TaskIsFinite` is the safety half of `TaskEnds`: every step lowers `StepsLeft`, which
counts three steps of every turn to come, what is left of the turn under way, and one
for every tick until the last read must have returned; `DeadlineHolds` is what keeps
it from going below zero.

### ToolStreamProofs

`TypeCorrect`, `ExecutesWhatWasSaid`, `CleanCallsRun` and `RecordedTurnsAreTimed`,
from `Inductive`, for any number of calls, indexes and pieces. The properties
speak of what the server sent, the code of what the slots hold; `Assembled`
relates the two: a piece is in a slot exactly if it was sent, unless an index was
unusable, and then the turn is refused. Two lemmas about one slot do the rest:
`SlotHoldsAll`, and `WholeIsAlone`: a name or an argument text that is whole for
one call holds nothing of another. That the type invariant lists no refusal by the
toolbox is a claim too: the second validation never disagrees with the first
(`Placed`).

### QualificationProofs

All from `Inductive`. Why the properties are not inductive: a control is written by a
command that read the ledger hours earlier, so the invariant has to say what every
command holds in memory at every point (`CommandInv`) and what the files say of one
another (`FileInv`):

- `ReadInv`: the ledger of the gate and the captured one record the same instance,
  unless the run is in `swapped`; the set only grows (`Persist`), so what is said of
  the runs outside it is never said too early;
- `RunInv`: past live provenance a command executes on the instance of its gate's
  ledger; its result is on disk from the moment it was measured, and not before;
- `MatchInv`, `FreezeInv`: a treatment holds a bound control of the captured
  ledger, an admitted baseline a freeze of the instance of its ledger;
- `RunsApart`: no two commands are one run;
- `SessionBacked`, `ControlsBound`, `ReceiptsPlaced`, `TreatmentsBound`: an event
  names a run that persisted its result under the event's label and job (so a
  lone result and a lone event are of one run), and the records bind what they
  were measured on.

### CustodyProofs

`FailuresLeaveOnlyStuck`, `ReadersReadOneSet` and `TypeCorrect` hold whether or not
attempts overlap and follow from `IInv`. That a failed attempt has left no file
but what its scrub was refused is a fact about its last moment; the reason is older:

- `TreeInv`: every entry lies in a directory that exists, up to the root;
- `WorkInv`: what an attempt has written belongs to its set, and a manifest in
  it stands after the whole body and the indexes;
- `FileInv`: an attempt owns no file before it writes, and while it scrubs each of
  its files is, or lies under (`Above`), an entry still on its list or one that is
  stuck. A directory is taken off the list only together with a listing of its
  children or by getting stuck, and a name that somebody else removes or creates in
  between owns nothing of this attempt;
- `ReadInv`: what a reader has read so far of the set it is bound to.

`ReceiptsStayTrue` and `ManifestSealsWholeBody` are about histories without
overlap and follow from `Inv`, which adds `SoleInv`: an attempt inside its try
block is alone, everything below the root is its own, what it remembers to have
written is on disk and complete (`Kept`), and nobody is inside once a receipt is
out.

`ImplementsLocation` is the refinement. `PromiseKept` maps a step to a step of
`CustodyLocation`: once the history is contended it is `Overlap`; after a receipt
nothing changes (`ReceiptedSetStaysWhole` before and after the step); the step
that emits the receipt finds the package whole (`VerifiedWhole`); any other step
publishes, withdraws or stutters, because two whole packages one step apart have
the same manifest (`OneSetAtATime`, from `AuthorStays` and `SetStays`).

### BaselineProofs

`QualifiedRequestsInSession`, `BegunMatrixFits`, `PersistedAsMeasured` and
`TypeCorrect`, from `Inductive`. A request is bounded by `expiry` and not by the
session, so the invariant relates the two: `Deadline` says that in a qualified
matrix the first event is a timestamp not ahead of the clock, and that `expiry` is
not past its six hours, unless it is over already and no pass can begin.
(`remaining_session_seconds` never returns less than 0, so a late admission yields
an `expiry` of now, beyond the session's end.) `Standing` says where the command
may stand for its kind. `Counted`, the matter of `PersistedAsMeasured`, is part of
the type correctness too: that no cell persists more repetitions than were asked
for holds because each measured pass is counted once.

### GradingProofs

`GradingTyped`, `VerdictsEarned` and `MeritContinues`, from `Inductive`, at the stage
sizes and thresholds of the code, for every set of outcomes and every number of
blocks: of any sequence of task outcomes, where a run takes three blocks of twelve
kinds. The invariant itself is short (`PassInv`, `ResultInv`, `ReceiptInv`,
`ReplayInv`): what is judged is the whole schedule, a result is the accepted document
of the rows, a receipt the gates of complete rows. The work is in the sums. `SumTo` is
a recursive function; `SumStep` is its recursion, from `NatInductiveDef`, and
`Induction` an induction over a set of numbers, from the well-foundedness of `<`. With
them `SumMonotone`, `SumAdd` and `SumTelescope` hold for every length, and from these:

- `RowsOfAll`, `RowsUnion`: classes of outcomes without a common member are counted
  apart and together make up the recorded rows; so the statuses add up
  (`StatusesAddUp`) and the categories of the taxonomy to the errors and timeouts
  (`CategoriesAddUp`), which is what `validate_result_semantics` compares;
- `AttemptsAreScheduled`: the shares of a template telescope to its positions in the
  schedule, so that a full schedule is complete template by template;
- `AttainingPasses`: what attained its objectives is counted among the passes;
- `CallsOfRows`: rows that each made a call made at least as many calls as there are
  rows, which the bound on invalid calls needs;
- `RankFacts`: at most one slow row in twenty keeps the nearest rank within its limit,
  and conversely.

### Only model-checked

The liveness properties: `RunEnds`, `TaskEnds`, and the violation of
`TeardownIsConfirmed` (fairness and ENABLED are out of the prover's reach). Of the first
two the bound is proved (`RunIsFinite`, `TaskIsFinite`: a measure of the steps to come
that every step lowers); that the next step is taken is the fairness TLC assumes, and
that there always is one is what its runs show. Every
invariant and every action property of a passing run, and the three refinements, are
stated by a theorem.

## 7. Where code and text disagree

The first four are runs of section 3; the quoted lines are in `PROJECT.json`.

1. **A slow deletion can never be confirmed.** `confirm_deletion` closes its
   window with "Escalate or retry: re-run destroy confirmation". There is no
   such command: destroy refuses because the terraform state is empty, and
   reconcile empties the ledger that a confirmation would need.
2. **A sampler that dies of `TimeoutExpired` or `OSError` records no reason.**
   If the samples so far cover four fifths of the window, the summary is
   complete as if nothing had happened.
3. **A failed repetition is analyzed.** `run_real_cell` persists the observations
   before it builds the result. If the result is refused, its failure record
   says that the repetition "must never be analyzed"; analyze-qualification reads
   the observations, looks for neither result nor failure record, and reports
   whether the floor was met.
4. **A control may bind an instance it was not measured on.** The pilot gate reads
   `ledger.json`, and live provenance compares the machine with what it read; the
   capture reads the file again, and what it read is bound. A ledger replaced
   between the two, a window of a few statements, is bound by a control measured on
   the instance of the first. `matched_control.py` says that the ledger bound is the
   one "observed before live provenance" (`:363`) and that one replaced during
   measurement is never bound (`:994`). `ControlBoundUnlessSwapped` says that this is
   the only way.

Noticed while modelling, without a run of their own:

- `apply` and `destroy` check the digest of a plan file and then pass its path to
  terraform. A plan command in a second terminal that overwrites the file in between
  makes terraform execute a plan nobody reviewed, a teardown of resources the ledger
  does not record included. The docstring of `apply` promises "exactly the reviewed
  saved plan" (`cloud/lifecycle.py:1227`). This is the one case that
  `ExecutesApprovedUnlessReplanned` and `DeletesOnlyRecorded` leave open.
- An import that fails is reported as failed also if its scrub could not remove the
  manifest. "Failures are scrubbed before a finalized manifest can remain valid"
  (`sealed_sets/custody.py:4`) and "A failed import does not leave a schema-valid
  finalized manifest" (`src/docs/sealed-set-custody.md:199`) hold only if every removal
  succeeds: `rmtree` is told to ignore errors, and nobody looks afterwards.
- `finalize` promises "a complete native call or a sanitized assembly error"
  (`workload/native_tools.py:308`). The end of the stream is all it knows of
  completeness (`finish_reason` is not read): of a call cut off before its first
  argument fragment the name is left, the empty text is read as `{}`, and
  `get_service_health` or `check_recent_changes` runs with its defaults. A call cut
  off anywhere else is refused (`ExecutedAsSaid`).
- `session_summary` takes the first occurrence of each event: after a second
  apply and before its teardown it reports a finished session.
- `orphan_report` compares numeric ids of both types as one set; an unrecorded
  firewall with the id of the recorded instance passes as recorded.
- Of two imports into one empty directory the one whose `mkdir` fails scrubs
  every child of the directory, also a set already verified and receipted.
  `Custody` contains the behaviour; `WriteOnce` and `ReceiptedSetStaysWhole` are
  stated of histories without overlap (`contended`).
- A stream that stalls just before its deadline returns one whole read timeout
  after it: the timeout is clamped once, when the request is sent.
  `DeadlineHolds` bounds the overrun by that.
- A refused command under a label that has a control leaves a failure marker
  beside it (`_qualify_stop`), and from then on the control no longer
  authenticates.
- The watchdog's list of process names lacks qualify-agent, canary-agent and
  qualified-baseline (`src/infra/akamai/bootstrap/watchdog.sh:19`).
- A freeze of a candidate outside the catalog family never passes the first-token
  gate: `compute_qualification_metrics` looks for the figure where only the catalog
  metrics put it.

## 8. What is left out

- **Lifecycle.** One lifecycle command at a time, except planning in a second
  terminal, which is allowed at any moment. `orphan_report`, which only reads, is not an
  action; `GateMeansAccounted` covers the typed comparison of reconcile.
  `ConsoleEdit` changes a label; removing the run's tags is out of scope, since the tags are the only handle the code has on untracked resources.
  Reconcile reads the account in one step. Redaction, the refusals for
  historical runs, `terraform init`, cost estimates and price checks are left
  out. Atomic replacement of a file is taken from `artifacts.py`.
- **Custody.** File modes, symbolic links and the mode walk (modes never change,
  a vanished name is an `IOError`); the computation of the request and the
  approval phrase; the loading of bundles; the standalone verify and receipt
  commands, which read only. Bytes are a whole-or-torn flag and the set they came
  from: a digest comparison is exact.
- **Cell.** One command per label at a time; one warm-up pass; the contents of
  manifests; the mock runner's own persistence. `join` is assumed to outlast the
  read's own timeout, as their values say (30 s each, the read started first).
  Time passes only inside a sampling window.
- **Task.** Message text, prompts and prefix groups; token counts; tool latencies
  are 0 or 1; a line is read whole. What an evaluator says about a completed task
  is a pure function of it.
- **ToolStream.** A call's pieces come in order and once, as a token stream
  produces them; a text is compared by its pieces, so a torn name is assumed to be
  no tool's name and torn arguments no JSON object. A rejected turn's diagnostics
  and the usage count are left out, and the deadline is `Task`'s.
- **Qualification.** `EnterCell` refuses a label that has results; the code
  (`cloud/realbench.py:671`) also one that has only a manifest, left by a crash just before
  the result, so the model allows more. Other files of the results directory are not edited by hand.
  The endpoint is the loopback of the machine the command runs on, and the
  machine's identity comes from its link-local metadata service. A file is read
  or written in one step; the audit and the authentication of a control or a freeze,
  which read several, are one step each. Configurations are records of what the
  commands compare; hashes are identities.
- **Grading.** The scenario list of a sealed stage, which tool answered what, and
  the rounding of rates. Three blocks bound the shapes of a stage in the runs, not its
  size; the proofs have no such bound.
- **Baseline.** Wall and monotonic clock advance together, and the two adjacent
  statements that compute what is left and turn it into a deadline are one
  instant. The projection is in whole ticks. Canary quality is a choice of the
  environment. The session record does not change during the command.
- **Not modelled at all**: the watchdog's stamp file (it shares nothing with the
  commands but the power of the host, and losing power is a crash), preflight,
  engine profiles, schemas and public metadata (pure checks and static data), the
  pilot and verify commands, the AWS and Nebius scripts (no lifecycle stands
  behind them).

## 9. What could come next

The order so far followed importance: what may bill unnoticed (Lifecycle), what
must be written once (Custody), what is published (Cell), what a single number
means (Task, ToolStream), where it was measured (Qualification), what a verdict is worth
(Grading), and whether it fits the session (Baseline). Open:

1. **Lifecycle and Qualification composed**: `ReplaceLedger` and `TogglePending`
   are an abstraction of `Lifecycle` by hand; a refinement would show it.
2. **Two lifecycle commands of one tag** at a time, and two commands of one label
   in `Cell` (`Qualification` has them, with cells as single steps).
