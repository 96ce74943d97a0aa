------------------------------ MODULE Grading ------------------------------
(***************************************************************************)
(* From the task outcomes of one stage to its verdict: the observations    *)
(* run_real_cell persists, the result document built and validated from    *)
(* them, the completeness check, the metrics and the gates of the receipt, *)
(* and the two later readers of the observations: analyze-qualification    *)
(* and the freeze authentication of qualified-baseline.                    *)
(*                                                                         *)
(* Stage sizes and thresholds are those of the code.  Consecutive tasks    *)
(* that end alike are one block; templates follow each other round-robin,  *)
(* so a block knows how many tasks of each template it holds.  Stages run  *)
(* at concurrency one: what the worker raises leaves the pass, and nothing *)
(* of the repetition is persisted.                                         *)
(***************************************************************************)
EXTENDS Integers, Sequences

CONSTANTS Stages,      \* the stages judged
          Catalog,     \* whether the candidate is one of the catalog family
          Outcomes,    \* environment: the ways a task may end
          Cuts,        \* environment: sizes of a block
          MaxBlocks    \* environment: blocks of one stage

Table(tasks, templates, floor, entry) ==
  [tasks |-> tasks, templates |-> templates, floor |-> floor, entry |-> entry]

(* stage_spec and canary_spec; the floor in hundredths. *)
StageSpec ==
  [development |-> Table(20, 6, 40, FALSE), holdout |-> Table(20, 4, 50, FALSE),
   freeze |-> Table(200, 10, 60, TRUE), canary |-> Table(10, 6, 40, FALSE)]
CANARY_MIN_PASSES == 4

ERROR_TAXONOMY ==
  <<"endpoint_error", "malformed_tool_call", "invalid_tool_name",
    "invalid_tool_arguments", "no_terminal_recommendation",
    "direct_evidence_required", "workflow_requirements_unmet", "task_timeout",
    "agent_runtime_error">>
Categories == {ERROR_TAXONOMY[i] : i \in DOMAIN ERROR_TAXONOMY}
STRUCTURAL_TOOL_FAILURES ==
  {"malformed_tool_call", "invalid_tool_name", "invalid_tool_arguments"}

(* How a task ends.  fails: the templates whose incident it gets wrong;    *)
(* ttft: its best first token; prompt: every turn had its first token in   *)
(* time; usage: every turn reported its tokens.                            *)
Outcome ==
  [status : {"completed", "error", "timeout"},
   category : Categories \cup {"none"}, fails : SUBSET (1..10), calls : Nat,
   ttft : {"fast", "slow", "none"}, prompt : BOOLEAN, late : BOOLEAN,
   usage : BOOLEAN]

ASSUME GradingAssumption ==
  /\ Stages \subseteq DOMAIN StageSpec
  /\ Catalog \subseteq BOOLEAN
  /\ Cuts \subseteq Nat \ {0} /\ MaxBlocks \in Nat \ {0}
  /\ \A k \in Outcomes :
       /\ k \in Outcome
       /\ k.status = "completed" <=> k.category = "none"
       /\ k.status = "timeout" <=> k.category = "task_timeout"
       /\ k.prompt => k.ttft = "fast"

VARIABLES stage, catalog,
          blocks,     \* the measured observations, in schedule order
          at,         \* where the command stands
          result,     \* the persisted result document
          receipt,    \* the gates of the receipt
          report,     \* floor_met of an analysis report
          replay      \* what qualified-baseline made of the freeze

vars == <<stage, catalog, blocks, at, result, receipt, report, replay>>

None == [none |-> TRUE]
Tasks == StageSpec[stage].tasks
Templates == 1..StageSpec[stage].templates
Floor == StageSpec[stage].floor
StudyEntry == StageSpec[stage].entry

-----------------------------------------------------------------------------
(* The rows. *)

(* generate_task_instances: positions 1..n that hold template t. *)
Upto(t, n) == (n + StageSpec[stage].templates - t) \div StageSpec[stage].templates
Share(b, t) == Upto(t, b.last) - Upto(t, b.first - 1)
Size(b) == b.last - b.first + 1

Recorded == IF blocks = <<>> THEN 0 ELSE blocks[Len(blocks)].last
Left == Tasks - Recorded

(* f[1] + ... + f[n]. *)
Sums(f) == LET s[k \in Nat] == IF k = 0 THEN 0 ELSE s[k - 1] + f[k] IN s
SumTo(f, n) == Sums(f)[n]

(* The rows that end in one of the ways K; those of template t. *)
Rows(K) ==
  SumTo([i \in DOMAIN blocks |->
           IF blocks[i].kind \in K THEN Size(blocks[i]) ELSE 0], Len(blocks))
RowsOf(t, K) ==
  SumTo([i \in DOMAIN blocks |->
           IF blocks[i].kind \in K THEN Share(blocks[i], t) ELSE 0], Len(blocks))
OverTemplates(f) == SumTo(f, StageSpec[stage].templates)

(* The ways to end a task that a count looks for. *)
Completed == {k \in Outcomes : k.status = "completed"}
Errored == {k \in Outcomes : k.status = "error"}
TimedOut == {k \in Outcomes : k.status = "timeout"}
Streamed == {k \in Outcomes : k.ttft # "none"}
Unstreamed == {k \in Outcomes : k.ttft = "none"}
SlowStart == {k \in Outcomes : k.ttft = "slow"}
Late == {k \in Outcomes : k.late}
Unmetered == {k \in Completed : ~k.usage}
Toolless == {k \in Outcomes : k.calls = 0}
InCategory(c) == {k \in Outcomes : k.category = c}

(* evaluate: the first gate is that the task completed. *)
Succeeding(t) == {k \in Completed : t \notin k.fails}
WithinSlo(t) == {k \in Succeeding(t) : k.prompt /\ ~k.late}

PassesOf(t) == RowsOf(t, Succeeding(t))
AttemptsOf(t) == RowsOf(t, Outcomes)
Passes == OverTemplates([t \in Templates |-> PassesOf(t)])
Attaining == OverTemplates([t \in Templates |-> RowsOf(t, WithinSlo(t))])
Categorised(c) == Rows(InCategory(c))

-----------------------------------------------------------------------------
(* The result document. *)

(* The measurements build_real_result requires. *)
Measurable ==
  /\ Recorded >= 1
  /\ Rows(Streamed) >= 1
  /\ Rows(Unmetered) = 0

Document ==
  [attempted |-> Recorded,
   succeeded |-> Passes,
   quality_failed |-> Rows(Completed) - Passes,
   errored |-> Rows(Errored),
   timed_out |-> Rows(TimedOut),
   taxonomy |-> [c \in Categories |-> Categorised(c)],
   slo_attaining_tasks |-> Attaining,
   total_attempts |-> Tasks]

(* validate_result_semantics, its counts. *)
Accepted(doc) ==
  /\ doc.attempted = doc.succeeded + doc.quality_failed + doc.errored + doc.timed_out
  /\ doc.attempted >= 1
  /\ SumTo([i \in DOMAIN ERROR_TAXONOMY |-> doc.taxonomy[ERROR_TAXONOMY[i]]],
           Len(ERROR_TAXONOMY)) = doc.errored + doc.timed_out
  /\ doc.total_attempts = doc.attempted
  /\ doc.slo_attaining_tasks <= doc.succeeded

-----------------------------------------------------------------------------
(* Metrics and gates. *)

(* require_complete_stage_evidence: the schedule's tasks, template by      *)
(* template.                                                               *)
Complete ==
  /\ Recorded = Tasks
  /\ \A t \in Templates : AttemptsOf(t) = Upto(t, Tasks)

ValidCalls ==
  SumTo([i \in DOMAIN blocks |-> blocks[i].kind.calls * Size(blocks[i])], Len(blocks))
InvalidCalls == Rows({k \in Outcomes : k.category \in STRUCTURAL_TOOL_FAILURES})

\* Mutant: the rank is taken for an index once more.
RankLessOne(n) == (95 * n + 99) \div 100 - 1

(* percentile_nearest_rank at 0.95, of n > 0 values. *)
Rank(n) == (95 * n + 99) \div 100

(* The value at the rank is within its limit: at most n - rank are slow. *)
P95Within(n, slow) == n > 0 /\ Rank(n) <= n - slow

(* compute_catalog_metrics lifts the timing of a row out of its turns;     *)
(* compute_qualification_metrics looks for it where a row has none.        *)
Timed == IF catalog THEN Rows(Streamed) ELSE 0
SlowFirstToken == IF catalog THEN Rows(SlowStart) ELSE 0

(* evaluate_common_structural_requirements. *)
Structural ==
  /\ 100 * ValidCalls >= 99 * (ValidCalls + InvalidCalls)
  /\ Categorised("invalid_tool_name") = 0
  /\ 100 * Categorised("invalid_tool_arguments") <= Recorded
  /\ 100 * Categorised("endpoint_error") <= Recorded
  /\ Categorised("task_timeout") = 0
  /\ P95Within(Timed, SlowFirstToken)
  /\ P95Within(Recorded, Rows(Late))

\* Mutant: the floor must be exceeded.
Exceeds(passes, attempts, floor) == 100 * passes > floor * attempts

(* A rate reaches a floor in hundredths; nothing attempted is a rate of 0. *)
Reaches(passes, attempts, floor) ==
  IF attempts = 0 THEN floor = 0 ELSE 100 * passes >= floor * attempts

(* evaluate_quality_level. *)
QualityLevel(aggregate, scenario) ==
  /\ Reaches(Passes, Recorded, aggregate)
  /\ \A t \in Templates : Reaches(PassesOf(t), AttemptsOf(t), scenario)
  /\ Structural

(* evaluate_stage_thresholds and evaluate_canary. *)
Gates ==
  [continue |->
     IF StudyEntry THEN QualityLevel(60, 40)
     ELSE /\ Reaches(Passes, Recorded, Floor)
          /\ stage = "canary" => Passes >= CANARY_MIN_PASSES,
   production_like |-> StudyEntry /\ QualityLevel(90, 80)]

-----------------------------------------------------------------------------
Init ==
  /\ stage \in Stages
  /\ catalog \in Catalog
  /\ blocks = <<>> /\ at = "measuring"
  /\ result = None /\ receipt = None /\ report = None /\ replay = "none"

(* The last block the bound allows fills the schedule. *)
NextCuts == IF Len(blocks) + 1 = MaxBlocks THEN {Left} ELSE Cuts \cup {Left}

\* Mutant: the pass hands out one task too many.
RecordOneMore ==
  /\ at = "measuring" /\ Len(blocks) < MaxBlocks
  /\ \E k \in Outcomes, n \in NextCuts :
       /\ n \in 1..(Left + 1)
       /\ blocks # <<>> => k # blocks[Len(blocks)].kind
       /\ blocks' = Append(blocks, [kind |-> k, first |-> Recorded + 1, last |-> Recorded + n])
  /\ UNCHANGED <<stage, catalog, at, result, receipt, report, replay>>

(* The next tasks of the schedule end alike. *)
Record ==
  /\ at = "measuring" /\ Len(blocks) < MaxBlocks
  /\ \E k \in Outcomes, n \in NextCuts :
       /\ n \in 1..Left
       /\ blocks # <<>> => k # blocks[Len(blocks)].kind
       /\ blocks' = Append(blocks, [kind |-> k, first |-> Recorded + 1, last |-> Recorded + n])
  /\ UNCHANGED <<stage, catalog, at, result, receipt, report, replay>>

(* The pass is over and its telemetry complete: run_real_cell persists the *)
(* observations.                                                           *)
PassEnds ==
  /\ at = "measuring" /\ Left = 0
  /\ at' = "observed"
  /\ UNCHANGED <<stage, catalog, blocks, result, receipt, report, replay>>

(* The worker raised, or the telemetry was refused: no observations.       *)
PassLost ==
  /\ at = "measuring"
  /\ at' = "lost"
  /\ UNCHANGED <<stage, catalog, blocks, result, receipt, report, replay>>

(* The result is built, validated and persisted; anything else leaves a    *)
(* failure record beside the observations.                                 *)
Build ==
  /\ at = "observed"
  /\ IF Measurable /\ Accepted(Document)
     THEN at' = "stored" /\ result' = Document
     ELSE at' = "failed" /\ UNCHANGED result
  /\ UNCHANGED <<stage, catalog, blocks, receipt, report, replay>>

(* Evidence, metrics, gates and the receipt.  Neither refusal happens once *)
(* the result stands: MeritedStageContinues would say so.                  *)
Judge ==
  /\ at = "stored"
  /\ IF Complete /\ ValidCalls + InvalidCalls >= 1
     THEN at' = "judged" /\ receipt' = Gates
     ELSE at' = "stopped" /\ UNCHANGED receipt
  /\ UNCHANGED <<stage, catalog, blocks, result, report, replay>>

(* analyze: the floor over the rows there are; a freeze has none. *)
FloorMet == ~StudyEntry /\ Reaches(Passes, Recorded, Floor)

(* analyze-qualification: every row of the one observations file is        *)
(* evaluated again; neither the result nor a failure record is looked at.  *)
(* The rows are written once, so it is enough to look after the command.   *)
Analyze ==
  /\ at \in {"failed", "stopped", "judged"}
  /\ stage # "canary" /\ report = None
  /\ report' = [met |-> FloorMet]
  /\ UNCHANGED <<stage, catalog, blocks, at, result, receipt, replay>>

(* authenticate_freeze: the same rows give the same gates, and they pass. *)
Replay ==
  /\ at = "judged" /\ stage = "freeze" /\ catalog /\ replay = "none"
  /\ replay' = IF /\ Accepted(result) /\ Complete
                  /\ Gates = receipt /\ Gates.continue
               THEN "accepted" ELSE "refused"
  /\ UNCHANGED <<stage, catalog, blocks, at, result, receipt, report>>

Next == Record \/ PassEnds \/ PassLost \/ Build \/ Judge \/ Analyze \/ Replay

Spec == Init /\ [][Next]_vars

-----------------------------------------------------------------------------
TypeOK ==
  /\ stage \in Stages /\ catalog \in Catalog
  /\ at \in {"measuring", "lost", "observed", "stored", "failed", "stopped", "judged"}
  /\ Recorded \in 0..Tasks
  /\ \A i \in DOMAIN blocks :
       /\ blocks[i].kind \in Outcomes
       /\ blocks[i].first = IF i = 1 THEN 1 ELSE blocks[i - 1].last + 1
       /\ Size(blocks[i]) >= 1
  /\ result # None <=> at \in {"stored", "stopped", "judged"}
  /\ receipt # None <=> at = "judged"
  /\ replay \in {"none", "accepted", "refused"}

(* What a stage is meant to have shown, said of its whole schedule.        *)
Share5(n) == 20 * n <= Tasks
Share1(n) == 100 * n <= Tasks

(* A receipt that lets a candidate continue was earned on all the tasks    *)
(* that were scheduled: the floor holds of the schedule and                *)
(* of every template of a freeze, no task of a freeze timed out or named a *)
(* tool that does not exist, at most one in a hundred had bad arguments or *)
(* an endpoint error, at most one in twenty was slow; and the result that  *)
(* stands beside the receipt reports the same numbers.                     *)
VerdictIsEarned ==
  (at = "judged" /\ receipt.continue) =>
    /\ 100 * Passes >= Floor * Tasks
    /\ result.succeeded = Passes /\ result.attempted = Tasks
    /\ StudyEntry =>
         /\ \A t \in Templates : 100 * PassesOf(t) >= 40 * Upto(t, Tasks)
         /\ result.timed_out = 0 /\ result.taxonomy["invalid_tool_name"] = 0
         /\ Share1(result.taxonomy["invalid_tool_arguments"])
         /\ Share1(result.taxonomy["endpoint_error"])
         /\ Share5(Rows(SlowStart)) /\ Share5(Rows(Late))

(* A stage as good as the documents ask for. *)
Merited ==
  /\ Recorded = Tasks
  /\ 100 * Passes >= Floor * Tasks
  /\ Rows(Unmetered) = 0
  /\ Rows(Toolless) = 0
  /\ IF StudyEntry
     THEN /\ catalog
          /\ \A t \in Templates : 100 * PassesOf(t) >= 40 * Upto(t, Tasks)
          /\ InvalidCalls * 100 <= Tasks /\ Categorised("invalid_tool_name") = 0
          /\ Categorised("task_timeout") = 0 /\ Share1(Categorised("endpoint_error"))
          /\ Rows(Unstreamed) = 0
          /\ Share5(Rows(SlowStart)) /\ Share5(Rows(Late))
     ELSE Rows(Streamed) > 0

(* The path does not fail closed on a stage that met its documented        *)
(* thresholds, exactly at a threshold included: every validation and every *)
(* check on the way agrees with the others, the receipt lets the candidate *)
(* continue, and the replay of the freeze reaches the receipt's gates.     *)
MeritedStageContinues ==
  (\/ at \in {"failed", "stopped"}
   \/ at = "judged" /\ ~receipt.continue
   \/ replay = "refused" /\ receipt.continue)
  => ~Merited

(* src/src/blackwell_lab/cloud/realbench.py:821: a repetition without a    *)
(* valid result "must never be analyzed or published as a result", so an   *)
(* analysis speaks of a result that exists.                                *)
AnalysisIsOfAResult == report # None => result # None
=============================================================================
