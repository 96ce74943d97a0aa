-------------------------------- MODULE Task --------------------------------
(***************************************************************************)
(* One task of the agent: run_task of src/blackwell_lab/workload/agent.py  *)
(* and its copy run_catalog_task, with the controller that the workload    *)
(* contract binds to it (evidence.py, workflow.py, workflow_v3.py), the    *)
(* simulated tools and the streaming client as the loop sees them.         *)
(*                                                                         *)
(* The scenario is fixed data: a lookup is a tool call together with what  *)
(* the toolbox answers to it. Time is counted in ticks, and passes while   *)
(* the client waits for a line and while a tool consumes its latency.      *)
(***************************************************************************)
EXTENDS Naturals, Sequences, FiniteSets

CONSTANTS
  Contracts,       \* the workload contracts: [controller, refs]
  MaxTurns,        \* turns of one task (12 in the code)
  WarningAt,       \* turns left at which the warnings begin (3 in the code)
  Deadline,        \* ticks from the submission to the deadline
  ReadTimeout,     \* ticks the client waits for one line
  QueueWaits,      \* ticks a task may have waited since its submission
  Lookups,         \* non-terminal calls, each with its answer
  Recommendations, \* terminal calls
  Candidates,      \* the diagnoses the scenario publishes
  Pattern,         \* the assertions that support a diagnosis (controller v3)
  Malformed,       \* an argument of the wrong type, empty, or not expected
  NoRefs,          \* evidence_refs is absent
  NoCall           \* no call is under way

VARIABLES
  contract,        \* executed_version, resolved before the client is used
  now,             \* clock.monotonic() - submitted
  pc,              \* where the loop is
  turn,            \* turns begun
  turnsRecorded,   \* len(execution.turns)
  readLimit,       \* socket timeout of the current request
  call,            \* the tool call of the current turn
  trace,           \* execution.tool_trace
  status,          \* execution.status, "running" before finish()
  category,        \* execution.error_category
  ctl              \* the controller's fields

taskVars == <<contract, now, pc, turn, turnsRecorded, readLimit, call, trace,
              status, category>>
vars == <<contract, now, pc, turn, turnsRecorded, readLimit, call, trace,
          status, category, ctl>>

Workflow == {"v1", "v2", "v3"}
Controllers == {"none", "grounding"} \cup Workflow
LookupTools == {"search_logs", "get_service_health", "query_metrics",
                "retrieve_runbook", "check_recent_changes"}
Terminal == "recommend_remediation"
DirectEvidence == {"search_logs", "get_service_health", "query_metrics"}

NoBudget == MaxTurns  \* note_turn never leaves that many

ASSUME TaskAssumption ==
  /\ Contracts \subseteq [controller : Controllers, refs : BOOLEAN]
  /\ \A k \in Contracts : /\ k.controller = "none" => ~k.refs
                          /\ k.controller = "grounding" => k.refs
  /\ MaxTurns \in Nat \ {0}
  /\ WarningAt \in Nat \ {0}
  /\ Deadline \in Nat \ {0}
  /\ ReadTimeout \in Nat \ {0}
  /\ QueueWaits \subseteq 0 .. Deadline
  /\ \A l \in Lookups :
        /\ l.tool \in LookupTools
        /\ l.usable \in BOOLEAN
        /\ l.tool \notin {"search_logs", "get_service_health"} => l.covers = {}
  /\ \A r \in Recommendations : r.tool = Terminal
  /\ NoCall \notin Lookups \cup Recommendations
  /\ Malformed \notin Candidates \cup {NoRefs}

-----------------------------------------------------------------------------
(* The controller.                                                         *)

\* classify_observation: runbooks and change records only guide.
Eligible(l) == l.tool \in DirectEvidence /\ l.usable
UsableLog(l) == l.tool = "search_logs" /\ l.usable
Found(l) == l.tool = "retrieve_runbook" /\ l.usable

NewController == [observations |-> << >>, usableLogs |-> 0, runbooks |-> 0,
                  remediations |-> {}, diagnoses |-> {},
                  attempts |-> 0, rejected |-> 0,
                  accepted |-> FALSE, exhausted |-> FALSE,
                  turnsLeft |-> NoBudget, warnings |-> 0,
                  state |-> "investigating"]

DerivedState(c) ==
  CASE c.accepted -> "terminal_accepted"
    [] ~c.accepted /\ c.exhausted -> "budget_exhausted"
    [] ~c.accepted /\ ~c.exhausted /\ c.usableLogs > 0 /\ c.runbooks > 0
         -> "ready_for_terminal"
    [] ~c.accepted /\ ~c.exhausted /\ c.usableLogs > 0 /\ c.runbooks = 0
         -> "evidence_collected"
    [] ~c.accepted /\ ~c.exhausted /\ c.usableLogs = 0 /\ c.runbooks > 0
         -> "runbook_retrieved"
    [] OTHER -> "investigating"

\* _advance: only a workflow controller has the state machine.
Advance(c) ==
  IF contract.controller \in Workflow THEN [c EXCEPT !.state = DerivedState(c)] ELSE c

\* Mutant: results that are no evidence are not registered.
RecordEvidence(c, l) ==
  IF ~Eligible(l) THEN c
  ELSE Advance([c EXCEPT
         !.observations = Append(@, l),
         !.usableLogs = IF UsableLog(l) THEN @ + 1 ELSE @])

\* record(): every non-terminal result becomes the next observation.
Record(c, l) ==
  Advance([c EXCEPT
    !.observations = Append(@, l),
    !.usableLogs = IF UsableLog(l) THEN @ + 1 ELSE @,
    !.runbooks = IF Found(l) THEN @ + 1 ELSE @,
    !.remediations = IF Found(l) THEN @ \cup l.remediations ELSE @,
    !.diagnoses = IF Found(l) THEN Candidates ELSE @])

\* note_turn and _budget_block.
NoteTurn(c) ==
  IF contract.controller \in Workflow
  THEN [c EXCEPT !.turnsLeft = MaxTurns - turn - 1] ELSE c
\* Mutant: the warnings begin one turn late.
WarnLate(c) ==
  IF contract.controller \in Workflow /\ c.turnsLeft < WarningAt
  THEN [c EXCEPT !.warnings = @ + 1] ELSE c

Warn(c) ==
  IF contract.controller \in Workflow /\ c.turnsLeft <= WarningAt
  THEN [c EXCEPT !.warnings = @ + 1] ELSE c

\* The observations a recommendation may be judged by: all eligible ones, or
\* under the evidence-refs treatment the cited ones.
EligibleIds == {k \in DOMAIN ctl.observations : Eligible(ctl.observations[k])}
CitedIds(r) == IF contract.refs THEN EligibleIds \cap r.refs ELSE EligibleIds

\* Mutant: any observation may be cited, usable or not.
RefsKnown(r) ==
  /\ r.refs \notin {NoRefs, Malformed, {}}
  /\ r.refs \subseteq DOMAIN ctl.observations

RefsResolve(r) ==
  /\ r.refs \notin {NoRefs, Malformed, {}}
  /\ r.refs \subseteq EligibleIds

\* Mutant: the usable log is not required.
PublishableUnlogged(r) ==
  /\ r.diagnosis # Malformed
  /\ contract.refs \/ r.refs = NoRefs
  /\ ctl.observations # << >>
  /\ ctl.runbooks > 0
  /\ r.remediation \in ctl.remediations
  /\ ctl.diagnoses # {} => r.diagnosis \in ctl.diagnoses

\* WorkflowController._judge without the evidence_refs.
Publishable(r) ==
  /\ r.diagnosis # Malformed
  /\ contract.refs \/ r.refs = NoRefs
  /\ ctl.observations # << >>
  /\ ctl.usableLogs > 0
  /\ ctl.runbooks > 0
  /\ r.remediation \in ctl.remediations
  /\ ctl.diagnoses # {} => r.diagnosis \in ctl.diagnoses

\* DiagnosisRelevantWorkflowController: a relevant log, and a cited one.
RelevantLog(r) ==
  \E k \in CitedIds(r) : /\ UsableLog(ctl.observations[k])
                         /\ r.diagnosis \in ctl.observations[k].relevant

\* pattern_support: no witness denies an assertion, each one is covered.
PatternSupported(r) ==
  /\ ctl.runbooks > 0
  /\ r.diagnosis \in Candidates
  /\ Pattern[r.diagnosis] # {}
  /\ \A a \in Pattern[r.diagnosis] :
        /\ \A k \in EligibleIds : a \notin ctl.observations[k].denies
        /\ \E k \in CitedIds(r) : a \in ctl.observations[k].covers

Judge(r) ==
  /\ contract.refs => RefsResolve(r)
  /\ contract.controller \in Workflow => Publishable(r)
  /\ contract.controller = "v2" => RelevantLog(r)
  /\ contract.controller = "v3" => PatternSupported(r)

ValidateTerminal(c, ok) ==
  Advance([c EXCEPT !.attempts = @ + 1,
                    !.rejected = IF ok THEN @ ELSE @ + 1,
                    !.accepted = ok /\ contract.controller \in Workflow])

MarkExhausted(c) ==
  IF contract.controller \in Workflow /\ ~c.accepted
  THEN Advance([c EXCEPT !.exhausted = TRUE]) ELSE c

-----------------------------------------------------------------------------
(* The loop.                                                               *)

MinOf(a, b) == IF a <= b THEN a ELSE b

\* A tool's latency is far below a tick: it crosses one or it does not.
Latency == {0, 1}

Init == /\ contract \in Contracts
        /\ now \in QueueWaits
        /\ pc = "loop"
        /\ turn = 0
        /\ turnsRecorded = 0
        /\ readLimit = 0
        /\ call = NoCall
        /\ trace = << >>
        /\ status = "running"
        /\ category = "none"
        /\ ctl = NewController

Finish(s, c) == /\ pc' = "done"
                /\ status' = s
                /\ category' = c
                /\ call' = NoCall
                /\ readLimit' = 0

GoOn(where) == pc' = where /\ UNCHANGED <<status, category>>

\* Mutant: the range of turns is one too long.
BeginExtraTurn ==
  /\ pc = "loop" /\ turn <= MaxTurns
  /\ now < Deadline
  /\ turn' = turn + 1
  /\ ctl' = NoteTurn(ctl)
  /\ readLimit' = MinOf(ReadTimeout, Deadline - now)
  /\ GoOn("stream")
  /\ UNCHANGED <<contract, now, turnsRecorded, call, trace>>

\* The head of the loop: the deadline, then the turn is noted and sent. Time
\* spent before it, waiting for a slot, is part of the budget.
BeginTurn ==
  /\ pc = "loop" /\ turn < MaxTurns
  /\ now < Deadline
  /\ turn' = turn + 1
  /\ ctl' = NoteTurn(ctl)
  /\ readLimit' = MinOf(ReadTimeout, Deadline - now)
  /\ GoOn("stream")
  /\ UNCHANGED <<contract, now, turnsRecorded, call, trace>>

LateTurn ==
  /\ pc = "loop" /\ turn < MaxTurns
  /\ now >= Deadline
  /\ Finish("timeout", "task_timeout")
  /\ UNCHANGED <<contract, now, turn, turnsRecorded, trace, ctl>>

\* The socket timeout is that of one read: it starts again with every line,
\* and only a line that arrives is compared with the deadline.
ReadLine(wait) ==
  /\ pc = "stream"
  /\ now' = now + wait
  /\ IF now + wait >= Deadline THEN Finish("timeout", "task_timeout")
     ELSE GoOn("stream") /\ UNCHANGED <<call, readLimit>>
  /\ UNCHANGED <<contract, turn, turnsRecorded, trace, ctl>>

ReadStalls ==
  /\ pc = "stream"
  /\ now' = now + readLimit
  /\ IF now + readLimit >= Deadline THEN Finish("timeout", "task_timeout")
     ELSE Finish("error", "endpoint_error")
  /\ UNCHANGED <<contract, turn, turnsRecorded, trace, ctl>>

\* A connection error, a bad payload, or an exception nobody expected: the
\* turn leaves no record, and the deadline is not looked at.
TurnBreaks(wait) ==
  /\ pc = "stream"
  /\ now' = now + wait
  /\ \E c \in {"endpoint_error", "agent_runtime_error"} : Finish("error", c)
  /\ UNCHANGED <<contract, turn, turnsRecorded, trace, ctl>>

\* The stream ended, but not in one executable call.
AssemblyFails(wait) ==
  /\ pc = "stream"
  /\ now' = now + wait
  /\ turnsRecorded' = turnsRecorded + 1
  /\ \E c \in {"malformed_tool_call", "invalid_tool_name",
               "invalid_tool_arguments"} : Finish("error", c)
  /\ UNCHANGED <<contract, turn, trace, ctl>>

\* The call is the last event of the stream, before the deadline.
TurnCompletes(c) ==
  /\ pc = "stream" /\ now < Deadline
  /\ turnsRecorded' = turnsRecorded + 1
  /\ call' = c
  /\ readLimit' = 0
  /\ GoOn("tool")
  /\ UNCHANGED <<contract, now, turn, trace, ctl>>

NextTurn == GoOn("loop") /\ call' = NoCall /\ UNCHANGED readLimit

\* Mutant: acceptance is looked at before the deadline.
AcceptFirst(accepted, answer, latency) ==
  /\ now' = now + latency
  /\ trace' = Append(trace, answer)
  /\ \/ accepted /\ Finish("completed", "none")
     \/ ~accepted /\ now' >= Deadline /\ Finish("timeout", "task_timeout")
     \/ ~accepted /\ now' < Deadline /\ NextTurn
  /\ UNCHANGED <<contract, turn, turnsRecorded>>

\* Mutant: a rejected recommendation does not cost its turn.
FreeRejection(accepted, answer, latency) ==
  /\ now' = now + latency
  /\ trace' = Append(trace, answer)
  /\ \/ now' >= Deadline /\ Finish("timeout", "task_timeout")
     \/ now' < Deadline /\ accepted /\ Finish("completed", "none")
     \/ now' < Deadline /\ ~accepted /\ NextTurn
  /\ turn' = IF answer.call \in Recommendations THEN turn - 1 ELSE turn
  /\ UNCHANGED <<contract, turnsRecorded>>

\* After every tool: the deadline first, then acceptance, then the next turn.
AfterTool(accepted, answer, latency) ==
  /\ now' = now + latency
  /\ trace' = Append(trace, answer)
  /\ \/ now' >= Deadline /\ Finish("timeout", "task_timeout")
     \/ now' < Deadline /\ accepted /\ Finish("completed", "none")
     \/ now' < Deadline /\ ~accepted /\ NextTurn
  /\ UNCHANGED <<contract, turn, turnsRecorded>>

Answer(c, observation, accepted) ==
  [call |-> c, observation |-> observation, accepted |-> accepted]

\* A lookup: with a controller its result is recorded and carries its id.
Observe(latency) ==
  /\ pc = "tool" /\ call \in Lookups
  /\ IF contract.controller = "none"
     THEN /\ AfterTool(FALSE, Answer(call, 0, FALSE), latency)
          /\ UNCHANGED ctl
     ELSE /\ ctl' = Warn(Record(ctl, call))
          /\ AfterTool(FALSE, Answer(call, Len(ctl.observations) + 1, FALSE), latency)

\* validate_tool_call for the terminal tool.
SchemaOK(r) == /\ Malformed \notin {r.diagnosis, r.refs}
               /\ contract.refs \/ r.refs = NoRefs

Recommend(latency) ==
  /\ pc = "tool" /\ call \in Recommendations
  /\ SchemaOK(call)
  /\ IF contract.controller = "none"
     THEN /\ AfterTool(TRUE, Answer(call, 0, TRUE), latency)
          /\ UNCHANGED ctl
     ELSE LET ok == Judge(call) IN
          /\ ctl' = IF ok THEN ValidateTerminal(ctl, ok)
                    ELSE Warn(ValidateTerminal(ctl, ok))
          /\ AfterTool(ok, Answer(call, 0, ok), latency)

\* A workflow controller corrects a terminal call that breaks the schema; it
\* never runs. Under every other contract the task ends.
CorrectTerminal(latency) ==
  /\ pc = "tool" /\ call \in Recommendations
  /\ ~SchemaOK(call)
  /\ contract.controller \in Workflow
  /\ LET ok == Judge(call) IN
     IF ok
     THEN /\ ctl' = ValidateTerminal(ctl, ok)
          /\ Finish("error", "invalid_tool_arguments")
          /\ UNCHANGED <<contract, now, turn, turnsRecorded, trace>>
     ELSE /\ ctl' = Warn(ValidateTerminal(ctl, ok))
          /\ AfterTool(FALSE, Answer(call, 0, FALSE), latency)

RefuseTerminal ==
  /\ pc = "tool" /\ call \in Recommendations
  /\ ~SchemaOK(call)
  /\ contract.controller \notin Workflow
  /\ Finish("error", "invalid_tool_arguments")
  /\ UNCHANGED <<contract, now, turn, turnsRecorded, trace, ctl>>

\* The toolbox raises something unexpected: no trace entry.
ToolCrashes(latency) ==
  /\ pc = "tool"
  /\ now' = now + latency
  /\ Finish("error", "agent_runtime_error")
  /\ UNCHANGED <<contract, turn, turnsRecorded, trace, ctl>>

\* max_turns are spent.
ExhaustionCategory ==
  CASE contract.controller \in Workflow /\ ctl.rejected > 0 -> "workflow_requirements_unmet"
    [] contract.controller = "grounding" /\ ctl.rejected > 0 -> "direct_evidence_required"
    [] OTHER -> "no_terminal_recommendation"

\* Mutant: the end of the turns is looked for beyond them.
ExhaustBeyond ==
  /\ pc = "loop" /\ turn > MaxTurns
  /\ ctl' = MarkExhausted(ctl)
  /\ Finish("error", ExhaustionCategory)
  /\ UNCHANGED <<contract, now, turn, turnsRecorded, trace>>

Exhaust ==
  /\ pc = "loop" /\ turn = MaxTurns
  /\ ctl' = MarkExhausted(ctl)
  /\ Finish("error", ExhaustionCategory)
  /\ UNCHANGED <<contract, now, turn, turnsRecorded, trace>>

Stream == \/ \E wait \in 1 .. readLimit : ReadLine(wait)
          \/ ReadStalls
          \/ \E wait \in 0 .. readLimit : TurnBreaks(wait) \/ AssemblyFails(wait)
          \/ \E c \in Lookups \cup Recommendations : TurnCompletes(c)

RunTool == \/ \E latency \in Latency : \/ Observe(latency)
                                       \/ Recommend(latency)
                                       \/ CorrectTerminal(latency)
                                       \/ ToolCrashes(latency)
           \/ RefuseTerminal

Next == BeginTurn \/ LateTurn \/ Stream \/ RunTool \/ Exhaust

Spec == Init /\ [][Next]_vars

\* The loop runs in one thread, every read has a timeout and every tool a
\* fixed latency: nothing in it waits for ever.
LiveSpec == Spec /\ WF_vars(Next)
-----------------------------------------------------------------------------
(* Properties.                                                             *)

Statuses == {"running", "completed", "error", "timeout"}
Categories == {"none", "task_timeout", "endpoint_error", "agent_runtime_error",
               "malformed_tool_call", "invalid_tool_name",
               "invalid_tool_arguments", "workflow_requirements_unmet",
               "direct_evidence_required", "no_terminal_recommendation"}
ControllerStates == {"investigating", "evidence_collected", "runbook_retrieved",
                     "ready_for_terminal", "terminal_accepted",
                     "budget_exhausted"}

ControllerType ==
  [observations : Seq(Lookups), usableLogs : Nat, runbooks : Nat,
   remediations : SUBSET UNION {l.remediations : l \in Lookups},
   diagnoses : {{}, Candidates},
   attempts : Nat, rejected : Nat, accepted : BOOLEAN, exhausted : BOOLEAN,
   turnsLeft : 0 .. MaxTurns, warnings : Nat, state : ControllerStates]

\* Every variable holds a value of its type (the fields of run_task's locals,
\* of TaskExecution and of the controller).
TypeOK ==
  /\ contract \in Contracts
  /\ now \in Nat
  /\ pc \in {"loop", "stream", "tool", "done"}
  /\ turn \in 0 .. MaxTurns
  /\ turnsRecorded \in Nat
  /\ readLimit \in 0 .. ReadTimeout
  /\ call \in Lookups \cup Recommendations \cup {NoCall}
  /\ trace \in Seq([call : Lookups \cup Recommendations,
                    observation : Nat, accepted : BOOLEAN])
  /\ status \in Statuses
  /\ category \in Categories
  /\ ctl \in ControllerType

\* What the model had been shown before the recommendation that ended the task.
Final == trace[Len(trace)].call
Shown == {i \in 1 .. Len(trace) - 1 : trace[i].call \in Lookups}
ShownEvidence == {i \in Shown : Eligible(trace[i].call)}
Cited == IF contract.refs
         THEN {i \in ShownEvidence : trace[i].observation \in Final.refs}
         ELSE ShownEvidence

\* A completed task rests on what the model was really shown, under each
\* contract by its own rule: every cited id belongs to a usable result of this
\* task, a workflow contract has a log and the runbook the remediation came
\* from, v2 a cited log relevant to the diagnosis, v3 its whole pattern
\* covered and none of it denied (validate_terminal and _judge).
CompletedIsGrounded ==
  status = "completed" =>
    /\ trace # << >> /\ Final \in Recommendations
    /\ contract.refs =>
         /\ Final.refs # {}
         /\ Final.refs \subseteq {trace[i].observation : i \in ShownEvidence}
    /\ contract.controller \in Workflow =>
         /\ \E i \in Shown : UsableLog(trace[i].call)
         /\ \E i \in Shown : /\ Found(trace[i].call)
                             /\ Final.remediation \in trace[i].call.remediations
    /\ contract.controller = "v2" =>
         \E i \in Cited : /\ UsableLog(trace[i].call)
                          /\ Final.diagnosis \in trace[i].call.relevant
    /\ contract.controller = "v3" =>
         \A a \in Pattern[Final.diagnosis] :
            /\ \E i \in Cited : a \in trace[i].call.covers
            /\ \A i \in ShownEvidence : a \notin trace[i].call.denies

\* The number of trace entries that satisfy a condition.
Entries(Test(_)) == Cardinality({i \in DOMAIN trace : Test(trace[i])})
IsTerminal(e) == e.call \in Recommendations
IsRejected(e) == IsTerminal(e) /\ ~e.accepted

\* The sanitized counts that go into the result agree with the tool trace, and
\* the error category of a spent budget says whether anything was rejected
\* (summary, exhaustion_error_category; the taxonomy of agent.py:40).
CountsMatchTrace ==
  /\ contract.controller # "none" =>
       /\ Len(ctl.observations) = Len(trace) - Entries(IsTerminal)
       /\ ctl.attempts = Entries(IsTerminal)
       /\ ctl.rejected = Entries(IsRejected)
  /\ category = "no_terminal_recommendation" => Entries(IsTerminal) = 0
  /\ category \in {"workflow_requirements_unmet", "direct_evidence_required"} =>
       Entries(IsRejected) = Entries(IsTerminal) /\ Entries(IsRejected) > 0

\* One call per turn within the budget: a rejected recommendation costs its
\* turn like any other call, and a completed task has a record of every turn
\* (the loop over range(max_turns); retries = 0).
OneCallPerTurn ==
  /\ turnsRecorded <= turn
  /\ Len(trace) <= turnsRecorded
  /\ status \in {"running", "completed"} => turn <= Len(trace) + 1
  /\ status = "completed" => Len(trace) = turn /\ turnsRecorded = turn
  /\ category \in {"no_terminal_recommendation", "workflow_requirements_unmet",
                   "direct_evidence_required"} => Len(trace) = MaxTurns

\* No workflow task runs out of turns unwarned: each of the last turns carried
\* the warning in its answer (_budget_block, REMAINING_TURN_WARNING_AT).
ExhaustedWasWarned ==
  ctl.exhausted => ctl.warnings = MinOf(WarningAt + 1, MaxTurns)

\* A recommendation whose tool crossed the deadline is a timeout, and the only
\* overrun of the deadline is a single blocking call: the read that was under
\* way, or the last tool.
DeadlineHolds ==
  /\ status = "completed" => now < Deadline
  /\ status = "timeout" => now >= Deadline
  /\ now < Deadline + ReadTimeout

Progress == INSTANCE WorkflowProgress WITH progress <- ctl.state

\* The controller implements WorkflowProgress: no recommendation is accepted
\* before log evidence and a runbook are there, and no state is left backwards.
ProgressIsOrderly == Progress!Spec

\* Every task comes to an outcome (run_task returns).
TaskEnds == <>(status # "running")
=============================================================================
