----------------------------- MODULE TaskProofs -----------------------------
(***************************************************************************)
(* What holds of a task for every scenario, contract and budget: its type, *)
(* the turn and time budgets, the grounding of a completed task and the    *)
(* order of the controller's states.                                       *)
(***************************************************************************)
EXTENDS Task, FiniteSetTheorems, TLAPS

-----------------------------------------------------------------------------
(* The controller's updates, field by field.                               *)

\* _advance changes the state only, to the derived one under a workflow.
LEMMA AdvanceFacts ==
  ASSUME NEW c \in ControllerType
  PROVE  /\ Advance(c) \in ControllerType
         /\ Advance(c) = [c EXCEPT !.state = Advance(c).state]
         /\ contract.controller \in Workflow => Advance(c).state = DerivedState(c)
         /\ contract.controller \notin Workflow => Advance(c).state = c.state
<1>1. DerivedState(c) \in ControllerStates
  BY DEF DerivedState, ControllerStates, ControllerType
<1> QED BY <1>1 DEF Advance, ControllerType

\* record() appends the observation and counts it.
LEMMA RecordFacts ==
  ASSUME NEW c \in ControllerType, NEW l \in Lookups
  PROVE  /\ Record(c, l) \in ControllerType
         /\ Record(c, l).observations = Append(c.observations, l)
         /\ Record(c, l).usableLogs = IF UsableLog(l) THEN c.usableLogs + 1 ELSE c.usableLogs
         /\ Record(c, l).runbooks = IF Found(l) THEN c.runbooks + 1 ELSE c.runbooks
         /\ Record(c, l).remediations =
              IF Found(l) THEN c.remediations \cup l.remediations ELSE c.remediations
         /\ Record(c, l).accepted = c.accepted
         /\ Record(c, l).exhausted = c.exhausted
         /\ Record(c, l).turnsLeft = c.turnsLeft
         /\ Record(c, l).attempts = c.attempts
         /\ Record(c, l).rejected = c.rejected
         /\ Record(c, l).warnings = c.warnings
<1> DEFINE d == [c EXCEPT
      !.observations = Append(@, l),
      !.usableLogs = IF UsableLog(l) THEN @ + 1 ELSE @,
      !.runbooks = IF Found(l) THEN @ + 1 ELSE @,
      !.remediations = IF Found(l) THEN @ \cup l.remediations ELSE @,
      !.diagnoses = IF Found(l) THEN Candidates ELSE @]
<1>a. c.remediations \cup l.remediations
        \in SUBSET UNION {m.remediations : m \in Lookups}
  BY DEF ControllerType
<1>b. Append(c.observations, l) \in Seq(Lookups)
  BY DEF ControllerType
<1>c. c.usableLogs + 1 \in Nat /\ c.runbooks + 1 \in Nat
  BY DEF ControllerType
<1>1. d \in ControllerType
  BY <1>a, <1>b, <1>c DEF ControllerType
<1>2. Record(c, l) = Advance(d)
  BY DEF Record
<1>3. /\ d.observations = Append(c.observations, l)
      /\ d.usableLogs = IF UsableLog(l) THEN c.usableLogs + 1 ELSE c.usableLogs
      /\ d.runbooks = IF Found(l) THEN c.runbooks + 1 ELSE c.runbooks
      /\ d.remediations = IF Found(l) THEN c.remediations \cup l.remediations ELSE c.remediations
      /\ d.accepted = c.accepted
      /\ d.exhausted = c.exhausted
      /\ d.turnsLeft = c.turnsLeft
      /\ d.attempts = c.attempts /\ d.rejected = c.rejected /\ d.warnings = c.warnings
  BY DEF ControllerType
<1> HIDE DEF d
<1>4. Advance(d) \in ControllerType /\ Advance(d) = [d EXCEPT !.state = Advance(d).state]
  BY <1>1, AdvanceFacts
<1> QED BY <1>1, <1>2, <1>3, <1>4 DEF ControllerType

\* A verdict changes the attempt counts, acceptance and the state.
LEMMA ValidateTerminalFacts ==
  ASSUME NEW c \in ControllerType, NEW ok \in BOOLEAN
  PROVE  /\ ValidateTerminal(c, ok) \in ControllerType
         /\ ValidateTerminal(c, ok).observations = c.observations
         /\ ValidateTerminal(c, ok).usableLogs = c.usableLogs
         /\ ValidateTerminal(c, ok).runbooks = c.runbooks
         /\ ValidateTerminal(c, ok).remediations = c.remediations
         /\ ValidateTerminal(c, ok).accepted = (ok /\ contract.controller \in Workflow)
         /\ ValidateTerminal(c, ok).exhausted = c.exhausted
         /\ ValidateTerminal(c, ok).turnsLeft = c.turnsLeft
         /\ ValidateTerminal(c, ok).attempts = c.attempts + 1
         /\ ValidateTerminal(c, ok).rejected = IF ok THEN c.rejected ELSE c.rejected + 1
         /\ ValidateTerminal(c, ok).warnings = c.warnings
<1>a. PICK b \in BOOLEAN : b = (ok /\ contract.controller \in Workflow)
  OBVIOUS
<1> DEFINE n == IF ok THEN c.rejected ELSE c.rejected + 1
           d == [c EXCEPT !.attempts = @ + 1, !.rejected = n, !.accepted = b]
<1>b. n \in Nat
  BY DEF ControllerType
<1>1. d \in ControllerType
  <2> HIDE DEF n
  <2>1. c.attempts + 1 \in Nat
    BY DEF ControllerType
  <2> QED BY <1>b, <2>1 DEF ControllerType
<1>2. ValidateTerminal(c, ok) = Advance(d)
  BY <1>a DEF ValidateTerminal
<1>3. /\ d.observations = c.observations
      /\ d.usableLogs = c.usableLogs
      /\ d.runbooks = c.runbooks
      /\ d.remediations = c.remediations
      /\ d.accepted = b
      /\ d.exhausted = c.exhausted
      /\ d.turnsLeft = c.turnsLeft
      /\ d.attempts = c.attempts + 1 /\ d.rejected = n /\ d.warnings = c.warnings
  <2> HIDE DEF n
  <2> QED BY DEF ControllerType
<1> HIDE DEF d
<1>4. Advance(d) \in ControllerType /\ Advance(d) = [d EXCEPT !.state = Advance(d).state]
  BY <1>1, AdvanceFacts
<1> QED BY <1>a, <1>1, <1>2, <1>3, <1>4 DEF ControllerType

\* A warning is only counted.
LEMMA WarnFacts ==
  ASSUME NEW c \in ControllerType
  PROVE  /\ Warn(c) \in ControllerType
         /\ Warn(c).observations = c.observations
         /\ Warn(c).usableLogs = c.usableLogs
         /\ Warn(c).runbooks = c.runbooks
         /\ Warn(c).remediations = c.remediations
         /\ Warn(c).accepted = c.accepted
         /\ Warn(c).exhausted = c.exhausted
         /\ Warn(c).state = c.state
         /\ Warn(c).attempts = c.attempts
         /\ Warn(c).rejected = c.rejected
         /\ Warn(c).warnings = IF contract.controller \in Workflow /\ c.turnsLeft <= WarningAt
                               THEN c.warnings + 1 ELSE c.warnings
         /\ DerivedState(Warn(c)) = DerivedState(c)
BY DEF Warn, ControllerType, DerivedState

\* So is the number of turns left.
LEMMA NoteTurnFacts ==
  ASSUME NEW c \in ControllerType, turn \in 0 .. MaxTurns, turn < MaxTurns
  PROVE  /\ NoteTurn(c) \in ControllerType
         /\ NoteTurn(c).observations = c.observations
         /\ NoteTurn(c).usableLogs = c.usableLogs
         /\ NoteTurn(c).runbooks = c.runbooks
         /\ NoteTurn(c).remediations = c.remediations
         /\ NoteTurn(c).accepted = c.accepted
         /\ NoteTurn(c).exhausted = c.exhausted
         /\ NoteTurn(c).state = c.state
         /\ NoteTurn(c).attempts = c.attempts
         /\ NoteTurn(c).rejected = c.rejected
         /\ NoteTurn(c).warnings = c.warnings
         /\ contract.controller \in Workflow => NoteTurn(c).turnsLeft = MaxTurns - turn - 1
         /\ DerivedState(NoteTurn(c)) = DerivedState(c)
<1>1. MaxTurns - turn - 1 \in 0 .. MaxTurns
  BY TaskAssumption
<1> QED BY <1>1 DEF NoteTurn, ControllerType, DerivedState

\* The end of the budget leaves the evidence as it is.
LEMMA MarkExhaustedFacts ==
  ASSUME NEW c \in ControllerType, ~c.accepted
  PROVE  /\ MarkExhausted(c) \in ControllerType
         /\ MarkExhausted(c).observations = c.observations
         /\ MarkExhausted(c).usableLogs = c.usableLogs
         /\ MarkExhausted(c).remediations = c.remediations
         /\ MarkExhausted(c).attempts = c.attempts
         /\ MarkExhausted(c).rejected = c.rejected
         /\ MarkExhausted(c).warnings = c.warnings
         /\ contract.controller \in Workflow => MarkExhausted(c).state = "budget_exhausted"
         /\ contract.controller \notin Workflow => MarkExhausted(c) = c
         /\ contract.controller \in Workflow =>
              MarkExhausted(c).state = DerivedState(MarkExhausted(c))
<1> DEFINE d == [c EXCEPT !.exhausted = TRUE]
<1>1. /\ d \in ControllerType
      /\ d.observations = c.observations
      /\ d.usableLogs = c.usableLogs
      /\ d.remediations = c.remediations
      /\ d.attempts = c.attempts /\ d.rejected = c.rejected /\ d.warnings = c.warnings
      /\ ~d.accepted /\ d.exhausted
  BY DEF ControllerType
<1> HIDE DEF d
<1>2. DerivedState(d) = "budget_exhausted"
  BY <1>1 DEF DerivedState
<1>3. Advance(d) \in ControllerType /\ Advance(d) = [d EXCEPT !.state = Advance(d).state]
  BY <1>1, AdvanceFacts
<1>4. contract.controller \in Workflow => Advance(d).state = "budget_exhausted"
  BY <1>1, <1>2, AdvanceFacts
<1>5. ~Advance(d).accepted /\ Advance(d).exhausted
  BY <1>1, <1>3 DEF ControllerType
<1>6. DerivedState(Advance(d)) = "budget_exhausted"
  BY <1>5 DEF DerivedState
<1>7. MarkExhausted(c) = IF contract.controller \in Workflow THEN Advance(d) ELSE c
  BY DEF MarkExhausted, d
<1> QED BY <1>1, <1>3, <1>4, <1>6, <1>7 DEF ControllerType

-----------------------------------------------------------------------------
(* The loop: types, turns and time.                                        *)

AnswerType == [call : Lookups \cup Recommendations, observation : Nat,
               accepted : BOOLEAN]

\* TypeOK without the controller.
LoopTypeOK ==
  /\ contract \in Contracts
  /\ now \in Nat
  /\ pc \in {"loop", "stream", "tool", "done"}
  /\ turn \in 0 .. MaxTurns
  /\ turnsRecorded \in Nat
  /\ readLimit \in 0 .. ReadTimeout
  /\ call \in Lookups \cup Recommendations \cup {NoCall}
  /\ trace \in Seq(AnswerType)
  /\ status \in Statuses
  /\ category \in Categories

\* Where the loop is decides how many turns are begun, recorded and answered.
PhaseOK ==
  /\ pc = "done" <=> status # "running"
  /\ status = "running" => category = "none"
  /\ pc = "loop" => turn = Len(trace) /\ turnsRecorded = Len(trace)
  /\ pc = "stream" => /\ turn = Len(trace) + 1 /\ turnsRecorded = Len(trace)
                      /\ now < Deadline /\ readLimit \in 1 .. ReadTimeout
  /\ pc = "tool" => /\ turn = Len(trace) + 1 /\ turnsRecorded = turn
                    /\ now < Deadline
                    /\ call \in Lookups \cup Recommendations

LoopInv == LoopTypeOK /\ PhaseOK /\ OneCallPerTurn /\ DeadlineHolds

\* What every tool's end does to the loop.
LEMMA AfterToolKeepsLoop ==
  ASSUME LoopInv, pc = "tool", NEW latency \in Latency, NEW ok \in BOOLEAN,
         NEW answer \in AnswerType, AfterTool(ok, answer, latency)
  PROVE  LoopInv'
<1> USE DEF LoopInv
<1>1. /\ now' = now + latency /\ trace' = Append(trace, answer)
      /\ UNCHANGED <<contract, turn, turnsRecorded>>
      /\ \/ now' >= Deadline /\ Finish("timeout", "task_timeout")
         \/ now' < Deadline /\ ok /\ Finish("completed", "none")
         \/ now' < Deadline /\ NextTurn
  BY DEF AfterTool
<1>2. /\ now' \in Nat /\ now' < Deadline + ReadTimeout
      /\ now' < Deadline \/ now' >= Deadline
  BY <1>1, TaskAssumption DEF LoopTypeOK, PhaseOK, Latency
<1>3. trace' \in Seq(AnswerType) /\ Len(trace') = Len(trace) + 1
  BY <1>1 DEF LoopTypeOK
<1>4. turn = Len(trace') /\ turnsRecorded = turn
  BY <1>3 DEF PhaseOK, LoopTypeOK
<1>5. CASE now' >= Deadline /\ Finish("timeout", "task_timeout")
  <2>1. LoopTypeOK'
    BY <1>1, <1>2, <1>3, <1>5, TaskAssumption
       DEF Finish, LoopTypeOK, Statuses, Categories
  <2>2. PhaseOK' /\ DeadlineHolds'
    BY <1>2, <1>5, TaskAssumption DEF Finish, PhaseOK, DeadlineHolds
  <2>3. OneCallPerTurn'
    BY <1>1, <1>3, <1>4, <1>5 DEF Finish, OneCallPerTurn, LoopTypeOK
  <2> QED BY <2>1, <2>2, <2>3
<1>6. CASE now' < Deadline /\ ok /\ Finish("completed", "none")
  <2>1. LoopTypeOK'
    BY <1>1, <1>2, <1>3, <1>6, TaskAssumption
       DEF Finish, LoopTypeOK, Statuses, Categories
  <2>2. PhaseOK' /\ DeadlineHolds'
    BY <1>2, <1>6, TaskAssumption DEF Finish, PhaseOK, DeadlineHolds
  <2>3. OneCallPerTurn'
    BY <1>1, <1>3, <1>4, <1>6 DEF Finish, OneCallPerTurn, LoopTypeOK
  <2> QED BY <2>1, <2>2, <2>3
<1>7. CASE now' < Deadline /\ NextTurn
  <2>1. LoopTypeOK'
    BY <1>1, <1>2, <1>3, <1>7, TaskAssumption
       DEF NextTurn, GoOn, LoopTypeOK, Statuses, Categories
  <2>2. PhaseOK' /\ DeadlineHolds'
    BY <1>1, <1>2, <1>3, <1>4, <1>7, TaskAssumption
       DEF NextTurn, GoOn, PhaseOK, DeadlineHolds
  <2>3. OneCallPerTurn'
    BY <1>1, <1>3, <1>4, <1>7 DEF NextTurn, GoOn, OneCallPerTurn, LoopTypeOK, PhaseOK
  <2> QED BY <2>1, <2>2, <2>3
<1> QED BY <1>1, <1>5, <1>6, <1>7

\* Finishing without an answer keeps the loop's invariant, whatever the outcome.
LEMMA FinishKeepsLoop ==
  ASSUME LoopInv, pc # "done",
         NEW s \in {"error", "timeout"}, NEW c \in Categories,
         Finish(s, c),
         UNCHANGED <<contract, turn, trace>>,
         now' \in Nat, now' < Deadline + ReadTimeout,
         s = "timeout" => now' >= Deadline,
         turnsRecorded' \in Nat, turnsRecorded' <= turn, Len(trace) <= turnsRecorded',
         c \in {"no_terminal_recommendation", "workflow_requirements_unmet",
                "direct_evidence_required"} => Len(trace) = MaxTurns
  PROVE  LoopInv'
<1> USE DEF LoopInv
<1>1. /\ pc' = "done" /\ status' = s /\ category' = c /\ call' = NoCall /\ readLimit' = 0
  BY DEF Finish
<1>2. LoopTypeOK'
  BY <1>1, TaskAssumption DEF LoopTypeOK, Statuses
<1>3. PhaseOK'
  BY <1>1 DEF PhaseOK
<1>4. OneCallPerTurn'
  BY <1>1 DEF OneCallPerTurn, LoopTypeOK
<1>5. DeadlineHolds'
  BY <1>1 DEF DeadlineHolds
<1> QED BY <1>2, <1>3, <1>4, <1>5

LEMMA LoopInit == Init => LoopInv
<1> SUFFICES ASSUME Init PROVE LoopInv
  OBVIOUS
<1>1. LoopTypeOK
  BY TaskAssumption DEF Init, LoopTypeOK, Statuses, Categories
<1>2. PhaseOK /\ OneCallPerTurn
  BY TaskAssumption DEF Init, PhaseOK, OneCallPerTurn
<1>3. now < Deadline + ReadTimeout
  BY TaskAssumption DEF Init
<1>4. DeadlineHolds
  BY <1>3 DEF Init, DeadlineHolds
<1> QED BY <1>1, <1>2, <1>4 DEF LoopInv

LEMMA LoopStep ==
  ASSUME LoopInv, ctl \in ControllerType, [Next]_vars
  PROVE  LoopInv'
<1>a. /\ LoopTypeOK /\ PhaseOK /\ OneCallPerTurn /\ DeadlineHolds
      /\ MaxTurns \in Nat /\ Deadline \in Nat /\ ReadTimeout \in Nat
      /\ Len(trace) \in Nat
  BY TaskAssumption DEF LoopInv, LoopTypeOK
<1>1. CASE BeginTurn
  <2>1. readLimit' \in 1 .. ReadTimeout
    BY <1>a, <1>1, TaskAssumption DEF BeginTurn, MinOf, LoopTypeOK
  <2>2. LoopTypeOK'
    BY <1>a, <1>1, <2>1 DEF BeginTurn, GoOn, LoopTypeOK
  <2>3. PhaseOK'
    BY <1>a, <1>1, <2>1 DEF BeginTurn, GoOn, LoopTypeOK, PhaseOK
  <2>4. OneCallPerTurn'
    BY <1>a, <1>1 DEF BeginTurn, GoOn, LoopTypeOK, PhaseOK, OneCallPerTurn
  <2>5. DeadlineHolds'
    BY <1>a, <1>1 DEF BeginTurn, GoOn, DeadlineHolds
  <2> QED BY <2>2, <2>3, <2>4, <2>5 DEF LoopInv
<1>2. CASE LateTurn
  <2> USE <1>2 DEF LateTurn
  <2>1. "task_timeout" \in Categories /\ now' = now
    BY DEF Categories
  <2> QED BY <1>a, <2>1, FinishKeepsLoop DEF LoopTypeOK, PhaseOK, DeadlineHolds
<1>3. CASE Stream
  <2>1. ASSUME NEW wait \in 1 .. readLimit, ReadLine(wait) PROVE LoopInv'
    <3>1. now' = now + wait /\ now' \in Nat /\ now' < Deadline + ReadTimeout
      BY <1>a, <2>1 DEF ReadLine, LoopTypeOK, PhaseOK
    <3>2. CASE now' >= Deadline
      <4>1. /\ Finish("timeout", "task_timeout") /\ "task_timeout" \in Categories
            /\ pc = "stream" /\ UNCHANGED <<contract, turn, turnsRecorded, trace>>
        BY <2>1, <3>1, <3>2 DEF ReadLine, Categories
      <4> QED BY <1>a, <3>1, <3>2, <4>1, FinishKeepsLoop DEF LoopTypeOK, PhaseOK
    <3>3. CASE ~(now' >= Deadline)
      <4>1. /\ GoOn("stream") /\ pc = "stream" /\ now' < Deadline
            /\ UNCHANGED <<contract, turn, turnsRecorded, trace, call, readLimit>>
        BY <1>a, <2>1, <3>1, <3>3 DEF ReadLine
      <4>2. LoopTypeOK' /\ PhaseOK' /\ OneCallPerTurn' /\ DeadlineHolds'
        BY <1>a, <3>1, <4>1
           DEF GoOn, LoopTypeOK, PhaseOK, OneCallPerTurn, DeadlineHolds
      <4> QED BY <4>2 DEF LoopInv
    <3> QED BY <3>2, <3>3
  <2>2. CASE ReadStalls
    <3>1. /\ now' = now + readLimit /\ now' \in Nat /\ now' < Deadline + ReadTimeout
          /\ pc = "stream" /\ UNCHANGED <<contract, turn, turnsRecorded, trace>>
          /\ "task_timeout" \in Categories /\ "endpoint_error" \in Categories
      BY <1>a, <2>2 DEF ReadStalls, LoopTypeOK, PhaseOK, Categories
    <3>2. CASE now + readLimit >= Deadline
      <4>1. Finish("timeout", "task_timeout")
        BY <2>2, <3>2 DEF ReadStalls
      <4> QED BY <1>a, <3>1, <3>2, <4>1, FinishKeepsLoop DEF LoopTypeOK, PhaseOK
    <3>3. CASE ~(now + readLimit >= Deadline)
      <4>1. Finish("error", "endpoint_error")
        BY <2>2, <3>3 DEF ReadStalls
      <4> QED BY <1>a, <3>1, <4>1, FinishKeepsLoop DEF LoopTypeOK, PhaseOK
    <3> QED BY <3>2, <3>3
  <2>3. ASSUME NEW wait \in 0 .. readLimit, TurnBreaks(wait) PROVE LoopInv'
    <3>1. /\ now' = now + wait /\ now' \in Nat /\ now' < Deadline + ReadTimeout
          /\ pc = "stream" /\ UNCHANGED <<contract, turn, turnsRecorded, trace>>
      BY <1>a, <2>3 DEF TurnBreaks, LoopTypeOK, PhaseOK
    <3>2. PICK c \in {"endpoint_error", "agent_runtime_error"} : Finish("error", c)
      BY <2>3 DEF TurnBreaks
    <3>3. c \in Categories
      BY DEF Categories
    <3> QED BY <1>a, <3>1, <3>2, <3>3, FinishKeepsLoop DEF LoopTypeOK, PhaseOK
  <2>4. ASSUME NEW wait \in 0 .. readLimit, AssemblyFails(wait) PROVE LoopInv'
    <3>1. /\ now' = now + wait /\ now' \in Nat /\ now' < Deadline + ReadTimeout
          /\ pc = "stream" /\ UNCHANGED <<contract, turn, trace>>
          /\ turnsRecorded' = turnsRecorded + 1
      BY <1>a, <2>4 DEF AssemblyFails, LoopTypeOK, PhaseOK
    <3>2. PICK c \in {"malformed_tool_call", "invalid_tool_name",
                      "invalid_tool_arguments"} : Finish("error", c)
      BY <2>4 DEF AssemblyFails
    <3>3. c \in Categories
      BY DEF Categories
    <3> QED BY <1>a, <3>1, <3>2, <3>3, FinishKeepsLoop DEF LoopTypeOK, PhaseOK
  <2>5. ASSUME NEW c \in Lookups \cup Recommendations, TurnCompletes(c) PROVE LoopInv'
    <3>1. LoopTypeOK' /\ PhaseOK'
      BY <1>a, <2>5 DEF TurnCompletes, GoOn, LoopTypeOK, PhaseOK
    <3>2. OneCallPerTurn' /\ DeadlineHolds'
      BY <1>a, <2>5
         DEF TurnCompletes, GoOn, LoopTypeOK, PhaseOK, OneCallPerTurn, DeadlineHolds
    <3> QED BY <3>1, <3>2 DEF LoopInv
  <2> QED BY <1>3, <2>1, <2>2, <2>3, <2>4, <2>5 DEF Stream
<1>4. CASE RunTool
  <2>1. ASSUME NEW latency \in Latency, Observe(latency) PROVE LoopInv'
    <3>1. /\ pc = "tool"
          /\ Answer(call, 0, FALSE) \in AnswerType
          /\ Answer(call, Len(ctl.observations) + 1, FALSE) \in AnswerType
      BY <2>1 DEF Observe, Answer, AnswerType, ControllerType
    <3>2. \/ AfterTool(FALSE, Answer(call, 0, FALSE), latency)
          \/ AfterTool(FALSE, Answer(call, Len(ctl.observations) + 1, FALSE), latency)
      BY <2>1 DEF Observe
    <3> QED BY <3>1, <3>2, AfterToolKeepsLoop
  <2>2. ASSUME NEW latency \in Latency, Recommend(latency) PROVE LoopInv'
    <3>1. \E ok \in BOOLEAN : AfterTool(ok, Answer(call, 0, ok), latency)
      <4>1. CASE contract.controller = "none"
        BY <2>2, <4>1 DEF Recommend
      <4>2. CASE contract.controller # "none"
        <5>1. AfterTool(Judge(call), Answer(call, 0, Judge(call)), latency)
          BY <2>2, <4>2 DEF Recommend
        <5>2. Judge(call) \in BOOLEAN
          BY DEF Judge
        <5> QED BY <5>1, <5>2
      <4> QED BY <4>1, <4>2
    <3>2. PICK ok \in BOOLEAN : AfterTool(ok, Answer(call, 0, ok), latency)
      BY <3>1
    <3>3. pc = "tool" /\ Answer(call, 0, ok) \in AnswerType
      BY <2>2 DEF Recommend, Answer, AnswerType
    <3> QED BY <3>2, <3>3, AfterToolKeepsLoop
  <2>3. ASSUME NEW latency \in Latency, CorrectTerminal(latency) PROVE LoopInv'
    <3>1. pc = "tool" /\ Answer(call, 0, FALSE) \in AnswerType
      BY <2>3 DEF CorrectTerminal, Answer, AnswerType
    <3>2. CASE Judge(call)
      <4>1. /\ Finish("error", "invalid_tool_arguments")
            /\ UNCHANGED <<contract, now, turn, turnsRecorded, trace>>
            /\ "invalid_tool_arguments" \in Categories
        BY <2>3, <3>2 DEF CorrectTerminal, Categories
      <4> QED BY <1>a, <3>1, <4>1, FinishKeepsLoop DEF LoopTypeOK, PhaseOK, DeadlineHolds
    <3>3. CASE ~Judge(call)
      <4>1. AfterTool(FALSE, Answer(call, 0, FALSE), latency)
        BY <2>3, <3>3 DEF CorrectTerminal
      <4> QED BY <3>1, <4>1, AfterToolKeepsLoop
    <3> QED BY <3>2, <3>3
  <2>4. ASSUME NEW latency \in Latency, ToolCrashes(latency) PROVE LoopInv'
    <3>1. /\ now' = now + latency /\ now' \in Nat /\ now' < Deadline + ReadTimeout
          /\ pc = "tool" /\ UNCHANGED <<contract, turn, turnsRecorded, trace>>
          /\ Finish("error", "agent_runtime_error")
          /\ "agent_runtime_error" \in Categories
      BY <1>a, <2>4, TaskAssumption
         DEF ToolCrashes, Latency, LoopTypeOK, PhaseOK, Categories
    <3> QED BY <1>a, <3>1, FinishKeepsLoop DEF LoopTypeOK, PhaseOK
  <2>5. CASE RefuseTerminal
    <3>1. /\ pc = "tool" /\ Finish("error", "invalid_tool_arguments")
          /\ UNCHANGED <<contract, now, turn, turnsRecorded, trace>>
          /\ "invalid_tool_arguments" \in Categories
      BY <2>5 DEF RefuseTerminal, Categories
    <3> QED BY <1>a, <3>1, FinishKeepsLoop DEF LoopTypeOK, PhaseOK, DeadlineHolds
  <2> QED BY <1>4, <2>1, <2>2, <2>3, <2>4, <2>5 DEF RunTool
<1>5. CASE Exhaust
  <2>1. ExhaustionCategory \in Categories
    BY DEF ExhaustionCategory, Categories
  <2>2. /\ pc = "loop" /\ turn = MaxTurns /\ Finish("error", ExhaustionCategory)
        /\ UNCHANGED <<contract, now, turn, turnsRecorded, trace>>
    BY <1>5 DEF Exhaust
  <2> QED BY <1>a, <2>1, <2>2, FinishKeepsLoop DEF LoopTypeOK, PhaseOK, DeadlineHolds
<1>6. CASE UNCHANGED vars
  BY <1>a, <1>6
     DEF vars, LoopInv, LoopTypeOK, PhaseOK, OneCallPerTurn, DeadlineHolds
<1> QED BY <1>1, <1>2, <1>3, <1>4, <1>5, <1>6 DEF Next

-----------------------------------------------------------------------------
(* The controller: its type, its state, and the evidence it holds.         *)

StateIsDerived ==
  ctl.state = IF contract.controller \in Workflow THEN DerivedState(ctl)
              ELSE "investigating"

\* Acceptance and exhaustion end the task.
OpenUntilDone == pc # "done" => ~ctl.accepted /\ ~ctl.exhausted

ControllerInv == ctl \in ControllerType /\ StateIsDerived /\ OpenUntilDone

\* The observations are the lookups of the trace under the ids it shows, and
\* the counters the verdict reads stand for observations of their kind.
EvidenceInv ==
  contract.controller # "none" =>
    /\ \A k \in DOMAIN ctl.observations :
          \E i \in DOMAIN trace : /\ trace[i].observation = k
                                  /\ trace[i].call = ctl.observations[k]
    /\ \A i \in DOMAIN trace : trace[i].call \in Lookups =>
          /\ trace[i].observation \in DOMAIN ctl.observations
          /\ ctl.observations[trace[i].observation] = trace[i].call
    /\ ctl.usableLogs > 0 =>
          \E k \in DOMAIN ctl.observations : UsableLog(ctl.observations[k])
    /\ \A r \in ctl.remediations :
          \E k \in DOMAIN ctl.observations : /\ Found(ctl.observations[k])
                                             /\ r \in ctl.observations[k].remediations

IInv == LoopInv /\ ControllerInv /\ EvidenceInv /\ CompletedIsGrounded

\* A lookup is never a terminal call.
LEMMA CallsApart == Lookups \cap Recommendations = {}
BY TaskAssumption DEF LookupTools, Terminal

LEMMA NewControllerFacts ==
  /\ NewController \in ControllerType
  /\ DerivedState(NewController) = "investigating"
<1>1. /\ << >> \in Seq(Lookups)
      /\ {} \in SUBSET UNION {l.remediations : l \in Lookups}
      /\ NoBudget \in 0 .. MaxTurns
      /\ "investigating" \in ControllerStates
  BY TaskAssumption DEF NoBudget, ControllerStates
<1> QED BY <1>1 DEF NewController, ControllerType, DerivedState

\* Their state is the derived one under a workflow controller.
LEMMA RecordState ==
  ASSUME NEW c \in ControllerType, NEW l \in Lookups
  PROVE  Record(c, l).state = IF contract.controller \in Workflow
                              THEN DerivedState(Record(c, l)) ELSE c.state
<1> DEFINE d == [c EXCEPT
      !.observations = Append(@, l),
      !.usableLogs = IF UsableLog(l) THEN @ + 1 ELSE @,
      !.runbooks = IF Found(l) THEN @ + 1 ELSE @,
      !.remediations = IF Found(l) THEN @ \cup l.remediations ELSE @,
      !.diagnoses = IF Found(l) THEN Candidates ELSE @]
<1>1. Record(c, l) = Advance(d) /\ d.state = c.state
  BY DEF Record, ControllerType
<1> HIDE DEF d
<1>2. DerivedState([d EXCEPT !.state = DerivedState(d)]) = DerivedState(d)
  BY DEF DerivedState
<1> QED BY <1>1, <1>2 DEF Advance

LEMMA ValidateTerminalState ==
  ASSUME NEW c \in ControllerType, NEW ok \in BOOLEAN
  PROVE  ValidateTerminal(c, ok).state =
           IF contract.controller \in Workflow
           THEN DerivedState(ValidateTerminal(c, ok)) ELSE c.state
<1> DEFINE d == [c EXCEPT !.attempts = @ + 1,
                          !.rejected = IF ok THEN @ ELSE @ + 1,
                          !.accepted = ok /\ contract.controller \in Workflow]
<1>1. ValidateTerminal(c, ok) = Advance(d) /\ d.state = c.state
  BY DEF ValidateTerminal, ControllerType
<1> HIDE DEF d
<1>2. DerivedState([d EXCEPT !.state = DerivedState(d)]) = DerivedState(d)
  BY DEF DerivedState
<1> QED BY <1>1, <1>2 DEF Advance

\* Every step leaves the controller alone or updates it once.
ControllerMove ==
  \/ UNCHANGED ctl
  \/ pc = "loop" /\ turn < MaxTurns /\ ctl' = NoteTurn(ctl)
  \/ call \in Lookups /\ ctl' = Warn(Record(ctl, call))
  \/ /\ call \in Recommendations /\ Judge(call) /\ pc' = "done"
     /\ ctl' = ValidateTerminal(ctl, TRUE)
  \/ /\ call \in Recommendations /\ ~Judge(call)
     /\ ctl' = Warn(ValidateTerminal(ctl, FALSE))
  \/ pc' = "done" /\ ctl' = MarkExhausted(ctl)

LEMMA ControllerMoves ==
  ASSUME LoopInv, Next
  PROVE  ControllerMove /\ pc # "done" /\ UNCHANGED contract
<1>1. CASE BeginTurn
  BY <1>1 DEF BeginTurn, ControllerMove
<1>2. CASE LateTurn
  BY <1>2 DEF LateTurn, ControllerMove
<1>3. CASE Stream
  BY <1>3 DEF Stream, ReadLine, ReadStalls, TurnBreaks, AssemblyFails, TurnCompletes,
              ControllerMove
<1>4. CASE RunTool
  <2>1. ASSUME NEW latency \in Latency, Observe(latency)
        PROVE  ControllerMove /\ pc # "done" /\ UNCHANGED contract
    BY <2>1 DEF Observe, AfterTool, ControllerMove
  <2>2. ASSUME NEW latency \in Latency, Recommend(latency)
        PROVE  ControllerMove /\ pc # "done" /\ UNCHANGED contract
    <3>1. CASE contract.controller = "none"
      BY <2>2, <3>1 DEF Recommend, AfterTool, ControllerMove
    <3>2. CASE contract.controller # "none" /\ Judge(call)
      <4>1. /\ call \in Recommendations /\ pc = "tool"
            /\ ctl' = ValidateTerminal(ctl, TRUE)
            /\ AfterTool(TRUE, Answer(call, 0, TRUE), latency)
        <5>1. Judge(call) = TRUE
          BY <3>2 DEF Judge
        <5> QED BY <2>2, <3>2, <5>1 DEF Recommend
      <4>2. pc' = "done" /\ UNCHANGED contract
        BY <4>1 DEF AfterTool, Finish
      <4> QED BY <3>2, <4>1, <4>2 DEF ControllerMove
    <3>3. CASE contract.controller # "none" /\ ~Judge(call)
      <4>1. /\ call \in Recommendations /\ pc = "tool"
            /\ ctl' = Warn(ValidateTerminal(ctl, FALSE))
            /\ UNCHANGED contract
        <5>1. Judge(call) = FALSE
          BY <3>3 DEF Judge
        <5> QED BY <2>2, <3>3, <5>1 DEF Recommend, AfterTool
      <4> QED BY <3>3, <4>1 DEF ControllerMove
    <3> QED BY <3>1, <3>2, <3>3
  <2>3. ASSUME NEW latency \in Latency, CorrectTerminal(latency)
        PROVE  ControllerMove /\ pc # "done" /\ UNCHANGED contract
    <3>1. CASE Judge(call)
      <4>1. Judge(call) = TRUE
        BY <3>1 DEF Judge
      <4> QED BY <2>3, <3>1, <4>1 DEF CorrectTerminal, Finish, ControllerMove
    <3>2. CASE ~Judge(call)
      <4>1. Judge(call) = FALSE
        BY <3>2 DEF Judge
      <4> QED BY <2>3, <3>2, <4>1 DEF CorrectTerminal, AfterTool, ControllerMove
    <3> QED BY <3>1, <3>2
  <2>4. ASSUME NEW latency \in Latency, ToolCrashes(latency)
        PROVE  ControllerMove /\ pc # "done" /\ UNCHANGED contract
    BY <2>4 DEF ToolCrashes, ControllerMove
  <2>5. CASE RefuseTerminal
    BY <2>5 DEF RefuseTerminal, ControllerMove
  <2> QED BY <1>4, <2>1, <2>2, <2>3, <2>4, <2>5 DEF RunTool
<1>5. CASE Exhaust
  BY <1>5 DEF Exhaust, Finish, ControllerMove
<1> QED BY <1>1, <1>2, <1>3, <1>4, <1>5 DEF Next

\* One update keeps the controller's invariant and follows WorkflowProgress.
LEMMA ControllerStep ==
  ASSUME LoopInv, LoopInv', ControllerInv, Next
  PROVE  ControllerInv' /\ [Progress!Next]_(ctl.state)
<1> DEFINE Orderly == [Progress!Next]_(ctl.state)
<1>1. /\ ctl \in ControllerType /\ StateIsDerived /\ ~ctl.accepted /\ ~ctl.exhausted
      /\ ControllerMove /\ UNCHANGED contract /\ contract' \in Contracts
      /\ turn \in 0 .. MaxTurns /\ call' \in Lookups \cup Recommendations \cup {NoCall}
  BY ControllerMoves DEF ControllerInv, OpenUntilDone, LoopInv, LoopTypeOK
<1>2. CASE UNCHANGED ctl
  BY <1>1, <1>2 DEF ControllerInv, StateIsDerived, OpenUntilDone, DerivedState
<1>3. CASE turn < MaxTurns /\ ctl' = NoteTurn(ctl)
  BY <1>1, <1>3, NoteTurnFacts DEF ControllerInv, StateIsDerived, OpenUntilDone
<1>4. CASE call \in Lookups /\ ctl' = Warn(Record(ctl, call))
  <2> DEFINE c == Record(ctl, call)
  <2>1. /\ c \in ControllerType /\ ~c.accepted /\ ~c.exhausted
        /\ c.usableLogs = IF UsableLog(call) THEN ctl.usableLogs + 1 ELSE ctl.usableLogs
        /\ c.runbooks = IF Found(call) THEN ctl.runbooks + 1 ELSE ctl.runbooks
    <3>1. /\ c \in ControllerType
          /\ c.accepted = ctl.accepted /\ c.exhausted = ctl.exhausted
          /\ c.usableLogs = IF UsableLog(call) THEN ctl.usableLogs + 1 ELSE ctl.usableLogs
          /\ c.runbooks = IF Found(call) THEN ctl.runbooks + 1 ELSE ctl.runbooks
      BY ONLY <1>1, <1>4, RecordFacts, Zenon
    <3> HIDE DEF c
    <3> QED BY <1>1, <3>1
  <2>2. c.state = IF contract.controller \in Workflow THEN DerivedState(c) ELSE ctl.state
    BY <1>1, <1>4, RecordState
  <2>3. /\ ctl' \in ControllerType /\ ctl'.state = c.state
        /\ ~ctl'.accepted /\ ~ctl'.exhausted
        /\ DerivedState(ctl') = DerivedState(c)
    <3> HIDE DEF c
    <3> QED BY <1>4, <2>1, WarnFacts DEF c
  <2>4. ControllerInv'
    BY <1>1, <2>2, <2>3 DEF ControllerInv, StateIsDerived, OpenUntilDone
  <2>5. Orderly
    <3>1. CASE contract.controller \notin Workflow
      BY <2>2, <2>3, <3>1
    <3>2. CASE contract.controller \in Workflow
      <4>1. /\ ctl.state = DerivedState(ctl) /\ ctl'.state = DerivedState(c)
            /\ ctl.usableLogs \in Nat /\ ctl.runbooks \in Nat
        BY <1>1, <2>2, <2>3, <3>2 DEF StateIsDerived, ControllerType
      <4>2. ~(UsableLog(call) /\ Found(call))
        BY DEF UsableLog, Found
      <4>3. \/ DerivedState(c) = DerivedState(ctl)
            \/ <<DerivedState(ctl), DerivedState(c)>> \in Progress!Gains
        <5> HIDE DEF c
        <5>1. CASE ~UsableLog(call) /\ ~Found(call)
          BY <1>1, <2>1, <5>1 DEF DerivedState
        <5>2. CASE UsableLog(call)
          BY <1>1, <2>1, <4>1, <4>2, <5>2 DEF DerivedState, Progress!Gains
        <5>3. CASE Found(call)
          BY <1>1, <2>1, <4>1, <4>2, <5>3 DEF DerivedState, Progress!Gains
        <5> QED BY <5>1, <5>2, <5>3
      <4> QED BY <4>1, <4>3 DEF Progress!Next, Progress!Gain
    <3> QED BY <3>1, <3>2
  <2> QED BY <2>4, <2>5
<1>5. CASE /\ call \in Recommendations /\ Judge(call) /\ pc' = "done"
           /\ ctl' = ValidateTerminal(ctl, TRUE)
  <2>1. /\ ctl' \in ControllerType
        /\ ctl'.accepted = (contract.controller \in Workflow)
        /\ ctl'.state = IF contract.controller \in Workflow THEN DerivedState(ctl')
                        ELSE ctl.state
    <3>1. TRUE \in BOOLEAN
      OBVIOUS
    <3>2. /\ ctl' \in ControllerType
          /\ ctl'.accepted = (TRUE /\ contract.controller \in Workflow)
      BY <1>1, <1>5, <3>1, ValidateTerminalFacts, Zenon
    <3>3. ctl'.state = IF contract.controller \in Workflow THEN DerivedState(ctl')
                       ELSE ctl.state
      BY <1>1, <1>5, <3>1, ValidateTerminalState, Zenon
    <3> QED BY <3>2, <3>3
  <2>2. ControllerInv'
    BY <1>1, <1>5, <2>1 DEF ControllerInv, StateIsDerived, OpenUntilDone
  <2>3. Orderly
    <3>1. CASE contract.controller \notin Workflow
      BY <2>1, <3>1
    <3>2. CASE contract.controller \in Workflow
      <4>1. ctl'.state = "terminal_accepted"
        BY <2>1, <3>2 DEF DerivedState
      <4>2. ctl.usableLogs > 0 /\ ctl.runbooks > 0
        BY <1>5, <3>2 DEF Judge, Publishable
      <4>3. ctl.state = "ready_for_terminal"
        BY <1>1, <3>2, <4>2 DEF StateIsDerived, DerivedState, ControllerType
      <4> QED BY <4>1, <4>3 DEF Progress!Next, Progress!Accept
    <3> QED BY <3>1, <3>2
  <2> QED BY <2>2, <2>3
<1>6. CASE /\ call \in Recommendations /\ ~Judge(call)
           /\ ctl' = Warn(ValidateTerminal(ctl, FALSE))
  <2> DEFINE c == ValidateTerminal(ctl, FALSE)
  <2>1. /\ c \in ControllerType /\ ~c.accepted /\ ~c.exhausted
        /\ c.usableLogs = ctl.usableLogs /\ c.runbooks = ctl.runbooks
        /\ c.state = IF contract.controller \in Workflow THEN DerivedState(c) ELSE ctl.state
    BY <1>1, ValidateTerminalFacts, ValidateTerminalState
  <2> HIDE DEF c
  <2>2. /\ ctl' \in ControllerType /\ ctl'.state = c.state
        /\ ~ctl'.accepted /\ ~ctl'.exhausted
        /\ DerivedState(ctl') = DerivedState(c)
    BY <1>6, <2>1, WarnFacts DEF c
  <2>3. DerivedState(c) = DerivedState(ctl)
    BY <1>1, <2>1 DEF DerivedState
  <2>4. ControllerInv'
    BY <1>1, <2>1, <2>2 DEF ControllerInv, StateIsDerived, OpenUntilDone
  <2>5. ctl'.state = ctl.state
    BY <1>1, <2>1, <2>2, <2>3 DEF StateIsDerived
  <2> QED BY <2>4, <2>5
<1>7. CASE pc' = "done" /\ ctl' = MarkExhausted(ctl)
  <2>1. ctl' \in ControllerType
    BY <1>1, <1>7, MarkExhaustedFacts
  <2>2. CASE contract.controller \notin Workflow
    <3>1. ctl' = ctl
      BY <1>1, <1>7, <2>2, MarkExhaustedFacts
    <3> QED BY <1>1, <1>2, <3>1
  <2>3. CASE contract.controller \in Workflow
    <3>1. ctl'.state = "budget_exhausted" /\ ctl'.state = DerivedState(ctl')
      BY <1>1, <1>7, <2>3, MarkExhaustedFacts
    <3>2. ControllerInv'
      BY <1>1, <1>7, <2>1, <2>3, <3>1 DEF ControllerInv, StateIsDerived, OpenUntilDone
    <3>3. ctl.state \in Progress!Collected
      BY <1>1, <2>3 DEF StateIsDerived, DerivedState, Progress!Collected
    <3> QED BY <3>1, <3>2, <3>3 DEF Progress!Next, Progress!Exhaust
  <2> QED BY <2>2, <2>3
<1> QED BY <1>1, <1>2, <1>3, <1>4, <1>5, <1>6, <1>7 DEF ControllerMove

-----------------------------------------------------------------------------
(* The evidence and the grounding of a completed task.                     *)

SameEvidence == /\ ctl'.observations = ctl.observations
                /\ ctl'.usableLogs = ctl.usableLogs
                /\ ctl'.remediations = ctl.remediations

\* Every step keeps trace and evidence, answers a lookup in both, or answers a
\* terminal call, which is no evidence. Only an accepted one completes.
EvidenceMove ==
  \/ UNCHANGED trace /\ SameEvidence /\ status' # "completed"
  \/ /\ call \in Lookups /\ ctl' = Warn(Record(ctl, call)) /\ status' # "completed"
     /\ trace' = Append(trace, Answer(call, Len(ctl.observations) + 1, FALSE))
  \/ /\ call \in Recommendations /\ SameEvidence
     /\ \E ok \in BOOLEAN : trace' = Append(trace, Answer(call, 0, ok))
     /\ status' = "completed" => Judge(call)

LEMMA RejectionKeepsEvidence ==
  ASSUME ctl \in ControllerType, ctl' = Warn(ValidateTerminal(ctl, FALSE))
  PROVE  SameEvidence
<1> DEFINE c == ValidateTerminal(ctl, FALSE)
<1>1. /\ c \in ControllerType
      /\ c.observations = ctl.observations
      /\ c.usableLogs = ctl.usableLogs
      /\ c.remediations = ctl.remediations
  BY ValidateTerminalFacts
<1>2. ctl' = Warn(c)
  OBVIOUS
<1> HIDE DEF c
<1> QED BY <1>1, <1>2, WarnFacts DEF SameEvidence

LEMMA EvidenceMoves ==
  ASSUME LoopInv, ControllerInv, Next, contract.controller # "none"
  PROVE  EvidenceMove
<1>1. /\ (ctl \in ControllerType /\ ~ctl.accepted) \/ pc = "done"
      /\ pc \in {"loop", "stream", "tool", "done"} /\ status \in Statuses
      /\ pc = "done" <=> status # "running"
      /\ turn \in 0 .. MaxTurns
  BY DEF LoopInv, LoopTypeOK, PhaseOK, ControllerInv, OpenUntilDone
<1>2. CASE BeginTurn
  <2>1. SameEvidence
    BY <1>1, <1>2, NoteTurnFacts DEF BeginTurn, SameEvidence, ControllerInv
  <2>2. UNCHANGED trace /\ status' = status /\ status = "running"
    BY <1>1, <1>2 DEF BeginTurn, GoOn
  <2> QED BY <2>1, <2>2 DEF EvidenceMove
<1>3. CASE LateTurn
  BY <1>3 DEF LateTurn, Finish, EvidenceMove, SameEvidence
<1>4. CASE Stream
  <2>1. UNCHANGED <<trace, ctl>> /\ pc = "stream"
    BY <1>4 DEF Stream, ReadLine, ReadStalls, TurnBreaks, AssemblyFails, TurnCompletes
  <2>2. status' # "completed"
    BY <1>1, <1>4, <2>1
       DEF Stream, ReadLine, ReadStalls, TurnBreaks, AssemblyFails, TurnCompletes,
           Finish, GoOn
  <2> QED BY <2>1, <2>2 DEF EvidenceMove, SameEvidence
<1>5. CASE RunTool
  <2>1. ASSUME NEW latency \in Latency, Observe(latency) PROVE EvidenceMove
    <3>1. /\ pc = "tool" /\ call \in Lookups /\ ctl' = Warn(Record(ctl, call))
          /\ AfterTool(FALSE, Answer(call, Len(ctl.observations) + 1, FALSE), latency)
      BY <2>1 DEF Observe
    <3>2. status' # "completed"
      BY <1>1, <3>1 DEF AfterTool, NextTurn, GoOn, Finish
    <3> QED BY <3>1, <3>2 DEF AfterTool, EvidenceMove
  <2>2. ctl \in ControllerType /\ TRUE \in BOOLEAN /\ FALSE \in BOOLEAN
    BY DEF ControllerInv
  <2>3. ASSUME NEW latency \in Latency, Recommend(latency) PROVE EvidenceMove
    <3>1. CASE Judge(call)
      <4>1. Judge(call) = TRUE
        BY <3>1 DEF Judge
      <4>2. /\ call \in Recommendations /\ ctl' = ValidateTerminal(ctl, TRUE)
            /\ trace' = Append(trace, Answer(call, 0, TRUE))
        BY <2>3, <4>1 DEF Recommend, AfterTool
      <4>3. SameEvidence
        BY <2>2, <4>2, ValidateTerminalFacts DEF SameEvidence
      <4> QED BY <2>2, <3>1, <4>2, <4>3 DEF EvidenceMove
    <3>2. CASE ~Judge(call)
      <4>1. Judge(call) = FALSE
        BY <3>2 DEF Judge
      <4>2. /\ call \in Recommendations /\ pc = "tool"
            /\ ctl' = Warn(ValidateTerminal(ctl, FALSE))
            /\ AfterTool(FALSE, Answer(call, 0, FALSE), latency)
        BY <2>3, <4>1 DEF Recommend
      <4>3. SameEvidence
        BY <2>2, <4>2, RejectionKeepsEvidence
      <4>4. status' # "completed" /\ trace' = Append(trace, Answer(call, 0, FALSE))
        BY <1>1, <4>2 DEF AfterTool, NextTurn, GoOn, Finish
      <4> QED BY <2>2, <4>2, <4>3, <4>4 DEF EvidenceMove
    <3> QED BY <3>1, <3>2
  <2>4. ASSUME NEW latency \in Latency, CorrectTerminal(latency) PROVE EvidenceMove
    <3>1. CASE Judge(call)
      <4>1. Judge(call) = TRUE
        BY <3>1 DEF Judge
      <4>2. /\ ctl' = ValidateTerminal(ctl, TRUE) /\ UNCHANGED trace
            /\ status' # "completed"
        BY <2>4, <3>1, <4>1 DEF CorrectTerminal, Finish
      <4> QED BY <2>2, <4>2, ValidateTerminalFacts DEF EvidenceMove, SameEvidence
    <3>2. CASE ~Judge(call)
      <4>1. Judge(call) = FALSE
        BY <3>2 DEF Judge
      <4>2. /\ ctl' = Warn(ValidateTerminal(ctl, FALSE))
            /\ call \in Recommendations /\ pc = "tool"
            /\ AfterTool(FALSE, Answer(call, 0, FALSE), latency)
        BY <2>4, <3>2, <4>1 DEF CorrectTerminal
      <4>3. SameEvidence
        BY <2>2, <4>2, RejectionKeepsEvidence
      <4>4. status' # "completed" /\ trace' = Append(trace, Answer(call, 0, FALSE))
        BY <1>1, <4>2 DEF AfterTool, NextTurn, GoOn, Finish
      <4> QED BY <2>2, <4>2, <4>3, <4>4 DEF EvidenceMove
    <3> QED BY <3>1, <3>2
  <2>5. ASSUME NEW latency \in Latency, ToolCrashes(latency) PROVE EvidenceMove
    BY <2>5 DEF ToolCrashes, Finish, EvidenceMove, SameEvidence
  <2>6. CASE RefuseTerminal
    BY <2>6 DEF RefuseTerminal, Finish, EvidenceMove, SameEvidence
  <2> QED BY <1>5, <2>1, <2>3, <2>4, <2>5, <2>6 DEF RunTool
<1>6. CASE Exhaust
  <2>1. ~ctl.accepted /\ ctl \in ControllerType
    BY <1>6 DEF Exhaust, ControllerInv, OpenUntilDone
  <2>2. SameEvidence
    BY <1>6, <2>1, MarkExhaustedFacts DEF Exhaust, SameEvidence
  <2> QED BY <1>6, <2>2 DEF Exhaust, Finish, EvidenceMove
<1> QED BY <1>2, <1>3, <1>4, <1>5, <1>6 DEF Next

LEMMA EvidenceStep ==
  ASSUME LoopInv, ControllerInv, EvidenceInv, Next
  PROVE  EvidenceInv'
<1> SUFFICES ASSUME contract.controller # "none" PROVE EvidenceInv'
  BY ControllerMoves DEF EvidenceInv
<1>1. /\ trace \in Seq(AnswerType) /\ ctl \in ControllerType
      /\ ctl.observations \in Seq(Lookups) /\ EvidenceMove
  BY EvidenceMoves DEF LoopInv, LoopTypeOK, ControllerInv, ControllerType
<1>2. CASE UNCHANGED trace /\ SameEvidence
  BY <1>2 DEF EvidenceInv, SameEvidence
<1>3. CASE /\ call \in Lookups /\ ctl' = Warn(Record(ctl, call))
           /\ trace' = Append(trace, Answer(call, Len(ctl.observations) + 1, FALSE))
  <2> DEFINE n == Len(ctl.observations) + 1
             m == Len(trace) + 1
  <2>1. /\ ctl'.observations = Append(ctl.observations, call)
        /\ ctl'.usableLogs = IF UsableLog(call) THEN ctl.usableLogs + 1 ELSE ctl.usableLogs
        /\ ctl'.remediations = IF Found(call) THEN ctl.remediations \cup call.remediations
                               ELSE ctl.remediations
    <3> DEFINE c == Record(ctl, call)
    <3>1. /\ c \in ControllerType
          /\ c.observations = Append(ctl.observations, call)
          /\ c.usableLogs = IF UsableLog(call) THEN ctl.usableLogs + 1 ELSE ctl.usableLogs
          /\ c.remediations = IF Found(call) THEN ctl.remediations \cup call.remediations
                              ELSE ctl.remediations
      BY ONLY <1>1, <1>3, RecordFacts, Zenon
    <3> HIDE DEF c
    <3>2. /\ ctl'.observations = c.observations /\ ctl'.usableLogs = c.usableLogs
          /\ ctl'.remediations = c.remediations
      BY <1>3, <3>1, WarnFacts DEF c
    <3> QED BY <3>1, <3>2
  <2>2. /\ DOMAIN ctl'.observations = DOMAIN ctl.observations \cup {n}
        /\ \A k \in DOMAIN ctl.observations : ctl'.observations[k] = ctl.observations[k]
        /\ ctl'.observations[n] = call
    BY <1>1, <1>3, <2>1
  <2>3. /\ DOMAIN trace' = DOMAIN trace \cup {m}
        /\ \A i \in DOMAIN trace : trace'[i] = trace[i]
        /\ trace'[m].observation = n /\ trace'[m].call = call
    BY <1>1, <1>3 DEF Answer
  <2> HIDE DEF n, m
  <2>4. \A k \in DOMAIN ctl'.observations :
           \E i \in DOMAIN trace' : /\ trace'[i].observation = k
                                    /\ trace'[i].call = ctl'.observations[k]
    BY <2>2, <2>3 DEF EvidenceInv
  <2>5. \A i \in DOMAIN trace' : trace'[i].call \in Lookups =>
           /\ trace'[i].observation \in DOMAIN ctl'.observations
           /\ ctl'.observations[trace'[i].observation] = trace'[i].call
    BY <2>2, <2>3 DEF EvidenceInv
  <2>6. ctl'.usableLogs > 0 =>
           \E k \in DOMAIN ctl'.observations : UsableLog(ctl'.observations[k])
    BY <2>1, <2>2 DEF EvidenceInv
  <2>7. \A r \in ctl'.remediations :
           \E k \in DOMAIN ctl'.observations : /\ Found(ctl'.observations[k])
                                               /\ r \in ctl'.observations[k].remediations
    BY <2>1, <2>2 DEF EvidenceInv
  <2> QED BY <2>4, <2>5, <2>6, <2>7 DEF EvidenceInv
<1>4. CASE /\ call \in Recommendations /\ SameEvidence
           /\ \E ok \in BOOLEAN : trace' = Append(trace, Answer(call, 0, ok))
  <2> DEFINE m == Len(trace) + 1
  <2>1. /\ DOMAIN trace' = DOMAIN trace \cup {m}
        /\ \A i \in DOMAIN trace : trace'[i] = trace[i]
        /\ trace'[m].call = call
    BY <1>1, <1>4 DEF Answer
  <2>2. call \notin Lookups
    BY <1>4, CallsApart
  <2> HIDE DEF m
  <2> QED BY <1>4, <2>1, <2>2 DEF EvidenceInv, SameEvidence
<1> QED BY <1>1, <1>2, <1>3, <1>4 DEF EvidenceMove

\* An accepted recommendation is grounded in the trace before it.
LEMMA GroundedByVerdict ==
  ASSUME LoopInv, ControllerInv, EvidenceInv, contract.controller # "none",
         call \in Recommendations, Judge(call), UNCHANGED contract,
         NEW ok \in BOOLEAN, trace' = Append(trace, Answer(call, 0, ok))
  PROVE  CompletedIsGrounded'
<1> DEFINE m == Len(trace)
<1>1. /\ trace \in Seq(AnswerType) /\ ctl.observations \in Seq(Lookups)
      /\ m \in Nat /\ ctl.usableLogs \in Nat /\ ctl \in ControllerType
  BY DEF LoopInv, LoopTypeOK, ControllerInv, ControllerType
<1>2. /\ Len(trace') = m + 1 /\ trace' # << >> /\ trace'[m + 1].call = call
      /\ \A i \in 1 .. m : trace'[i] = trace[i]
      /\ DOMAIN trace = 1 .. m
  BY <1>1 DEF Answer
<1>3. Final' = call /\ Final' \in Recommendations
  BY <1>2 DEF Final
<1>4. Shown' = {i \in 1 .. m : trace[i].call \in Lookups}
  BY <1>1, <1>2 DEF Shown
<1>5. ShownEvidence' = {i \in Shown' : Eligible(trace[i].call)}
  BY <1>2, <1>4 DEF ShownEvidence
<1>6. \A i \in Shown' : trace'[i] = trace[i]
  BY <1>2, <1>4
\* Every observation was shown, and what was shown is an observation.
<1>7. \A k \in DOMAIN ctl.observations :
         \E i \in Shown' : /\ trace'[i].observation = k
                           /\ trace'[i].call = ctl.observations[k]
  <2> SUFFICES ASSUME NEW k \in DOMAIN ctl.observations
               PROVE  \E i \in Shown' : /\ trace'[i].observation = k
                                        /\ trace'[i].call = ctl.observations[k]
    OBVIOUS
  <2>1. PICK i \in DOMAIN trace : /\ trace[i].observation = k
                                  /\ trace[i].call = ctl.observations[k]
    BY DEF EvidenceInv
  <2>2. ctl.observations[k] \in Lookups
    BY <1>1
  <2>3. i \in Shown'
    BY <1>2, <1>4, <2>1, <2>2
  <2> QED BY <1>6, <2>1, <2>3
<1>8. \A k \in EligibleIds :
         \E i \in ShownEvidence' : /\ trace'[i].observation = k
                                   /\ trace'[i].call = ctl.observations[k]
  <2> SUFFICES ASSUME NEW k \in EligibleIds
               PROVE  \E i \in ShownEvidence' : /\ trace'[i].observation = k
                                                /\ trace'[i].call = ctl.observations[k]
    OBVIOUS
  <2>1. k \in DOMAIN ctl.observations /\ Eligible(ctl.observations[k])
    BY DEF EligibleIds
  <2>2. PICK i \in Shown' : /\ trace'[i].observation = k
                            /\ trace'[i].call = ctl.observations[k]
    BY <1>7, <2>1
  <2>3. Eligible(trace[i].call)
    BY <1>6, <2>1, <2>2
  <2> QED BY <1>5, <2>2, <2>3
<1>9. \A i \in ShownEvidence' : /\ trace'[i].observation \in EligibleIds
                                /\ ctl.observations[trace'[i].observation] = trace'[i].call
  BY <1>2, <1>4, <1>5, <1>6 DEF EvidenceInv, EligibleIds
<1>10. \A k \in CitedIds(call) :
          \E i \in Cited' : trace'[i].call = ctl.observations[k]
  <2> SUFFICES ASSUME NEW k \in CitedIds(call)
               PROVE  \E i \in Cited' : trace'[i].call = ctl.observations[k]
    OBVIOUS
  <2>1. k \in EligibleIds /\ (contract.refs => k \in call.refs)
    BY DEF CitedIds
  <2>2. PICK i \in ShownEvidence' : /\ trace'[i].observation = k
                                    /\ trace'[i].call = ctl.observations[k]
    BY <1>8, <2>1
  <2>3. Cited' = IF contract.refs
                 THEN {j \in ShownEvidence' : trace'[j].observation \in call.refs}
                 ELSE ShownEvidence'
    BY <1>3 DEF Cited
  <2>4. i \in Cited'
    BY <2>1, <2>2, <2>3
  <2> QED BY <2>2, <2>4
<1>11. contract.refs =>
         /\ Final'.refs # {}
         /\ Final'.refs \subseteq {trace'[i].observation : i \in ShownEvidence'}
  <2> SUFFICES ASSUME contract.refs
               PROVE  /\ Final'.refs # {}
                      /\ Final'.refs \subseteq {trace'[i].observation : i \in ShownEvidence'}
    OBVIOUS
  <2>1. call.refs # {} /\ call.refs \subseteq EligibleIds
    BY DEF Judge, RefsResolve
  <2>2. ASSUME NEW k \in call.refs
        PROVE  k \in {trace'[i].observation : i \in ShownEvidence'}
    <3>1. PICK i \in ShownEvidence' : trace'[i].observation = k
      BY <1>8, <2>1
    <3> QED BY <3>1
  <2>3. call.refs \subseteq {trace'[i].observation : i \in ShownEvidence'}
    BY <2>2
  <2>4. Final'.refs = call.refs
    BY <1>3
  <2> QED BY <2>1, <2>3, <2>4
<1>12. contract.controller \in Workflow =>
         /\ \E i \in Shown' : UsableLog(trace'[i].call)
         /\ \E i \in Shown' : /\ Found(trace'[i].call)
                              /\ Final'.remediation \in trace'[i].call.remediations
  <2> SUFFICES ASSUME contract.controller \in Workflow
               PROVE  /\ \E i \in Shown' : UsableLog(trace'[i].call)
                      /\ \E i \in Shown' : /\ Found(trace'[i].call)
                                           /\ Final'.remediation \in trace'[i].call.remediations
    OBVIOUS
  <2>1. ctl.usableLogs > 0 /\ call.remediation \in ctl.remediations
    BY DEF Judge, Publishable
  <2>2. PICK k \in DOMAIN ctl.observations : UsableLog(ctl.observations[k])
    BY <2>1 DEF EvidenceInv
  <2>3. PICK j \in DOMAIN ctl.observations :
           Found(ctl.observations[j]) /\ call.remediation \in ctl.observations[j].remediations
    BY <2>1 DEF EvidenceInv
  <2> QED BY <1>3, <1>7, <2>2, <2>3
<1>13. contract.controller = "v2" =>
         \E i \in Cited' : /\ UsableLog(trace'[i].call)
                           /\ Final'.diagnosis \in trace'[i].call.relevant
  BY <1>3, <1>10 DEF Judge, RelevantLog
<1>14. contract.controller = "v3" =>
         \A a \in Pattern[Final'.diagnosis] :
            /\ \E i \in Cited' : a \in trace'[i].call.covers
            /\ \A i \in ShownEvidence' : a \notin trace'[i].call.denies
  <2> SUFFICES ASSUME contract.controller = "v3", NEW a \in Pattern[Final'.diagnosis]
               PROVE  /\ \E i \in Cited' : a \in trace'[i].call.covers
                      /\ \A i \in ShownEvidence' : a \notin trace'[i].call.denies
    OBVIOUS
  <2>1. Final'.diagnosis = call.diagnosis
    BY <1>3
  <2>2. /\ \A k \in EligibleIds : a \notin ctl.observations[k].denies
        /\ \E k \in CitedIds(call) : a \in ctl.observations[k].covers
    BY <2>1 DEF Judge, PatternSupported
  <2>3. \E i \in Cited' : a \in trace'[i].call.covers
    <3>1. PICK k \in CitedIds(call) : a \in ctl.observations[k].covers
      BY <2>2
    <3>2. PICK i \in Cited' : trace'[i].call = ctl.observations[k]
      BY <1>10, <3>1
    <3> QED BY <3>1, <3>2
  <2>4. ASSUME NEW i \in ShownEvidence' PROVE a \notin trace'[i].call.denies
    BY <1>9, <2>2, <2>4
  <2> QED BY <2>3, <2>4
<1> HIDE DEF m
<1> QED BY <1>2, <1>3, <1>11, <1>12, <1>13, <1>14 DEF CompletedIsGrounded

LEMMA GroundedStep ==
  ASSUME LoopInv, ControllerInv, EvidenceInv, Next
  PROVE  CompletedIsGrounded'
<1>1. UNCHANGED contract /\ contract \in Contracts
  BY ControllerMoves DEF LoopInv, LoopTypeOK
<1>2. CASE contract.controller # "none"
  <2>1. EvidenceMove
    BY <1>2, EvidenceMoves
  <2>2. CASE status' # "completed"
    BY <2>2 DEF CompletedIsGrounded
  <2>3. CASE status' = "completed"
    <3>1. /\ call \in Recommendations /\ Judge(call)
          /\ \E ok \in BOOLEAN : trace' = Append(trace, Answer(call, 0, ok))
      BY <2>1, <2>3 DEF EvidenceMove
    <3> QED BY <1>1, <1>2, <3>1, GroundedByVerdict
  <2> QED BY <2>2, <2>3
<1>3. CASE contract.controller = "none"
  <2>1. ~contract.refs
    BY <1>1, <1>3, TaskAssumption
  <2>2. status' = "completed" =>
          \E latency \in Latency : Recommend(latency)
    <3>1. pc # "done" /\ status = "running"
      BY ControllerMoves DEF LoopInv, PhaseOK
    <3> QED BY <3>1 DEF Next, BeginTurn, LateTurn, Stream, RunTool, Exhaust, ReadLine,
                 ReadStalls, TurnBreaks, AssemblyFails, TurnCompletes, Observe,
                 CorrectTerminal, ToolCrashes, RefuseTerminal, AfterTool, NextTurn,
                 GoOn, Finish, Workflow
  <2>3. status' = "completed" =>
          call \in Recommendations /\ trace' = Append(trace, Answer(call, 0, TRUE))
    BY <1>3, <2>2 DEF Recommend, AfterTool
  <2>4. trace \in Seq(AnswerType)
    BY DEF LoopInv, LoopTypeOK
  <2>5. status' = "completed" => trace' # << >> /\ Final' \in Recommendations
    BY <2>3, <2>4 DEF Final, Answer
  <2> QED BY <1>1, <1>3, <2>1, <2>5 DEF CompletedIsGrounded, Workflow
<1> QED BY <1>2, <1>3

-----------------------------------------------------------------------------
(* The theorems.                                                           *)

LEMMA InitIInv == Init => IInv
<1> SUFFICES ASSUME Init PROVE IInv
  OBVIOUS
<1>1. ControllerInv
  BY NewControllerFacts
     DEF Init, ControllerInv, StateIsDerived, OpenUntilDone, NewController
<1>2. EvidenceInv
  BY DEF Init, EvidenceInv, NewController
<1>3. CompletedIsGrounded
  BY DEF Init, CompletedIsGrounded
<1> QED BY <1>1, <1>2, <1>3, LoopInit DEF IInv

LEMMA NextIInv == IInv /\ [Next]_vars => IInv' /\ [Progress!Next]_(ctl.state)
<1> SUFFICES ASSUME IInv, [Next]_vars PROVE IInv' /\ [Progress!Next]_(ctl.state)
  OBVIOUS
<1>1. LoopInv'
  BY LoopStep DEF IInv, ControllerInv
<1>2. CASE Next
  BY <1>1, <1>2, ControllerStep, EvidenceStep, GroundedStep DEF IInv
<1>3. CASE UNCHANGED vars
  <2>1. ControllerInv' /\ ctl'.state = ctl.state
    BY <1>3 DEF IInv, vars, ControllerInv, StateIsDerived, OpenUntilDone, DerivedState
  <2>2. EvidenceInv'
    BY <1>3 DEF IInv, vars, EvidenceInv
  <2>3. CompletedIsGrounded'
    BY <1>3 DEF IInv, vars, CompletedIsGrounded, Final, Shown, ShownEvidence, Cited
  <2> QED BY <1>1, <2>1, <2>2, <2>3 DEF IInv
<1> QED BY <1>2, <1>3

\* The inductive invariant of the loop, the controller and the evidence.
THEOREM TaskInvariance == Spec => []IInv
<1> QED BY InitIInv, NextIInv, PTL DEF Spec

\* Every variable keeps its type, for every scenario and budget.
THEOREM TaskTyped == Spec => []TypeOK
<1>1. IInv => TypeOK
  BY DEF IInv, LoopInv, LoopTypeOK, ControllerInv, TypeOK, AnswerType
<1> QED BY <1>1, TaskInvariance, PTL

\* No contract lets a task complete on evidence it was not shown.
THEOREM TaskGrounded == Spec => []CompletedIsGrounded
<1>1. IInv => CompletedIsGrounded
  BY DEF IInv
<1> QED BY <1>1, TaskInvariance, PTL

\* The budget of turns is kept, one call each, for every MaxTurns.
THEOREM TurnBudget == Spec => []OneCallPerTurn
<1>1. IInv => OneCallPerTurn
  BY DEF IInv, LoopInv
<1> QED BY <1>1, TaskInvariance, PTL

\* The deadline is overrun by less than one read timeout, and never by a
\* completed task, for every Deadline and ReadTimeout.
THEOREM DeadlineBounded == Spec => []DeadlineHolds
<1>1. IInv => DeadlineHolds
  BY DEF IInv, LoopInv
<1> QED BY <1>1, TaskInvariance, PTL

\* Every controller implements WorkflowProgress.
THEOREM TaskProgress == Spec => ProgressIsOrderly
<1>1. Init => Progress!Init
  BY DEF Init, NewController, Progress!Init
<1>2. IInv /\ [Next]_vars => [Progress!Next]_(ctl.state)
  BY NextIInv
<1> QED BY <1>1, <1>2, TaskInvariance, PTL DEF Spec, ProgressIsOrderly, Progress!Spec
-----------------------------------------------------------------------------
(* The counts of the summary and the warnings of the last turns.           *)

TerminalAt == {i \in DOMAIN trace : trace[i].call \in Recommendations}
RejectedAt == {i \in DOMAIN trace : trace[i].call \in Recommendations /\ ~trace[i].accepted}

\* The summary's counts are those of the trace. A task that goes on has had
\* every recommendation rejected, and without a controller it has had none.
CountsInv ==
  /\ contract.controller # "none" =>
       /\ Len(ctl.observations) = Len(trace) - Cardinality(TerminalAt)
       /\ ctl.attempts = Cardinality(TerminalAt)
       /\ ctl.rejected = Cardinality(RejectedAt)
  /\ pc # "done" => RejectedAt = TerminalAt
  /\ pc # "done" /\ contract.controller = "none" => TerminalAt = {}

\* The calls among the first n that were answered with the warning.
Warned(n) == IF n + WarningAt < MaxTurns THEN 0
             ELSE MinOf(n, n + WarningAt + 1 - MaxTurns)

\* While the task goes on, each answer of a last turn has carried it.
WarningsInv ==
  contract.controller \in Workflow /\ pc # "done" =>
    /\ ctl.warnings = Warned(Len(trace))
    /\ pc \in {"stream", "tool"} => ctl.turnsLeft = MaxTurns - turn

BookInv == CountsInv /\ WarningsInv /\ CountsMatchTrace /\ ExhaustedWasWarned

Spent == {"no_terminal_recommendation", "workflow_requirements_unmet",
          "direct_evidence_required"}

SameCounts == /\ ctl'.observations = ctl.observations
              /\ ctl'.attempts = ctl.attempts /\ ctl'.rejected = ctl.rejected

\* What a step does to the trace, the counts, and the way the task ends.
BookMove ==
  \/ UNCHANGED trace /\ SameCounts /\ category' \notin Spent
  \/ /\ UNCHANGED trace /\ SameCounts
     /\ pc = "loop" /\ turn = MaxTurns /\ pc' = "done"
     /\ category' = ExhaustionCategory
  \/ /\ call \in Lookups /\ category' \notin Spent
     /\ \E n \in Nat : trace' = Append(trace, Answer(call, n, FALSE))
     /\ contract.controller # "none" =>
          /\ ctl'.observations = Append(ctl.observations, call)
          /\ ctl'.attempts = ctl.attempts /\ ctl'.rejected = ctl.rejected
  \/ /\ call \in Recommendations /\ category' \notin Spent
     /\ trace' = Append(trace, Answer(call, 0, FALSE))
     /\ contract.controller # "none"
     /\ ctl'.observations = ctl.observations
     /\ ctl'.attempts = ctl.attempts + 1 /\ ctl'.rejected = ctl.rejected + 1
  \/ /\ call \in Recommendations /\ category' \notin Spent
     /\ trace' = Append(trace, Answer(call, 0, TRUE)) /\ pc' = "done"
     /\ contract.controller # "none" =>
          /\ ctl'.observations = ctl.observations
          /\ ctl'.attempts = ctl.attempts + 1 /\ ctl'.rejected = ctl.rejected

\* A recommendation the schema refuses is refused by the verdict as well.
LEMMA CorrectedIsRejected ==
  ASSUME contract.controller \in Workflow, ~SchemaOK(call)
  PROVE  ~Judge(call)
BY TaskAssumption DEF SchemaOK, Judge, RefsResolve, Publishable

\* A rejection counts twice and shows nothing.
LEMMA RejectionCounts ==
  ASSUME ctl \in ControllerType, ctl' = Warn(ValidateTerminal(ctl, FALSE))
  PROVE  /\ ctl'.observations = ctl.observations
         /\ ctl'.attempts = ctl.attempts + 1 /\ ctl'.rejected = ctl.rejected + 1
<1> DEFINE c == ValidateTerminal(ctl, FALSE)
<1>1. /\ c \in ControllerType
      /\ c.observations = ctl.observations
      /\ c.attempts = ctl.attempts + 1 /\ c.rejected = ctl.rejected + 1
  BY ValidateTerminalFacts
<1>2. ctl' = Warn(c)
  OBVIOUS
<1> HIDE DEF c
<1>3. /\ ctl'.observations = c.observations
      /\ ctl'.attempts = c.attempts /\ ctl'.rejected = c.rejected
  BY <1>1, <1>2, WarnFacts, Zenon
<1> QED BY <1>1, <1>3

LEMMA AfterToolEnds ==
  ASSUME LoopInv, pc = "tool", NEW latency \in Latency, NEW ok \in BOOLEAN, NEW answer,
         AfterTool(ok, answer, latency)
  PROVE  /\ trace' = Append(trace, answer) /\ category' \notin Spent
         /\ ok => pc' = "done"
BY DEF AfterTool, NextTurn, GoOn, Finish, Spent, LoopInv, PhaseOK

LEMMA BookMoves ==
  ASSUME LoopInv, ControllerInv, Next
  PROVE  BookMove
<1>1. /\ ctl \in ControllerType /\ pc # "done" /\ (pc # "done" => ~ctl.accepted)
      /\ category = "none" /\ category \notin Spent
      /\ turn \in 0 .. MaxTurns /\ TRUE \in BOOLEAN /\ FALSE \in BOOLEAN
  BY ControllerMoves DEF LoopInv, LoopTypeOK, PhaseOK, ControllerInv, OpenUntilDone, Spent
<1>2. CASE BeginTurn
  <2>1. SameCounts
    BY <1>1, <1>2, NoteTurnFacts DEF BeginTurn, SameCounts
  <2>2. UNCHANGED trace /\ category' = category
    BY <1>2 DEF BeginTurn, GoOn
  <2> QED BY <1>1, <2>1, <2>2 DEF BookMove
<1>3. CASE LateTurn
  BY <1>3 DEF LateTurn, Finish, BookMove, SameCounts, Spent
<1>4. CASE Stream
  <2>1. UNCHANGED <<trace, ctl>>
    BY <1>4 DEF Stream, ReadLine, ReadStalls, TurnBreaks, AssemblyFails, TurnCompletes
  <2>2. category' \notin Spent
    BY <1>1, <1>4
       DEF Stream, ReadLine, ReadStalls, TurnBreaks, AssemblyFails, TurnCompletes,
           Finish, GoOn, Spent
  <2> QED BY <2>1, <2>2 DEF BookMove, SameCounts
<1>5. CASE RunTool
  <2>1. ASSUME NEW latency \in Latency, Observe(latency) PROVE BookMove
    <3>1. pc = "tool" /\ call \in Lookups
      BY <2>1 DEF Observe
    <3>2. CASE contract.controller = "none"
      <4>1. AfterTool(FALSE, Answer(call, 0, FALSE), latency)
        BY <2>1, <3>2 DEF Observe
      <4>2. trace' = Append(trace, Answer(call, 0, FALSE)) /\ category' \notin Spent
        BY <1>1, <3>1, <4>1, AfterToolEnds
      <4> QED BY <3>1, <3>2, <4>2 DEF BookMove
    <3>3. CASE contract.controller # "none"
      <4> DEFINE n == Len(ctl.observations) + 1
                 c == Record(ctl, call)
      <4>1. /\ ctl' = Warn(c)
            /\ AfterTool(FALSE, Answer(call, n, FALSE), latency)
        BY <2>1, <3>3 DEF Observe
      <4>2. n \in Nat
        BY <1>1 DEF ControllerType
      <4>3. trace' = Append(trace, Answer(call, n, FALSE)) /\ category' \notin Spent
        BY <1>1, <3>1, <4>1, AfterToolEnds
      <4>4. /\ c \in ControllerType
            /\ c.observations = Append(ctl.observations, call)
            /\ c.attempts = ctl.attempts /\ c.rejected = ctl.rejected
        BY ONLY <1>1, <3>1, RecordFacts, Zenon
      <4> HIDE DEF c, n
      <4>5. /\ ctl'.observations = Append(ctl.observations, call)
            /\ ctl'.attempts = ctl.attempts /\ ctl'.rejected = ctl.rejected
        BY <4>1, <4>4, WarnFacts
      <4> QED BY <3>1, <4>2, <4>3, <4>5 DEF BookMove
    <3> QED BY <3>2, <3>3
  <2>2. ASSUME NEW latency \in Latency, Recommend(latency) PROVE BookMove
    <3>1. pc = "tool" /\ call \in Recommendations
      BY <2>2 DEF Recommend
    <3>2. CASE contract.controller = "none"
      <4>1. AfterTool(TRUE, Answer(call, 0, TRUE), latency)
        BY <2>2, <3>2 DEF Recommend
      <4>2. /\ trace' = Append(trace, Answer(call, 0, TRUE)) /\ category' \notin Spent
            /\ pc' = "done"
        BY <1>1, <3>1, <4>1, AfterToolEnds
      <4> QED BY <3>1, <3>2, <4>2 DEF BookMove
    <3>3. CASE contract.controller # "none" /\ Judge(call)
      <4>1. Judge(call) = TRUE
        BY <3>3 DEF Judge
      <4>2. /\ ctl' = ValidateTerminal(ctl, TRUE)
            /\ AfterTool(TRUE, Answer(call, 0, TRUE), latency)
        BY <2>2, <3>3, <4>1 DEF Recommend
      <4>3. /\ trace' = Append(trace, Answer(call, 0, TRUE)) /\ category' \notin Spent
            /\ pc' = "done"
        BY <1>1, <3>1, <4>2, AfterToolEnds
      <4>4. /\ ctl'.observations = ctl.observations
            /\ ctl'.attempts = ctl.attempts + 1 /\ ctl'.rejected = ctl.rejected
        BY <1>1, <4>2, ValidateTerminalFacts
      <4> QED BY <3>1, <4>3, <4>4 DEF BookMove
    <3>4. CASE contract.controller # "none" /\ ~Judge(call)
      <4>1. Judge(call) = FALSE
        BY <3>4 DEF Judge
      <4>2. /\ ctl' = Warn(ValidateTerminal(ctl, FALSE))
            /\ AfterTool(FALSE, Answer(call, 0, FALSE), latency)
        BY <2>2, <3>4, <4>1 DEF Recommend
      <4>3. trace' = Append(trace, Answer(call, 0, FALSE)) /\ category' \notin Spent
        BY <1>1, <3>1, <4>2, AfterToolEnds
      <4> QED BY <1>1, <3>1, <3>4, <4>2, <4>3, RejectionCounts DEF BookMove
    <3> QED BY <3>2, <3>3, <3>4
  <2>3. ASSUME NEW latency \in Latency, CorrectTerminal(latency) PROVE BookMove
    <3>1. /\ pc = "tool" /\ call \in Recommendations
          /\ contract.controller \in Workflow /\ ~Judge(call)
      BY <2>3, CorrectedIsRejected DEF CorrectTerminal
    <3>2. Judge(call) = FALSE
      BY <3>1 DEF Judge
    <3>3. /\ ctl' = Warn(ValidateTerminal(ctl, FALSE))
          /\ AfterTool(FALSE, Answer(call, 0, FALSE), latency)
      BY <2>3, <3>2 DEF CorrectTerminal
    <3>4. trace' = Append(trace, Answer(call, 0, FALSE)) /\ category' \notin Spent
      BY <1>1, <3>1, <3>3, AfterToolEnds
    <3>5. contract.controller # "none"
      BY <3>1 DEF Workflow
    <3> QED BY <1>1, <3>1, <3>3, <3>4, <3>5, RejectionCounts DEF BookMove
  <2>4. ASSUME NEW latency \in Latency, ToolCrashes(latency) PROVE BookMove
    BY <2>4 DEF ToolCrashes, Finish, BookMove, SameCounts, Spent
  <2>5. CASE RefuseTerminal
    BY <2>5 DEF RefuseTerminal, Finish, BookMove, SameCounts, Spent
  <2> QED BY <1>5, <2>1, <2>2, <2>3, <2>4, <2>5 DEF RunTool
<1>6. CASE Exhaust
  <2>1. SameCounts
    BY <1>1, <1>6, MarkExhaustedFacts DEF Exhaust, SameCounts
  <2> QED BY <1>6, <2>1 DEF Exhaust, Finish, BookMove
<1> QED BY <1>2, <1>3, <1>4, <1>5, <1>6 DEF Next

\* The terminal entries are finitely many, and an answer adds at most one.
LEMMA TerminalsFinite ==
  ASSUME trace \in Seq(AnswerType)
  PROVE  /\ IsFiniteSet(TerminalAt) /\ IsFiniteSet(RejectedAt)
         /\ Cardinality(TerminalAt) \in Nat /\ Cardinality(RejectedAt) \in Nat
         /\ RejectedAt \subseteq TerminalAt
<1>1. IsFiniteSet(DOMAIN trace)
  BY FS_Interval
<1>2. TerminalAt \subseteq DOMAIN trace /\ RejectedAt \subseteq DOMAIN trace
  BY DEF TerminalAt, RejectedAt
<1>3. IsFiniteSet(TerminalAt) /\ IsFiniteSet(RejectedAt)
  BY <1>1, <1>2, FS_Subset
<1>4. RejectedAt \subseteq TerminalAt
  BY DEF TerminalAt, RejectedAt
<1> QED BY <1>3, <1>4, FS_CardinalityType

LEMMA AnswerAdds ==
  ASSUME trace \in Seq(AnswerType), NEW c \in Lookups \cup Recommendations,
         NEW n \in Nat, NEW ok \in BOOLEAN, trace' = Append(trace, Answer(c, n, ok))
  PROVE  /\ Len(trace') = Len(trace) + 1
         /\ c \in Lookups => TerminalAt' = TerminalAt /\ RejectedAt' = RejectedAt
         /\ c \in Recommendations =>
              /\ TerminalAt' = TerminalAt \cup {Len(trace) + 1}
              /\ Cardinality(TerminalAt') = Cardinality(TerminalAt) + 1
              /\ IF ok THEN RejectedAt' = RejectedAt
                 ELSE /\ RejectedAt' = RejectedAt \cup {Len(trace) + 1}
                      /\ Cardinality(RejectedAt') = Cardinality(RejectedAt) + 1
<1> DEFINE m == Len(trace) + 1
<1>1. /\ DOMAIN trace' = DOMAIN trace \cup {m} /\ m \notin DOMAIN trace
      /\ \A i \in DOMAIN trace : trace'[i] = trace[i]
      /\ trace'[m].call = c /\ trace'[m].accepted = ok
      /\ Len(trace') = m
  BY DEF Answer
<1>2. m \notin TerminalAt /\ m \notin RejectedAt
  BY <1>1 DEF TerminalAt, RejectedAt
<1> HIDE DEF m
<1>3. TerminalAt' = IF c \in Recommendations THEN TerminalAt \cup {m} ELSE TerminalAt
  BY <1>1 DEF TerminalAt
<1>4. RejectedAt' = IF c \in Recommendations /\ ~ok THEN RejectedAt \cup {m} ELSE RejectedAt
  BY <1>1 DEF RejectedAt
<1>5. /\ Cardinality(TerminalAt \cup {m}) = Cardinality(TerminalAt) + 1
      /\ Cardinality(RejectedAt \cup {m}) = Cardinality(RejectedAt) + 1
  BY <1>2, TerminalsFinite, FS_AddElement
<1>6. c \in Lookups => c \notin Recommendations
  BY CallsApart
<1> QED BY <1>1, <1>3, <1>4, <1>5, <1>6 DEF m

\* The counts of the property are those of the invariant.
LEMMA CountsAreEntries ==
  /\ Entries(IsTerminal) = Cardinality(TerminalAt)
  /\ Entries(IsRejected) = Cardinality(RejectedAt)
  /\ Entries(IsTerminal)' = Cardinality(TerminalAt)'
  /\ Entries(IsRejected)' = Cardinality(RejectedAt)'
BY DEF Entries, IsTerminal, IsRejected, TerminalAt, RejectedAt

LEMMA CountsStep ==
  ASSUME LoopInv, ControllerInv, CountsInv, Next
  PROVE  CountsInv' /\ CountsMatchTrace'
<1>1. /\ trace \in Seq(AnswerType) /\ Len(trace) \in Nat /\ pc # "done"
      /\ ctl.observations \in Seq(Lookups) /\ Len(ctl.observations) \in Nat
      /\ UNCHANGED contract /\ BookMove /\ ctl.rejected \in Nat
  BY BookMoves, ControllerMoves DEF LoopInv, LoopTypeOK, ControllerInv, ControllerType
<1>2. /\ RejectedAt = TerminalAt
      /\ contract.controller = "none" => TerminalAt = {}
      /\ Cardinality(TerminalAt) \in Nat /\ Cardinality(RejectedAt) \in Nat
      /\ TerminalAt = {} => Cardinality(TerminalAt) = 0
      /\ Cardinality(TerminalAt) = 0 => TerminalAt = {}
  BY <1>1, TerminalsFinite, FS_EmptySet DEF CountsInv
<1>3. CASE UNCHANGED trace /\ SameCounts
  <2>1. UNCHANGED <<TerminalAt, RejectedAt>>
    BY <1>3 DEF TerminalAt, RejectedAt
  <2>2. CountsInv'
    BY <1>1, <1>2, <1>3, <2>1 DEF CountsInv, SameCounts
  <2>3. CASE category' \notin Spent
    BY <2>2, <2>3, CountsAreEntries DEF CountsInv, CountsMatchTrace, Spent
  <2>4. CASE category' = ExhaustionCategory
    <3>1. CASE category' = "no_terminal_recommendation"
      <4>a. contract.controller \in {"none", "grounding"} \cup Workflow
        BY TaskAssumption DEF LoopInv, LoopTypeOK, Controllers
      <4>b. contract.controller # "none" => ~(ctl.rejected > 0)
        BY <2>4, <3>1, <4>a DEF ExhaustionCategory
      <4>c. contract.controller # "none" => Cardinality(TerminalAt) = 0
        BY <1>1, <1>2, <4>b DEF CountsInv
      <4>1. TerminalAt = {}
        BY <1>2, <4>c
      <4> QED BY <1>2, <2>1, <2>2, <3>1, <4>1, CountsAreEntries DEF CountsInv, CountsMatchTrace
    <3>2. CASE category' # "no_terminal_recommendation"
      <4>1. ctl.rejected > 0 /\ contract.controller # "none"
        BY <2>4, <3>2 DEF ExhaustionCategory, Workflow
      <4> QED BY <1>2, <2>1, <2>2, <3>2, <4>1, CountsAreEntries
                 DEF CountsInv, CountsMatchTrace
    <3> QED BY <3>1, <3>2
  <2> QED BY <1>1, <1>3, <2>3, <2>4 DEF BookMove
<1>4. CASE /\ category' \notin Spent /\ call \in Lookups
           /\ \E n \in Nat : trace' = Append(trace, Answer(call, n, FALSE))
           /\ contract.controller # "none" =>
                /\ ctl'.observations = Append(ctl.observations, call)
                /\ ctl'.attempts = ctl.attempts /\ ctl'.rejected = ctl.rejected
  <2>1. /\ Len(trace') = Len(trace) + 1 /\ UNCHANGED <<TerminalAt, RejectedAt>>
    BY <1>1, <1>4, AnswerAdds
  <2>2. contract.controller # "none" =>
          Len(ctl'.observations) = Len(ctl.observations) + 1
    BY <1>1, <1>4
  <2>3. CountsInv'
    BY <1>1, <1>2, <1>4, <2>1, <2>2 DEF CountsInv
  <2> QED BY <1>4, <2>3, CountsAreEntries DEF CountsInv, CountsMatchTrace, Spent
<1>5. CASE /\ category' \notin Spent /\ call \in Recommendations
           /\ trace' = Append(trace, Answer(call, 0, FALSE))
           /\ contract.controller # "none"
           /\ ctl'.observations = ctl.observations
           /\ ctl'.attempts = ctl.attempts + 1 /\ ctl'.rejected = ctl.rejected + 1
  <2>1. /\ Len(trace') = Len(trace) + 1 /\ RejectedAt' = TerminalAt'
        /\ Cardinality(TerminalAt') = Cardinality(TerminalAt) + 1
        /\ Cardinality(RejectedAt') = Cardinality(RejectedAt) + 1
    BY <1>1, <1>2, <1>5, AnswerAdds
  <2>2. CountsInv'
    BY <1>1, <1>2, <1>5, <2>1 DEF CountsInv
  <2> QED BY <1>5, <2>2, CountsAreEntries DEF CountsInv, CountsMatchTrace, Spent
<1>6. CASE /\ category' \notin Spent /\ call \in Recommendations
           /\ trace' = Append(trace, Answer(call, 0, TRUE)) /\ pc' = "done"
           /\ contract.controller # "none" =>
                /\ ctl'.observations = ctl.observations
                /\ ctl'.attempts = ctl.attempts + 1 /\ ctl'.rejected = ctl.rejected
  <2>1. /\ Len(trace') = Len(trace) + 1 /\ RejectedAt' = RejectedAt
        /\ Cardinality(TerminalAt') = Cardinality(TerminalAt) + 1
    BY <1>1, <1>6, AnswerAdds
  <2>2. CountsInv'
    BY <1>1, <1>2, <1>6, <2>1 DEF CountsInv
  <2> QED BY <1>6, <2>2, CountsAreEntries DEF CountsInv, CountsMatchTrace, Spent
<1> QED BY <1>1, <1>3, <1>4, <1>5, <1>6 DEF BookMove

\* A call of the last turns is warned, one before them is not.
LEMMA WarnedStep ==
  ASSUME NEW n \in 0 .. MaxTurns - 1
  PROVE  /\ Warned(0) = 0
         /\ Warned(n + 1) = IF MaxTurns - (n + 1) <= WarningAt THEN Warned(n) + 1 ELSE Warned(n)
         /\ Warned(MaxTurns) = MinOf(WarningAt + 1, MaxTurns)
BY TaskAssumption DEF Warned, MinOf

\* A tool call that leaves the task open warned, and none exhausts the budget.
LEMMA ToolNeverExhausts ==
  ASSUME ctl \in ControllerType, ~ctl.exhausted, RunTool
  PROVE  ~ctl'.exhausted
<1>0. TRUE \in BOOLEAN /\ FALSE \in BOOLEAN
  OBVIOUS
<1>1. ASSUME call \in Lookups
      PROVE  Record(ctl, call) \in ControllerType /\ ~Record(ctl, call).exhausted
  BY <1>1, RecordFacts
<1>2. ASSUME NEW ok \in BOOLEAN
      PROVE  /\ ValidateTerminal(ctl, ok) \in ControllerType
             /\ ~ValidateTerminal(ctl, ok).exhausted
  BY ValidateTerminalFacts
<1>3. Judge(call) \in BOOLEAN
  BY DEF Judge
<1>4. \/ UNCHANGED ctl
      \/ call \in Lookups /\ ctl' = Warn(Record(ctl, call))
      \/ \E ok \in BOOLEAN : ctl' = ValidateTerminal(ctl, ok)
      \/ \E ok \in BOOLEAN : ctl' = Warn(ValidateTerminal(ctl, ok))
  BY <1>3 DEF RunTool, Observe, Recommend, CorrectTerminal, ToolCrashes, RefuseTerminal
<1>5. \A c \in ControllerType : ~c.exhausted => ~Warn(c).exhausted
  BY WarnFacts
<1> QED BY <1>1, <1>2, <1>4, <1>5

LEMMA ToolWarns ==
  ASSUME LoopInv, ctl \in ControllerType, RunTool, contract.controller \in Workflow,
         pc' # "done"
  PROVE  /\ pc = "tool" /\ pc' = "loop" /\ UNCHANGED turn
         /\ \E c : ctl' = Warn(c) /\ c \in ControllerType
                   /\ c.warnings = ctl.warnings /\ c.turnsLeft = ctl.turnsLeft
<1>1. contract.controller # "none"
  BY DEF Workflow
<1>2. ASSUME NEW latency \in Latency, Observe(latency)
      PROVE  /\ pc = "tool" /\ pc' = "loop" /\ UNCHANGED turn
             /\ call \in Lookups /\ ctl' = Warn(Record(ctl, call))
  BY <1>1, <1>2 DEF Observe, AfterTool, NextTurn, GoOn, Finish
<1>3. ASSUME NEW latency \in Latency, Recommend(latency) \/ CorrectTerminal(latency)
      PROVE  /\ pc = "tool" /\ pc' = "loop" /\ UNCHANGED turn
             /\ ctl' = Warn(ValidateTerminal(ctl, FALSE))
  <2>1. Judge(call) \in BOOLEAN
    BY DEF Judge
  <2>2. CASE Judge(call) = TRUE
    BY <1>1, <1>3, <2>2 DEF Recommend, CorrectTerminal, AfterTool, NextTurn, GoOn, Finish
  <2>3. CASE Judge(call) = FALSE
    BY <1>1, <1>3, <2>3 DEF Recommend, CorrectTerminal, AfterTool, NextTurn, GoOn, Finish
  <2> QED BY <2>1, <2>2, <2>3
<1>4. ~RefuseTerminal /\ \A latency \in Latency : ~ToolCrashes(latency)
  BY DEF RefuseTerminal, ToolCrashes, Finish
<1>5. \/ /\ pc = "tool" /\ pc' = "loop" /\ UNCHANGED turn
         /\ call \in Lookups /\ ctl' = Warn(Record(ctl, call))
      \/ /\ pc = "tool" /\ pc' = "loop" /\ UNCHANGED turn
         /\ ctl' = Warn(ValidateTerminal(ctl, FALSE))
  BY <1>2, <1>3, <1>4 DEF RunTool
<1>6. call \in Lookups =>
        /\ Record(ctl, call) \in ControllerType
        /\ Record(ctl, call).warnings = ctl.warnings
        /\ Record(ctl, call).turnsLeft = ctl.turnsLeft
  BY RecordFacts
<1>7. FALSE \in BOOLEAN
  OBVIOUS
<1>8. /\ ValidateTerminal(ctl, FALSE) \in ControllerType
      /\ ValidateTerminal(ctl, FALSE).warnings = ctl.warnings
      /\ ValidateTerminal(ctl, FALSE).turnsLeft = ctl.turnsLeft
  BY <1>7, ValidateTerminalFacts
<1> QED BY <1>5, <1>6, <1>8

LEMMA WarningsStep ==
  ASSUME LoopInv, LoopInv', ControllerInv, WarningsInv, ExhaustedWasWarned, Next
  PROVE  WarningsInv' /\ ExhaustedWasWarned'
<1>1. /\ ctl \in ControllerType /\ ~ctl.accepted /\ ~ctl.exhausted /\ pc # "done"
      /\ UNCHANGED contract /\ turn \in 0 .. MaxTurns /\ trace \in Seq(AnswerType)
      /\ TRUE \in BOOLEAN /\ FALSE \in BOOLEAN
  BY ControllerMoves DEF LoopInv, LoopTypeOK, ControllerInv, OpenUntilDone
<1>2. CASE BeginTurn
  <2>1. /\ turn < MaxTurns /\ ctl' = NoteTurn(ctl) /\ turn' = turn + 1 /\ UNCHANGED trace
    BY <1>2 DEF BeginTurn
  <2>2. /\ ~ctl'.exhausted /\ ctl'.warnings = ctl.warnings
        /\ contract.controller \in Workflow => ctl'.turnsLeft = MaxTurns - turn'
    BY <1>1, <2>1, NoteTurnFacts, TaskAssumption
  <2> QED BY <1>1, <2>1, <2>2 DEF WarningsInv, ExhaustedWasWarned
<1>3. CASE LateTurn \/ Stream
  <2>1. UNCHANGED <<trace, ctl, turn>> /\ (pc' = "done" \/ pc = "stream")
    BY <1>3 DEF LateTurn, Stream, ReadLine, ReadStalls, TurnBreaks, AssemblyFails,
                TurnCompletes, Finish
  <2> QED BY <1>1, <2>1 DEF WarningsInv, ExhaustedWasWarned
<1>4. CASE RunTool
  <2>1. ~ctl'.exhausted
    BY <1>1, <1>4, ToolNeverExhausts
  <2>2. CASE pc' = "done" \/ contract.controller \notin Workflow
    BY <1>1, <2>1, <2>2 DEF WarningsInv, ExhaustedWasWarned
  <2>3. CASE pc' # "done" /\ contract.controller \in Workflow
    <3>1. /\ pc = "tool" /\ pc' = "loop" /\ UNCHANGED turn
          /\ \E c : ctl' = Warn(c) /\ c \in ControllerType
                    /\ c.warnings = ctl.warnings /\ c.turnsLeft = ctl.turnsLeft
      BY <1>1, <1>4, <2>3, ToolWarns
    <3>2. ctl'.warnings = IF ctl.turnsLeft <= WarningAt THEN ctl.warnings + 1
                          ELSE ctl.warnings
      BY <2>3, <3>1, WarnFacts
    <3>3. turn = Len(trace) + 1 /\ ctl.turnsLeft = MaxTurns - turn
          /\ ctl.warnings = Warned(Len(trace))
      BY <2>3, <3>1 DEF LoopInv, PhaseOK, WarningsInv
    <3>4. Len(trace') = turn
      BY <3>1 DEF LoopInv, PhaseOK
    <3>5. Len(trace) \in 0 .. MaxTurns - 1
      BY <1>1, <3>3, TaskAssumption
    <3> QED BY <1>1, <2>1, <3>1, <3>2, <3>3, <3>4, <3>5, WarnedStep
               DEF WarningsInv, ExhaustedWasWarned
  <2> QED BY <2>2, <2>3
<1>5. CASE Exhaust
  <2>1. /\ turn = MaxTurns /\ pc = "loop" /\ pc' = "done" /\ ctl' = MarkExhausted(ctl)
        /\ Len(trace) = MaxTurns
    BY <1>5 DEF Exhaust, Finish, LoopInv, PhaseOK
  <2>2. ctl'.warnings = ctl.warnings
    BY <1>1, <2>1, MarkExhaustedFacts
  <2>3. CASE contract.controller \in Workflow
    <3>1. ctl.warnings = Warned(MaxTurns)
      BY <1>1, <2>1, <2>3 DEF WarningsInv
    <3>2. 0 \in 0 .. MaxTurns - 1
      BY TaskAssumption
    <3>3. Warned(MaxTurns) = MinOf(WarningAt + 1, MaxTurns)
      BY <3>2, WarnedStep
    <3> QED BY <2>1, <2>2, <3>1, <3>3 DEF WarningsInv, ExhaustedWasWarned
  <2>4. CASE contract.controller \notin Workflow
    <3>1. ctl' = ctl
      BY <1>1, <2>1, <2>4, MarkExhaustedFacts
    <3> QED BY <1>1, <2>1, <3>1 DEF WarningsInv, ExhaustedWasWarned
  <2> QED BY <2>3, <2>4
<1> QED BY <1>2, <1>3, <1>4, <1>5 DEF Next

LEMMA BookInit == Init => BookInv
<1> SUFFICES ASSUME Init PROVE BookInv
  OBVIOUS
<1>1. /\ TerminalAt = {} /\ RejectedAt = {} /\ Cardinality(TerminalAt) = 0
      /\ Cardinality(RejectedAt) = 0 /\ Len(trace) = 0
  BY FS_EmptySet DEF Init, TerminalAt, RejectedAt
<1>2. /\ ctl.observations = << >> /\ ctl.attempts = 0 /\ ctl.rejected = 0
      /\ ctl.warnings = 0 /\ ~ctl.exhausted
  BY DEF Init, NewController
<1>3. CountsInv
  BY <1>1, <1>2 DEF CountsInv
<1>4. CountsMatchTrace
  BY <1>3, CountsAreEntries DEF CountsInv, CountsMatchTrace, Init
<1>5. 0 \in 0 .. MaxTurns - 1
  BY TaskAssumption
<1>6. WarningsInv /\ ExhaustedWasWarned
  BY <1>1, <1>2, <1>5, WarnedStep DEF WarningsInv, ExhaustedWasWarned, Init
<1> QED BY <1>3, <1>4, <1>6 DEF BookInv

LEMMA BookStep == IInv /\ IInv' /\ BookInv /\ [Next]_vars => BookInv'
<1> SUFFICES ASSUME IInv, IInv', BookInv, [Next]_vars PROVE BookInv'
  OBVIOUS
<1>1. CASE Next
  BY <1>1, CountsStep, WarningsStep DEF IInv, BookInv
<1>2. CASE UNCHANGED vars
  <2>1. UNCHANGED <<contract, pc, turn, trace, category, ctl>>
    BY <1>2 DEF vars
  <2>2. UNCHANGED <<TerminalAt, RejectedAt>>
    BY <2>1 DEF TerminalAt, RejectedAt
  <2>3. CountsInv' /\ CountsMatchTrace'
    BY <2>1, <2>2, CountsAreEntries DEF BookInv, CountsInv, CountsMatchTrace
  <2>4. WarningsInv' /\ ExhaustedWasWarned'
    BY <2>1 DEF BookInv, WarningsInv, ExhaustedWasWarned
  <2> QED BY <2>3, <2>4 DEF BookInv
<1> QED BY <1>1, <1>2

LEMMA Bookkeeping == Spec => []BookInv
<1>1. Spec => []IInv
  BY TaskInvariance
<1> QED BY <1>1, BookInit, BookStep, PTL DEF Spec

\* The counts of the result are those of the tool trace, and the category of a
\* spent budget says whether anything was rejected, for every MaxTurns.
THEOREM TaskCounted == Spec => []CountsMatchTrace
<1>1. BookInv => CountsMatchTrace
  BY DEF BookInv
<1> QED BY <1>1, Bookkeeping, PTL

\* A workflow task that runs out of turns was warned in each of the last ones,
\* whatever the budget and the point at which the warnings begin.
THEOREM TaskWarned == Spec => []ExhaustedWasWarned
<1>1. BookInv => ExhaustedWasWarned
  BY DEF BookInv
<1> QED BY <1>1, Bookkeeping, PTL
-----------------------------------------------------------------------------
(* A task is finite: every step brings its end nearer.                     *)

\* The steps a task can still take, at most: three of every turn to come, what
\* is left of the turn under way, and one for every tick until the last read
\* must have returned.
OfThisTurn == CASE pc = "stream" -> 2 [] pc = "tool" -> 1 [] OTHER -> 0
StepsLeft ==
  IF pc = "done" THEN 0
  ELSE 1 + 3 * (MaxTurns - turn) + OfThisTurn + (Deadline + ReadTimeout - now)

LEMMA StepsLeftIsCount ==
  ASSUME LoopInv
  PROVE  /\ StepsLeft \in Nat
         /\ pc # "done" => StepsLeft > 0
         /\ StepsLeft <= 3 + 3 * MaxTurns + Deadline + ReadTimeout
<1>1. /\ MaxTurns \in Nat /\ Deadline \in Nat /\ ReadTimeout \in Nat
      /\ turn \in 0 .. MaxTurns /\ now \in Nat /\ now < Deadline + ReadTimeout
  BY TaskAssumption DEF LoopInv, LoopTypeOK, DeadlineHolds
<1>2. OfThisTurn \in 0 .. 2
  BY DEF OfThisTurn
<1> QED BY <1>1, <1>2 DEF StepsLeft

\* Reaching the end costs what was left; another turn or tick costs one.
LEMMA EndUsesUp ==
  ASSUME LoopInv, pc # "done", pc' = "done"
  PROVE  StepsLeft' < StepsLeft
<1>1. StepsLeft' = 0
  BY DEF StepsLeft
<1> QED BY <1>1, StepsLeftIsCount

LEMMA AfterToolUsesUp ==
  ASSUME LoopInv, pc = "tool", NEW latency \in Latency,
         NEW ok, NEW answer, AfterTool(ok, answer, latency)
  PROVE  StepsLeft' < StepsLeft
<1>1. CASE pc' = "done"
  BY <1>1, EndUsesUp
<1>2. CASE pc' # "done"
  <2>1. pc' = "loop" /\ turn' = turn /\ now' = now + latency
    BY <1>2 DEF AfterTool, Finish, NextTurn, GoOn
  <2>2. /\ MaxTurns \in Nat /\ Deadline \in Nat /\ ReadTimeout \in Nat
        /\ turn \in Nat /\ now \in Nat /\ latency \in Nat
    BY TaskAssumption DEF LoopInv, LoopTypeOK, Latency
  <2> QED BY <2>1, <2>2 DEF StepsLeft, OfThisTurn
<1> QED BY <1>1, <1>2

LEMMA StepUsesUp ==
  ASSUME LoopInv, Next
  PROVE  StepsLeft' < StepsLeft
<1>1. /\ MaxTurns \in Nat /\ Deadline \in Nat /\ ReadTimeout \in Nat
      /\ turn \in 0 .. MaxTurns /\ now \in Nat /\ readLimit \in Nat
  BY TaskAssumption DEF LoopInv, LoopTypeOK
<1>2. CASE BeginTurn
  <2>1. pc = "loop" /\ pc' = "stream" /\ turn' = turn + 1 /\ now' = now
    BY <1>2 DEF BeginTurn, GoOn
  <2> QED BY <1>1, <2>1 DEF StepsLeft, OfThisTurn
<1>3. CASE LateTurn
  <2>1. pc # "done" /\ pc' = "done"
    BY <1>3 DEF LateTurn, Finish
  <2> QED BY <2>1, EndUsesUp
<1>4. CASE Stream
  <2>1. ASSUME NEW wait \in 1 .. readLimit, ReadLine(wait)
        PROVE  StepsLeft' < StepsLeft
    <3>1. pc = "stream" /\ turn' = turn /\ now' = now + wait
          /\ pc' \in {"done", "stream"}
      BY <2>1 DEF ReadLine, Finish, GoOn
    <3>2. CASE pc' = "done"
      BY <3>1, <3>2, EndUsesUp
    <3>3. CASE pc' = "stream"
      BY <1>1, <3>1, <3>3 DEF StepsLeft, OfThisTurn
    <3> QED BY <3>1, <3>2, <3>3
  <2>2. ASSUME \/ ReadStalls
               \/ \E wait \in 0 .. readLimit : TurnBreaks(wait) \/ AssemblyFails(wait)
        PROVE  StepsLeft' < StepsLeft
    <3>1. pc # "done" /\ pc' = "done"
      BY <2>2 DEF ReadStalls, TurnBreaks, AssemblyFails, Finish
    <3> QED BY <3>1, EndUsesUp
  <2>3. ASSUME NEW c \in Lookups \cup Recommendations, TurnCompletes(c)
        PROVE  StepsLeft' < StepsLeft
    <3>1. pc = "stream" /\ pc' = "tool" /\ turn' = turn /\ now' = now
      BY <2>3 DEF TurnCompletes, GoOn
    <3> QED BY <1>1, <3>1 DEF StepsLeft, OfThisTurn
  <2> QED BY <1>4, <2>1, <2>2, <2>3 DEF Stream
<1>5. CASE RunTool
  <2>1. ASSUME NEW latency \in Latency, Observe(latency)
        PROVE  StepsLeft' < StepsLeft
    BY <2>1, AfterToolUsesUp DEF Observe
  <2>2. ASSUME NEW latency \in Latency, Recommend(latency)
        PROVE  StepsLeft' < StepsLeft
    BY <2>2, AfterToolUsesUp DEF Recommend
  <2>3. ASSUME NEW latency \in Latency, CorrectTerminal(latency)
        PROVE  StepsLeft' < StepsLeft
    <3>1. CASE Judge(call)
      <4>1. pc # "done" /\ pc' = "done"
        BY <2>3, <3>1 DEF CorrectTerminal, Finish
      <4> QED BY <4>1, EndUsesUp
    <3>2. CASE ~Judge(call)
      BY <2>3, <3>2, AfterToolUsesUp DEF CorrectTerminal
    <3> QED BY <3>1, <3>2
  <2>4. ASSUME RefuseTerminal \/ \E latency \in Latency : ToolCrashes(latency)
        PROVE  StepsLeft' < StepsLeft
    <3>1. pc # "done" /\ pc' = "done"
      BY <2>4 DEF RefuseTerminal, ToolCrashes, Finish
    <3> QED BY <3>1, EndUsesUp
  <2> QED BY <1>5, <2>1, <2>2, <2>3, <2>4 DEF RunTool
<1>6. CASE Exhaust
  <2>1. pc # "done" /\ pc' = "done"
    BY <1>6 DEF Exhaust, Finish
  <2> QED BY <2>1, EndUsesUp
<1> QED BY <1>2, <1>3, <1>4, <1>5, <1>6 DEF Next

\* run_task ends after a bounded number of steps, whatever the endpoint and the
\* tools do: at any moment the steps to come are at most StepsLeft. (That the
\* next of them is taken is the fairness of LiveSpec.)
THEOREM TaskIsFinite ==
  Spec => /\ [](StepsLeft \in 0 .. (3 + 3 * MaxTurns + Deadline + ReadTimeout))
          /\ [][StepsLeft' < StepsLeft]_vars
          /\ [](StepsLeft = 0 <=> status # "running")
<1>1. IInv => /\ StepsLeft \in 0 .. (3 + 3 * MaxTurns + Deadline + ReadTimeout)
              /\ StepsLeft = 0 <=> status # "running"
  <2> SUFFICES ASSUME IInv
               PROVE  /\ StepsLeft \in 0 .. (3 + 3 * MaxTurns + Deadline + ReadTimeout)
                      /\ StepsLeft = 0 <=> status # "running"
    OBVIOUS
  <2>1. LoopInv /\ (pc = "done" <=> status # "running")
    BY DEF IInv, LoopInv, PhaseOK
  <2>2. pc = "done" => StepsLeft = 0
    BY DEF StepsLeft
  <2>3. /\ MaxTurns \in Nat /\ Deadline \in Nat /\ ReadTimeout \in Nat
    BY TaskAssumption
  <2> QED BY <2>1, <2>2, <2>3, StepsLeftIsCount
<1>2. IInv /\ [Next]_vars => [StepsLeft' < StepsLeft]_vars
  BY StepUsesUp DEF IInv
<1> QED BY <1>1, <1>2, TaskInvariance, PTL DEF Spec
=============================================================================
