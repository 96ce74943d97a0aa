----------------------------- MODULE MCGrading -----------------------------
(***************************************************************************)
(* The outcomes a stage of MCGrading is made of, and block sizes on both   *)
(* sides of every threshold of the code.                                   *)
(***************************************************************************)
EXTENDS Grading

Good ==
  [status |-> "completed", category |-> "none", fails |-> {}, calls |-> 3,
   ttft |-> "fast", prompt |-> TRUE, late |-> FALSE, usage |-> TRUE]
Error(c) ==
  [Good EXCEPT !.status = "error", !.category = c, !.fails = 1..10, !.calls = 1,
               !.prompt = FALSE]

TheOutcomes ==
  {Good,
   [Good EXCEPT !.fails = {1}],
   [Good EXCEPT !.fails = 1..10],
   [Good EXCEPT !.ttft = "slow", !.prompt = FALSE],
   [Good EXCEPT !.ttft = "none", !.prompt = FALSE, !.late = TRUE],
   [Good EXCEPT !.usage = FALSE, !.prompt = FALSE],
   [Error("endpoint_error") EXCEPT !.calls = 0, !.ttft = "none"],
   Error("invalid_tool_name"),
   Error("invalid_tool_arguments"),
   Error("malformed_tool_call"),
   Error("agent_runtime_error"),
   [Error("task_timeout") EXCEPT !.status = "timeout"]}

TheCuts == {2, 3, 8, 10, 11, 80}
=============================================================================
