-------------------------- MODULE WorkflowProgress --------------------------
(***************************************************************************)
(* What a workflow controller promises about one task, as its state alone: *)
(* evidence and runbook are collected in either order, a recommendation is *)
(* accepted only once both are there, acceptance and exhaustion are final. *)
(* Task implements it (src/blackwell_lab/workload/workflow.py).            *)
(***************************************************************************)
VARIABLE progress

Collected == {"investigating", "evidence_collected", "runbook_retrieved",
              "ready_for_terminal"}
States == Collected \cup {"terminal_accepted", "budget_exhausted"}

\* A log observation or a runbook moves the task one step towards readiness.
Gains == {<<"investigating", "evidence_collected">>,
          <<"investigating", "runbook_retrieved">>,
          <<"evidence_collected", "ready_for_terminal">>,
          <<"runbook_retrieved", "ready_for_terminal">>}

Init == progress = "investigating"

Gain == <<progress, progress'>> \in Gains
Accept == progress = "ready_for_terminal" /\ progress' = "terminal_accepted"
Exhaust == progress \in Collected /\ progress' = "budget_exhausted"

Next == Gain \/ Accept \/ Exhaust

Spec == Init /\ [][Next]_progress
=============================================================================
