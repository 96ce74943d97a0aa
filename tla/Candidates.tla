----------------------------- MODULE Candidates -----------------------------
(***************************************************************************)
(* The closed candidate tables of the qualification protocol and what they *)
(* admit: which workload, controller and treatments a candidate executes,  *)
(* where its tasks come from, which candidate is whose same-session        *)
(* control, and which private configuration a command accepts for a cell.  *)
(* Prompts, digests and pins that never vary are one Boolean (pinned).     *)
(***************************************************************************)
EXTENDS Integers, FiniteSets

WORKFLOW_CANDIDATES == {"W1", "W2"}
SUCCESSOR_WORKFLOW_CANDIDATES == {"W3", "W4"}
STRUCTURED_EVIDENCE_CANDIDATES == {"W5", "W6"}
CATALOG_EVIDENCE_CANDIDATES == {"W7", "W8", "W9", "W10", "W11"}
AUTHORIZED_CANDIDATES == {"C1", "C2", "P1", "P2", "P2C"}

WorkflowFamily ==
  WORKFLOW_CANDIDATES \cup SUCCESSOR_WORKFLOW_CANDIDATES
    \cup STRUCTURED_EVIDENCE_CANDIDATES \cup CATALOG_EVIDENCE_CANDIDATES
ALL_AUTHORIZED_CANDIDATES == AUTHORIZED_CANDIDATES \cup WorkflowFamily

AUTHORIZED_STAGES == {"development", "holdout", "freeze"}

WorkloadVersion(c) ==
  CASE c \in {"C1", "C2"} -> "2.4.0"
    [] c = "P1" -> "2.4.1"
    [] c \in {"P2", "P2C"} -> "2.5.0"
    [] c = "W1" -> "2.6.0"   [] c = "W2" -> "2.6.1"
    [] c = "W3" -> "2.7.0"   [] c = "W4" -> "2.7.1"
    [] c = "W5" -> "2.8.0"   [] c = "W6" -> "2.8.1"
    [] c = "W7" -> "2.9.0"   [] c = "W8" -> "2.10.0"
    [] c = "W9" -> "2.11.0"  [] c = "W10" -> "2.12.0"
    [] c = "W11" -> "2.13.0"

(* What the workload itself binds, and what the candidate table claims.    *)
BoundController(v) ==
  CASE v \in {"2.4.0", "2.4.1"} -> "none"
    [] v = "2.5.0" -> "evidence-grounding-v1"
    [] v \in {"2.6.0", "2.6.1"} -> "workflow-controller-v1"
    [] v \in {"2.7.0", "2.7.1"} -> "workflow-controller-v2"
    [] OTHER -> "workflow-controller-v3"

Controller(c) ==
  CASE c \in {"C1", "C2", "P1"} -> "none"
    [] c \in {"P2", "P2C"} -> "evidence-grounding-v1"
    [] c \in WORKFLOW_CANDIDATES -> "workflow-controller-v1"
    [] c \in SUCCESSOR_WORKFLOW_CANDIDATES -> "workflow-controller-v2"
    [] OTHER -> "workflow-controller-v3"

Treatments(c) == IF c \in {"W2", "W4", "W6"} THEN {"evidence-refs"} ELSE {}
Temperature(c) == IF c = "C1" THEN 10 ELSE 2           \* tenths
RequiresSealedSet(c, s) == c = "P2" /\ s \in {"development", "holdout"}
IsCatalogCandidate(c) == c \in {"C1", "C2", "P1", "P2C"} \cup WorkflowFamily
CANARY_CANDIDATES == {c \in ALL_AUTHORIZED_CANDIDATES : IsCatalogCandidate(c)}

EvidenceContract(c) ==
  CASE c \in STRUCTURED_EVIDENCE_CANDIDATES -> "development-catalog"
    [] c \in CATALOG_EVIDENCE_CANDIDATES -> "full-catalog"
    [] OTHER -> "none"

CONTROL_PAIRS == {<<"P1", "P2C">>, <<"W1", "W2">>, <<"W3", "W4">>, <<"W5", "W6">>}
ControlFor(c) == {p[1] : p \in {q \in CONTROL_PAIRS : q[2] = c}}
IsTreatment(c) == ControlFor(c) # {}
IsControl(c) == \E p \in CONTROL_PAIRS : p[1] = c

StageTasks(s) == IF s = "freeze" THEN 200 ELSE IF s = "canary" THEN 10 ELSE 20

-----------------------------------------------------------------------------
(* The pair contracts, re-derived before any client exists.                *)

PairContract(k, t) ==
  /\ Temperature(k) = Temperature(t)
  /\ \A s \in AUTHORIZED_STAGES : ~RequiresSealedSet(k, s) /\ ~RequiresSealedSet(t, s)
  /\ ~IsTreatment(k)
  /\ ControlFor(t) = {k}
  /\ k # "P1" => /\ Controller(k) = Controller(t)
                 /\ Treatments(k) = {} /\ Treatments(t) = {"evidence-refs"}

ContractHolds(c) ==
  /\ Controller(c) = BoundController(WorkloadVersion(c))
  /\ c = "P2C" => PairContract("P1", "P2C")
  /\ c \in WorkflowFamily => PairContract("W1", "W2")
  /\ c \in WorkflowFamily \ WORKFLOW_CANDIDATES => PairContract("W3", "W4")
  /\ c \in STRUCTURED_EVIDENCE_CANDIDATES \cup CATALOG_EVIDENCE_CANDIDATES =>
       PairContract("W5", "W6")

-----------------------------------------------------------------------------
(* The private configuration of one command.  A field a configuration may  *)
(* omit is "absent"; steering is any key that would select, override or    *)
(* privatise the task schedule, the prompt or the evaluator.               *)

Optional(S) == S \cup {"absent"}

AcceptsSealed(cfg, c, s) ==
  IF RequiresSealedSet(c, s) THEN cfg.sealed = s ELSE cfg.sealed = "absent"

AcceptsControl(cfg, c, s) == cfg.control <=> (IsTreatment(c) /\ s = "development")

AcceptsFamily(cfg, c) ==
  /\ c = "P2C" \/ c \in WorkflowFamily => ~cfg.steering
  /\ EvidenceContract(c) # "none" => cfg.contract = EvidenceContract(c)

ConfigAccepted(cfg, c, s) ==
  /\ cfg.pinned
  /\ cfg.candidate = c
  /\ cfg.version \in Optional({WorkloadVersion(c)})
  /\ cfg.controller \in Optional({Controller(c)})
  /\ cfg.tasks \in {0, StageTasks(s)}                   \* 0: omitted
  /\ AcceptsFamily(cfg, c)
  /\ AcceptsSealed(cfg, c, s)
  /\ AcceptsControl(cfg, c, s)
  /\ ContractHolds(c)

(* A canary accepts a qualification configuration without control, sealed  *)
(* or schedule keys, validated as a holdout cell of the same candidate.    *)
CanaryAccepted(cfg, c) ==
  /\ c \in CANARY_CANDIDATES
  /\ ~cfg.control /\ ~cfg.steering /\ cfg.sealed = "absent"
  /\ cfg.tasks \in {0, StageTasks("canary")}
  /\ ConfigAccepted([cfg EXCEPT !.tasks = 0], c, "holdout")

(* The baseline names its candidate's exact workload and contract; its view *)
(* through the historical matrix validator is the Boolean pinned.          *)
BaselineAccepted(cfg, c) ==
  /\ c \in CATALOG_EVIDENCE_CANDIDATES
  /\ cfg.pinned /\ ~cfg.steering
  /\ cfg.candidate = c
  /\ cfg.version = WorkloadVersion(c)
  /\ cfg.contract = EvidenceContract(c)

(* After the start event: the assembled cell must be the catalog cell of   *)
(* its stage, and W5 and W6 have metadata for the development catalog only. *)
CatalogExecution(c, s) ==
  c \in STRUCTURED_EVIDENCE_CANDIDATES => s \in {"development", "canary"}
=============================================================================
