--------------------------- MODULE Qualification ---------------------------
(***************************************************************************)
(* The qualification protocol of one run tag: qualify-agent, canary-agent  *)
(* and the admission of qualified-baseline, typed into several terminals   *)
(* over one results directory, with the audit of verify-results.           *)
(*                                                                         *)
(* Nothing locks the directory.  A command reads the ledger three times    *)
(* (gate, capture, revalidation), rewrites the whole session record twice, *)
(* and publishes its outcome in up to four files; another command, an      *)
(* operator who replaces the ledger, and a crash fall between any two.     *)
(* Files hold digests of one another: a digest is the number of the run or *)
(* the name of the ledger it was taken from.                               *)
(***************************************************************************)
EXTENDS Candidates

CONSTANTS Terminals, Labels, Hosts,
          Ledgers,         \* the genuine ledgers that ever exist for this run tag
          LedgerResource,  \* ledger -> the instance it records
          Reconciled,      \* the ledgers that pass every lifecycle gate
          Jobs,            \* environment: the <<candidate, stage>> pairs typed
          Configs,         \* environment: the private configurations at hand
          MaxRuns,         \* environment: commands typed in all
          MaxMoves,        \* environment: changes to ledger.json and pending.json
          None

ASSUME QualificationAssumption ==
  /\ LedgerResource \in [Ledgers -> Hosts]
  /\ Reconciled \subseteq Ledgers
  /\ Jobs \subseteq ALL_AUTHORIZED_CANDIDATES \X (AUTHORIZED_STAGES \cup {"canary", "baseline"})
  /\ MaxRuns \in Nat /\ MaxMoves \in Nat
  /\ None \notin Ledgers \cup Hosts \cup Nat

Runs == 1..MaxRuns
Cells == Labels \X Jobs                    \* output_label: run label and job
ControlKeys == Labels \X {p[1] : p \in CONTROL_PAIRS}

VARIABLES ledger, pending,  \* ledger.json (None: absent) and pending.json
          moves,            \* ledger and pending changes so far
          session,          \* terminal events of session.json
          results,          \* cell -> runs with a persisted *.result.json
          failed,           \* cells with a *.failure.json beside the results
          markers,          \* {label}-failure.json per artifact family
          receipts,         \* cell -> {cell}-receipt.json
          controls,         \* label, control candidate -> *-control.json
          cmd,              \* terminal -> the command it is executing
          machine,          \* run -> the instance the command executed on
          freezeOf,         \* run -> the freeze run a baseline was admitted on
          swapped           \* history, read by no action: the runs whose gate and
                            \* capture read ledgers of two different instances

files == <<session, results, failed, markers, receipts, controls>>
vars == <<ledger, pending, moves, session, results, failed, markers, receipts,
          controls, cmd, machine, freezeOf, swapped>>

-----------------------------------------------------------------------------

Points == {"gate", "capture", "admit", "start", "started", "enter", "measure",
           "judge", "receipt", "end", "ended", "mint", "bind", "failing"}

Event == [run : Runs, label : Labels, job : Jobs, stopped : BOOLEAN]
Control == [run : Runs, result : Runs, event : Runs, ledger : Ledgers]
Receipt == [run : Runs, stopped : BOOLEAN, matched : Control \cup {None},
            identity : Hosts, ledger : Ledgers]

Idle == [at |-> "idle", run |-> None, label |-> None, job |-> None,
         gate |-> None, snap |-> None, matched |-> None, seen |-> {},
         stopped |-> FALSE, control |-> None]

Command == [at : Points, run : Runs, label : Labels, job : Jobs,
            gate : Ledgers \cup {None}, snap : Ledgers \cup {None},
            matched : Control \cup {None}, seen : SUBSET Event,
            stopped : BOOLEAN, control : Control \cup {None}]

TypeOK ==
  /\ ledger \in Ledgers \cup {None}
  /\ pending \in BOOLEAN
  /\ moves \in 0..MaxMoves
  /\ session \subseteq Event
  /\ results \in [Cells -> SUBSET Runs]
  /\ failed \subseteq Cells
  /\ markers \subseteq {"qualification", "canary", "baseline"} \X Labels
  /\ receipts \in [Cells -> Receipt \cup {None}]
  /\ controls \in [ControlKeys -> Control \cup {None}]
  /\ cmd \in [Terminals -> Command \cup {Idle}]
  /\ machine \in [Runs -> Hosts \cup {None}]
  /\ freezeOf \in [Runs -> Runs \cup {None}]
  /\ swapped \subseteq Runs

Cand(t) == cmd[t].job[1]
Stage(t) == cmd[t].job[2]
CellOf(t) == <<cmd[t].label, cmd[t].job>>
(* Mutant: the failure marker is filed under the stage.                       *)
StageMarker(stage) == stage

Family(stage) == CASE stage = "canary" -> "canary"
                   [] stage = "baseline" -> "baseline"
                   [] OTHER -> "qualification"

Development(c) == <<c, "development">>
IsControlJob(job) == job[2] = "development" /\ IsControl(job[1])
IsTreatmentJob(job) == job[2] = "development" /\ IsTreatment(job[1])
InPair(job) == IsControlJob(job) \/ IsTreatmentJob(job)

Step(t, p) == cmd' = [cmd EXCEPT ![t].at = p]
Leave(t) == cmd' = [cmd EXCEPT ![t] = Idle]

-----------------------------------------------------------------------------
(* What the files say. *)

(* pilot_blockers finds nothing, and equally capture_development_session.   *)
LedgerReady == ledger \in Reconciled /\ ~pending

ControlEvents(c) == {e \in session : e.job = Development(c)}

(* The single completed, and no stopped, development event of the control; *)
(* its label is compared, whose run it reports is not.                     *)
CompletionEvent(c, label, e) ==
  /\ ControlEvents(c) = {e}
  /\ ~e.stopped
  /\ e.label = label

FailureMarker(c, label) ==
  \/ <<"qualification", label>> \in markers
  \/ <<label, Development(c)>> \in failed

(* Mutant: any result of the cell, not the only one.                          *)
SomeResult(c, label, run) ==
  /\ ~FailureMarker(c, label)
  /\ run \in results[<<label, Development(c)>>]

(* _result_bytes: the one result of the control's cell.                    *)
SoleResult(c, label, run) ==
  /\ ~FailureMarker(c, label)
  /\ results[<<label, Development(c)>>] = {run}

CompletedReceipt(cell, run) ==
  /\ receipts[cell] # None
  /\ receipts[cell].run = run
  /\ ~receipts[cell].stopped

BoundCompletion(c, label, k) ==
  /\ CompletedReceipt(<<label, Development(c)>>, k.run)
  /\ \E e \in session : CompletionEvent(c, label, e) /\ e.run = k.event

(* authenticate_matched_development_control, for a section that names the  *)
(* digests of the control record of this label.                            *)
Authenticates(c, label) ==
  LET k == controls[<<label, c>>] IN
  /\ k # None
  /\ LedgerReady /\ k.ledger = ledger
  /\ SoleResult(c, label, k.result)
  /\ BoundCompletion(c, label, k)

(* Mutant: the audit compares no ledger.                                      *)
AuditOfAnyLedger(label, c) ==
  LET k == controls[<<label, c>>] IN
  k # None => BoundCompletion(c, label, k)

(* audit_matched_controls: results have receipts, every control is whole   *)
(* and of the ledger of today, every treatment names a control that is.    *)
AuditedControl(label, c) ==
  LET k == controls[<<label, c>>] IN
  k # None =>
    /\ LedgerReady /\ k.ledger = ledger
    /\ results[<<label, Development(c)>>] = {k.result}
    /\ BoundCompletion(c, label, k)

AuditedTreatment(cell) ==
  /\ results[cell] # {} => receipts[cell] # None
  /\ receipts[cell] # None =>
       \E key \in ControlKeys :
         /\ <<key[2], cell[2][1]>> \in CONTROL_PAIRS
         /\ controls[key] # None /\ receipts[cell].matched = controls[key]
         /\ LedgerReady /\ LedgerResource[controls[key].ledger] = LedgerResource[ledger]
         /\ BoundCompletion(key[2], key[1], controls[key])

AuditPasses ==
  /\ \A key \in ControlKeys : AuditedControl(key[1], key[2])
  /\ \A cell \in Cells : IsTreatmentJob(cell[2]) => AuditedTreatment(cell)

-----------------------------------------------------------------------------
(* The environment: the operator replaces ledger.json with another genuine *)
(* ledger (reconcile, confirm-deletion, a copy), or pending.json comes and *)
(* goes with an apply or a destroy.                                        *)

ReplaceLedger ==
  /\ moves < MaxMoves
  /\ moves' = moves + 1
  /\ \E l \in Ledgers \ {ledger} : ledger' = l
  /\ UNCHANGED <<pending, files, cmd, machine, freezeOf, swapped>>

TogglePending ==
  /\ moves < MaxMoves
  /\ moves' = moves + 1
  /\ pending' = ~pending
  /\ UNCHANGED <<ledger, files, cmd, machine, freezeOf, swapped>>

-----------------------------------------------------------------------------
(* One command. *)

FreshRun == {r \in Runs : machine[r] = None /\ \A q \in Runs : q < r => machine[q] # None}

(* Everything refused before the results directory is touched.             *)
ConfigFor(job, cfg) ==
  CASE job[2] = "canary" -> CanaryAccepted(cfg, job[1])
    [] job[2] = "baseline" -> BaselineAccepted(cfg, job[1])
    [] OTHER -> ConfigAccepted(cfg, job[1], job[2])

Enter(t, r, h, label, job, matched) ==
  /\ machine' = [machine EXCEPT ![r] = h]
  /\ cmd' = [cmd EXCEPT ![t] =
       [Idle EXCEPT !.at = "gate", !.run = r, !.label = label, !.job = job,
                    !.matched = matched]]

Begin(t) ==
  /\ cmd[t] = Idle
  /\ \E r \in FreshRun, h \in Hosts, label \in Labels, job \in Jobs :
       /\ \E cfg \in Configs : ConfigFor(job, cfg)
       /\ IsControlJob(job) => LedgerReady
       /\ IF IsTreatmentJob(job)
          THEN \E c \in ControlFor(job[1]), other \in Labels \ {label} :
                 /\ Authenticates(c, other)
                 /\ Enter(t, r, h, label, job, controls[<<other, c>>])
          ELSE Enter(t, r, h, label, job, None)
  /\ UNCHANGED <<ledger, pending, moves, files, freezeOf, swapped>>

(* The ledger object read here is the one provenance compares with later.  *)
AfterGate(t) ==
  CASE InPair(cmd[t].job) -> "capture"
    [] Stage(t) = "baseline" -> "admit"
    [] OTHER -> "start"

PassGate(t) ==
  /\ LedgerReady
  /\ cmd' = [cmd EXCEPT ![t].gate = ledger, ![t].at = AfterGate(t)]

StageBlocked(t) ==
  /\ ~LedgerReady /\ Family(Stage(t)) = "qualification"
  /\ Step(t, "failing")

CanaryBlocked(t) ==
  /\ ~LedgerReady /\ Stage(t) = "canary"
  /\ Step(t, "failing")

BaselineBlocked(t) ==                       \* refused without a marker
  /\ ~LedgerReady /\ Stage(t) = "baseline"
  /\ Leave(t)

Gate(t) ==
  /\ cmd[t].at = "gate"
  /\ PassGate(t) \/ StageBlocked(t) \/ CanaryBlocked(t) \/ BaselineBlocked(t)
  /\ UNCHANGED <<ledger, pending, moves, files, machine, freezeOf, swapped>>

(* Mutant: the ledger of the matched control is not compared again.           *)
AnyControlLedger(t) == TRUE

(* capture_development_session, which reads the ledger anew, and for a     *)
(* treatment require_snapshot_matches_control; a refusal here writes       *)
(* nothing.  What is captured is not compared with what the gate read.     *)
MatchesControl(t) == cmd[t].matched # None => cmd[t].matched.ledger = ledger

Capture(t) ==
  /\ cmd[t].at = "capture"
  /\ IF LedgerReady /\ MatchesControl(t)
     THEN /\ cmd' = [cmd EXCEPT ![t].snap = ledger, ![t].at = "start"]
          /\ swapped' = IF LedgerResource[ledger] = LedgerResource[cmd[t].gate]
                        THEN swapped ELSE swapped \cup {cmd[t].run}
     ELSE Leave(t) /\ UNCHANGED swapped
  /\ UNCHANGED <<ledger, pending, moves, files, machine, freezeOf>>

(* Mutant: the freeze may be of another instance.                             *)
FreezeOfAnyHost(t, cell) ==
  /\ receipts[cell] # None
  /\ ~receipts[cell].stopped
  /\ cell \notin failed
  /\ results[cell] = {receipts[cell].run}

(* authenticate_freeze, against the ledger object of the gate.             *)
FreezeVerified(t, cell) ==
  /\ receipts[cell] # None
  /\ ~receipts[cell].stopped
  /\ receipts[cell].identity = LedgerResource[cmd[t].gate]
  /\ cell \notin failed
  /\ results[cell] = {receipts[cell].run}

(* The approved session budget may refuse after the freeze is verified.    *)
Admit(t) ==
  /\ cmd[t].at = "admit"
  /\ \/ \E label \in Labels :
          LET cell == <<label, <<Cand(t), "freeze">>>> IN
          /\ cell \in Cells /\ FreezeVerified(t, cell)
          /\ freezeOf' = [freezeOf EXCEPT ![cmd[t].run] = receipts[cell].run]
          /\ \/ Step(t, "start")
             \/ Step(t, "failing")
     \/ Leave(t) /\ UNCHANGED freezeOf
  /\ UNCHANGED <<ledger, pending, moves, files, machine, swapped>>

(* record_session_event: read the file, append, replace the file.  The     *)
(* start event itself is read by nobody; what its rewrite does to the      *)
(* events of the other terminals matters.                                  *)
ReadSession(t) ==
  /\ cmd[t].at \in {"start", "end"}
  /\ cmd' = [cmd EXCEPT ![t].seen = session,
                        ![t].at = IF cmd[t].at = "start" THEN "started" ELSE "ended"]
  /\ UNCHANGED <<ledger, pending, moves, files, machine, freezeOf, swapped>>

WriteStarted(t) ==
  /\ cmd[t].at = "started"
  /\ session' = cmd[t].seen
  /\ cmd' = [cmd EXCEPT ![t].seen = {}, ![t].at = "enter"]
  /\ UNCHANGED <<ledger, pending, moves, results, failed, markers, receipts,
                 controls, machine, freezeOf, swapped>>

(* Mutant: the instance is taken from the configuration, not observed.        *)
TrustingProvenance(t) == TRUE

(* verify_live_provenance, the execution contract, and the refusal of      *)
(* run_real_cell to overwrite a cell that already holds results.           *)
LiveProvenance(t) == machine[cmd[t].run] = LedgerResource[cmd[t].gate]

EnterCell(t) ==
  /\ cmd[t].at = "enter"
  /\ IF LiveProvenance(t) /\ CatalogExecution(Cand(t), Stage(t)) /\ results[CellOf(t)] = {}
     THEN Step(t, "measure")
     ELSE Step(t, "failing")
  /\ UNCHANGED <<ledger, pending, moves, files, machine, freezeOf, swapped>>

Measure(t) ==
  /\ cmd[t].at = "measure"
  /\ results' = [results EXCEPT ![CellOf(t)] = @ \cup {cmd[t].run}]
  /\ Step(t, "judge")
  /\ UNCHANGED <<ledger, pending, moves, session, failed, markers, receipts,
                 controls, machine, freezeOf, swapped>>

(* A measured pass leaves an explicit failure record; a warm-up none.      *)
MeasurementFails(t) ==
  /\ cmd[t].at = "measure"
  /\ failed' \in {failed, failed \cup {CellOf(t)}}
  /\ Step(t, "failing")
  /\ UNCHANGED <<ledger, pending, moves, session, results, markers, receipts,
                 controls, machine, freezeOf, swapped>>

(* Evidence, semantics and thresholds of the command; a qualification      *)
(* stage then calls revalidate_development_session.                        *)
SessionUnchanged(t) == cmd[t].snap # None => LedgerReady /\ ledger = cmd[t].snap

Verdict(t, stopped, p) ==
  cmd' = [cmd EXCEPT ![t].stopped = stopped, ![t].at = p]

StageJudged(t) ==
  /\ Family(Stage(t)) = "qualification"
  /\ SessionUnchanged(t)
  /\ \E stopped \in BOOLEAN : Verdict(t, stopped, "receipt")

CanaryJudged(t) ==
  /\ Stage(t) = "canary"
  /\ \E stopped \in BOOLEAN : Verdict(t, stopped, "receipt")

BaselineJudged(t) ==                        \* no receipt of its own
  /\ Stage(t) = "baseline"
  /\ Verdict(t, FALSE, "end")

Judge(t) ==
  /\ cmd[t].at = "judge"
  /\ StageJudged(t) \/ CanaryJudged(t) \/ BaselineJudged(t) \/ Step(t, "failing")
  /\ UNCHANGED <<ledger, pending, moves, files, machine, freezeOf, swapped>>

(* identity is of the ledger read at the gate, ledger of the file as it is *)
(* now; only catalog-evidence receipts carry the two.                      *)
WriteReceipt(t) ==
  /\ cmd[t].at = "receipt"
  /\ receipts' = [receipts EXCEPT ![CellOf(t)] =
       [run |-> cmd[t].run, stopped |-> cmd[t].stopped, matched |-> cmd[t].matched,
        identity |-> LedgerResource[cmd[t].gate], ledger |-> ledger]]
  /\ Step(t, "end")
  /\ UNCHANGED <<ledger, pending, moves, session, results, failed, markers,
                 controls, machine, freezeOf, swapped>>

Terminal(t) == [run |-> cmd[t].run, label |-> cmd[t].label, job |-> cmd[t].job,
                stopped |-> cmd[t].stopped]

Mints(t) == IsControlJob(cmd[t].job) /\ ~cmd[t].stopped

WriteEnded(t) ==
  /\ cmd[t].at = "ended"
  /\ session' = cmd[t].seen \cup {Terminal(t)}
  /\ IF Mints(t)
     THEN cmd' = [cmd EXCEPT ![t].seen = {}, ![t].at = "mint"]
     ELSE Leave(t)
  /\ UNCHANGED <<ledger, pending, moves, results, failed, markers, receipts,
                 controls, machine, freezeOf, swapped>>

(* persist_completed_p1_development_control: every check, the result last, *)
(* then the record.                                                        *)
Binding(t, k) ==
  /\ k.ledger = cmd[t].snap
  /\ SessionUnchanged(t)
  /\ k.run = cmd[t].run /\ CompletedReceipt(CellOf(t), k.run)
  /\ \E e \in session : CompletionEvent(Cand(t), cmd[t].label, e) /\ k.event = e.run
  /\ SoleResult(Cand(t), cmd[t].label, k.result)

Mint(t) ==
  /\ cmd[t].at = "mint"
  /\ \/ \E k \in Control :
          /\ Binding(t, k)
          /\ cmd' = [cmd EXCEPT ![t].control = k, ![t].at = "bind"]
     \/ /\ \A k \in Control : ~Binding(t, k)
        /\ Step(t, "failing")
  /\ UNCHANGED <<ledger, pending, moves, files, machine, freezeOf, swapped>>

WriteControl(t) ==
  /\ cmd[t].at = "bind"
  /\ controls' = [controls EXCEPT ![<<cmd[t].label, Cand(t)>>] = cmd[t].control]
  /\ Leave(t)
  /\ UNCHANGED <<ledger, pending, moves, session, results, failed, markers,
                 receipts, machine, freezeOf, swapped>>

(* _qualify_stop, _canary_stop, _mvl_stop: one marker per run label.       *)
WriteMarker(t) ==
  /\ cmd[t].at = "failing"
  /\ markers' = markers \cup {<<Family(Stage(t)), cmd[t].label>>}
  /\ Leave(t)
  /\ UNCHANGED <<ledger, pending, moves, session, results, failed, receipts,
                 controls, machine, freezeOf, swapped>>

(* The process, its terminal or its machine goes away.                     *)
Crash(t) ==
  /\ cmd[t] # Idle
  /\ Leave(t)
  /\ UNCHANGED <<ledger, pending, moves, files, machine, freezeOf, swapped>>

-----------------------------------------------------------------------------

Init ==
  /\ ledger \in Ledgers \cup {None} /\ pending = FALSE /\ moves = 0
  /\ session = {}
  /\ results = [cell \in Cells |-> {}]
  /\ failed = {} /\ markers = {}
  /\ receipts = [cell \in Cells |-> None]
  /\ controls = [k \in ControlKeys |-> None]
  /\ cmd = [t \in Terminals |-> Idle]
  /\ machine = [r \in Runs |-> None]
  /\ freezeOf = [r \in Runs |-> None]
  /\ swapped = {}

Progress(t) ==
  \/ Begin(t) \/ Gate(t) \/ Capture(t) \/ Admit(t)
  \/ ReadSession(t) \/ WriteStarted(t) \/ EnterCell(t)
  \/ Measure(t) \/ MeasurementFails(t) \/ Judge(t)
  \/ WriteReceipt(t) \/ WriteEnded(t) \/ Mint(t) \/ WriteControl(t)
  \/ WriteMarker(t) \/ Crash(t)

Next ==
  \/ ReplaceLedger \/ TogglePending
  \/ \E t \in Terminals : Progress(t)

Spec == Init /\ [][Next]_vars

-----------------------------------------------------------------------------
(* Properties.                                                             *)

StoredControls == {k \in {controls[key] : key \in ControlKeys} : k # None}

(* What matched_control.py promises: the record binds the ledger "observed  *)
(* before live provenance", and a ledger replaced during measurement is    *)
(* never bound.  The code does not keep it: provenance compares with the   *)
(* ledger the gate read, the record binds the one the capture read, and    *)
(* the two reads are not compared.                                         *)
ControlMeasuredOnBoundResource ==
  \A k \in StoredControls : machine[k.run] = LedgerResource[k.ledger]

(* What it does keep, however often the ledger is replaced before, between *)
(* and after the reads: a control record binds the resource its            *)
(* measurement really executed on unless its own gate and capture read     *)
(* ledgers of two different instances.                                     *)
ControlBoundUnlessSwapped ==
  \A k \in StoredControls :
    k.run \notin swapped => machine[k.run] = LedgerResource[k.ledger]

(* The result, the receipt and the terminal event a control record digests *)
(* are of one execution, also when two commands of one label overlap and   *)
(* when the rewriting of session.json loses events.                        *)
ControlFromOneRun ==
  \A k \in StoredControls : k.result = k.run /\ k.event = k.run

(* A treatment receipt names a matched control; it was measured on the     *)
(* instance that control binds, unless the treatment's own two reads       *)
(* differed, and on the instance the control was measured on, unless those *)
(* of either did.                                                          *)
TreatmentComparable ==
  \A cell \in Cells : IsTreatmentJob(cell[2]) /\ receipts[cell] # None =>
    LET r == receipts[cell] IN
    /\ r.matched # None
    /\ r.run \notin swapped => machine[r.run] = LedgerResource[r.matched.ledger]
    /\ {r.run, r.matched.run} \cap swapped = {} => machine[r.run] = machine[r.matched.run]

(* What verify-results accepts: each control in the directory was judged   *)
(* complete, and each control and each treatment receipt was measured on   *)
(* the resource of the ledger of today, unless its own two reads differed. *)
AuditSound ==
  AuditPasses =>
    /\ \A key \in ControlKeys : controls[key] # None =>
         /\ ~receipts[<<key[1], Development(key[2])>>].stopped
         /\ controls[key].run \notin swapped =>
              machine[controls[key].run] = LedgerResource[ledger]
    /\ \A cell \in Cells : IsTreatmentJob(cell[2]) /\ receipts[cell] # None =>
         (receipts[cell].run \notin swapped =>
            machine[receipts[cell].run] = LedgerResource[ledger])

(* A baseline that persisted results executed on the instance on which the *)
(* freeze it was admitted on was measured, though the ledger and the       *)
(* freeze's files may have changed since.                                  *)
BaselineOnFreezeHost ==
  \A r \in Runs : freezeOf[r] # None /\ (\E cell \in Cells : r \in results[cell]) =>
    machine[r] = machine[freezeOf[r]]
=============================================================================
