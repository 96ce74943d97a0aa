------------------------ MODULE QualificationProofs ------------------------
(***************************************************************************)
(* Safety of the qualification protocol for any number of terminals, runs, *)
(* labels, hosts, ledgers and replacements of the ledger.  What a command  *)
(* holds in memory (CommandInv) is tied to the instance it executes on and *)
(* to the files it will still write; the files (FileInv) are tied to one   *)
(* another and to the instances they were measured on.                     *)
(***************************************************************************)
EXTENDS Qualification, TLAPS

Running(t) == cmd[t].at # "idle"
Measured == {"judge", "receipt", "end", "ended", "mint", "bind"}
Entered == Measured \cup {"measure"}
Captured == Entered \cup {"start", "started", "enter"}

(* A control is of one execution; the ledger it binds is of the resource   *)
(* of that execution unless the execution's two reads of it differed.      *)
Bound(k) == /\ machine[k.run] \in Hosts
            /\ k.run \notin swapped => machine[k.run] = LedgerResource[k.ledger]
            /\ k.result = k.run /\ k.event = k.run

Backed(e) == e.run \in results[<<e.label, e.job>>]

(* One execution has one command.                                          *)
RunsApart == \A t, u \in Terminals :
  t # u /\ Running(t) /\ Running(u) => cmd[t].run # cmd[u].run

(* Past its gate a command holds a ledger, and there is one.               *)
LedgerRead == \A t \in Terminals :
  cmd[t].at \in Captured \cup {"capture", "admit"} =>
    cmd[t].gate \in Ledgers /\ ledger \in Ledgers

(* The ledgers a command has read.                                         *)
ReadInv(t) ==
  /\ cmd[t].at = "admit" => ~InPair(cmd[t].job)
  /\ cmd[t].at \in Captured /\ InPair(cmd[t].job) =>
       /\ cmd[t].snap \in Ledgers
       /\ cmd[t].run \notin swapped =>
            LedgerResource[cmd[t].snap] = LedgerResource[cmd[t].gate]

(* The control a treatment was admitted on, and the one a command writes.  *)
MatchInv(t) ==
  /\ IsTreatmentJob(cmd[t].job) =>
       cmd[t].matched \in Control /\ cmd[t].matched # None /\ Bound(cmd[t].matched)
  /\ IsTreatmentJob(cmd[t].job) /\ cmd[t].at \in Captured =>
       cmd[t].matched.ledger = cmd[t].snap
  /\ cmd[t].at \in {"mint", "bind"} => IsControlJob(cmd[t].job)
  /\ cmd[t].at = "bind" => cmd[t].control \in Control /\ Bound(cmd[t].control)

(* Where the command executes, and what of its run is already on disk.     *)
RunInv(t) ==
  /\ machine[cmd[t].run] \in Hosts
  /\ cmd[t].at \in Entered => machine[cmd[t].run] = LedgerResource[cmd[t].gate]
  /\ cmd[t].at \in Measured => cmd[t].run \in results[CellOf(t)]
  /\ cmd[t].at \notin Measured \cup {"failing"} =>
       \A cell \in Cells : cmd[t].run \notin results[cell]
  /\ \A e \in cmd[t].seen : Backed(e)

(* A baseline's freeze was measured on the resource of its ledger.         *)
FreezeInv(t) ==
  cmd[t].at # "failing" /\ freezeOf[cmd[t].run] # None =>
    /\ cmd[t].at \in Captured
    /\ machine[freezeOf[cmd[t].run]] = LedgerResource[cmd[t].gate]

CommandInv == \A t \in Terminals : Running(t) =>
  ReadInv(t) /\ MatchInv(t) /\ RunInv(t) /\ FreezeInv(t)

Unused == \A r \in Runs : machine[r] = None =>
  freezeOf[r] = None /\ \A cell \in Cells : r \notin results[cell]

SessionBacked == \A e \in session : Backed(e)

ControlsBound == \A key \in ControlKeys : controls[key] # None => Bound(controls[key])

ReceiptsPlaced == \A cell \in Cells : receipts[cell] # None =>
  machine[receipts[cell].run] = receipts[cell].identity

TreatmentsBound == \A cell \in Cells : IsTreatmentJob(cell[2]) /\ receipts[cell] # None =>
  LET r == receipts[cell] IN
  /\ r.matched \in Control /\ r.matched # None /\ Bound(r.matched)
  /\ r.run \notin swapped => machine[r.run] = LedgerResource[r.matched.ledger]

FileInv ==
  Unused /\ SessionBacked /\ ControlsBound /\ ReceiptsPlaced /\ TreatmentsBound
    /\ BaselineOnFreezeHost

TypeInv == TypeOK /\ LedgerRead

IInv == TypeInv /\ RunsApart /\ CommandInv /\ FileInv

-----------------------------------------------------------------------------
(* Shapes. *)

LEMMA IdleOrCommand ==
  ASSUME TypeOK, NEW t \in Terminals, Running(t)
  PROVE  cmd[t] \in Command /\ cmd[t] # Idle
BY DEF TypeOK, Running, Idle

LEMMA ControlKeyOf ==
  ASSUME NEW c, NEW l \in Labels, IsControl(c)
  PROVE  <<l, c>> \in ControlKeys
BY DEF IsControl, ControlKeys

LEMMA ControlForKey ==
  ASSUME NEW c, NEW k \in ControlFor(c), NEW l \in Labels
  PROVE  <<l, k>> \in ControlKeys
BY DEF ControlFor, ControlKeys

LEMMA CellOfInCells ==
  ASSUME TypeOK, NEW t \in Terminals, Running(t)
  PROVE  CellOf(t) \in Cells
BY IdleOrCommand DEF CellOf, Cells, Command

-----------------------------------------------------------------------------
(* Type correctness. *)

LEMMA StepType ==
  ASSUME TypeOK, NEW t \in Terminals, cmd[t] \in Command,
         NEW p \in Points, Step(t, p)
  PROVE  cmd' \in [Terminals -> Command \cup {Idle}]
<1>1. [cmd[t] EXCEPT !.at = p] \in Command
  BY DEF Command
<1> QED BY <1>1 DEF TypeOK, Step

LEMMA LeaveType ==
  ASSUME TypeOK, NEW t \in Terminals, Leave(t)
  PROVE  cmd' \in [Terminals -> Command \cup {Idle}]
BY DEF TypeOK, Leave

(* A step to another point, or to the idle command, field by field.        *)
Keeps(t) ==
  /\ cmd'[t].run = cmd[t].run /\ cmd'[t].label = cmd[t].label
  /\ cmd'[t].job = cmd[t].job /\ cmd'[t].matched = cmd[t].matched

LEMMA StepFields ==
  ASSUME TypeOK, NEW t \in Terminals, cmd[t] \in Command, NEW p, Step(t, p)
  PROVE  /\ Keeps(t) /\ cmd'[t].at = p
         /\ cmd'[t].gate = cmd[t].gate /\ cmd'[t].snap = cmd[t].snap
         /\ cmd'[t].seen = cmd[t].seen /\ cmd'[t].control = cmd[t].control
         /\ \A u \in Terminals \ {t} : cmd'[u] = cmd[u]
BY DEF TypeOK, Step, Command, Keeps

LEMMA LeaveFields ==
  ASSUME TypeOK, NEW t \in Terminals, Leave(t)
  PROVE  /\ ~Running(t)' /\ cmd'[t].at = "idle"
         /\ \A u \in Terminals \ {t} : cmd'[u] = cmd[u]
BY DEF TypeOK, Leave, Idle, Running

(* What each step does to the command that takes it, when it stays.        *)
LEMMA GateFields ==
  ASSUME TypeOK, NEW t \in Terminals, cmd[t] \in Command, Gate(t)
  PROVE  \/ /\ LedgerReady /\ Keeps(t) /\ cmd'[t].at = AfterGate(t)
            /\ cmd'[t].gate = ledger /\ cmd'[t].seen = cmd[t].seen
         \/ Leave(t)
         \/ Step(t, "failing")
BY DEF TypeOK, Gate, PassGate, StageBlocked, CanaryBlocked, BaselineBlocked, Command, Keeps

LEMMA CaptureFields ==
  ASSUME TypeOK, NEW t \in Terminals, cmd[t] \in Command, Capture(t)
  PROVE  \/ /\ LedgerReady /\ MatchesControl(t)
            /\ Keeps(t) /\ cmd'[t].at = "start" /\ cmd'[t].snap = ledger
            /\ cmd'[t].gate = cmd[t].gate /\ cmd'[t].seen = cmd[t].seen
         \/ Leave(t)
BY DEF TypeOK, Capture, Command, Keeps

LEMMA ReadSessionFields ==
  ASSUME TypeOK, NEW t \in Terminals, cmd[t] \in Command, ReadSession(t)
  PROVE  /\ Keeps(t) /\ cmd'[t].seen = session
         /\ cmd'[t].at = (IF cmd[t].at = "start" THEN "started" ELSE "ended")
         /\ cmd'[t].gate = cmd[t].gate /\ cmd'[t].snap = cmd[t].snap
BY DEF TypeOK, ReadSession, Command, Keeps

LEMMA WriteStartedFields ==
  ASSUME TypeOK, NEW t \in Terminals, cmd[t] \in Command, WriteStarted(t)
  PROVE  /\ Keeps(t) /\ cmd'[t].seen = {} /\ cmd'[t].at = "enter"
         /\ cmd'[t].gate = cmd[t].gate /\ cmd'[t].snap = cmd[t].snap
BY DEF TypeOK, WriteStarted, Command, Keeps

LEMMA JudgeFields ==
  ASSUME TypeOK, NEW t \in Terminals, cmd[t] \in Command, Judge(t)
  PROVE  \/ Step(t, "failing")
         \/ /\ Keeps(t) /\ cmd'[t].at \in {"receipt", "end"} /\ cmd'[t].seen = cmd[t].seen
            /\ cmd'[t].gate = cmd[t].gate /\ cmd'[t].snap = cmd[t].snap
<1>1. CASE ~Step(t, "failing")
  <2>1. PICK b \in BOOLEAN, p \in {"receipt", "end"} :
          cmd' = [cmd EXCEPT ![t].stopped = b, ![t].at = p]
    BY <1>1 DEF Judge, StageJudged, CanaryJudged, BaselineJudged, Verdict
  <2>2. cmd'[t] = [cmd[t] EXCEPT !.stopped = b, !.at = p]
    BY <2>1 DEF TypeOK
  <2> QED BY <2>2 DEF Command, Keeps
<1> QED BY <1>1

LEMMA WriteEndedFields ==
  ASSUME TypeOK, NEW t \in Terminals, cmd[t] \in Command, WriteEnded(t)
  PROVE  \/ /\ Mints(t) /\ Keeps(t) /\ cmd'[t].at = "mint" /\ cmd'[t].seen = {}
            /\ cmd'[t].gate = cmd[t].gate /\ cmd'[t].snap = cmd[t].snap
         \/ Leave(t)
BY DEF TypeOK, WriteEnded, Command, Keeps

LEMMA MintFields ==
  ASSUME TypeOK, NEW t \in Terminals, cmd[t] \in Command, Mint(t)
  PROVE  \/ \E k \in Control :
               /\ Binding(t, k) /\ cmd'[t].control = k
               /\ Keeps(t) /\ cmd'[t].at = "bind" /\ cmd'[t].seen = cmd[t].seen
               /\ cmd'[t].gate = cmd[t].gate /\ cmd'[t].snap = cmd[t].snap
         \/ Step(t, "failing")
<1>1. CASE ~Step(t, "failing")
  <2>1. PICK k \in Control :
          Binding(t, k) /\ cmd' = [cmd EXCEPT ![t].control = k, ![t].at = "bind"]
    BY <1>1 DEF Mint
  <2>2. cmd'[t] = [cmd[t] EXCEPT !.control = k, !.at = "bind"]
    BY <2>1 DEF TypeOK
  <2>3. /\ cmd'[t].control = k /\ Keeps(t) /\ cmd'[t].at = "bind"
        /\ cmd'[t].seen = cmd[t].seen
        /\ cmd'[t].gate = cmd[t].gate /\ cmd'[t].snap = cmd[t].snap
    BY <2>2 DEF Command, Keeps
  <2> QED BY <2>1, <2>3
<1> QED BY <1>1

(* A terminal that takes a step other than Begin has a command.            *)
LEMMA Steps ==
  ASSUME TypeOK, NEW t \in Terminals, Progress(t), ~Begin(t)
  PROVE  Running(t) /\ cmd[t] \in Command
<1>1. Running(t)
  BY DEF Progress, Running, Gate, Capture, Admit, ReadSession, WriteStarted, EnterCell,
         Measure, MeasurementFails, Judge, WriteReceipt, WriteEnded, Mint, WriteControl,
         WriteMarker, Crash, Idle, TypeOK, Command, Points
<1> QED BY <1>1, IdleOrCommand

LEMMA OthersKeep ==
  ASSUME TypeOK, NEW t \in Terminals, Progress(t)
  PROVE  /\ \A u \in Terminals \ {t} : cmd'[u] = cmd[u]
         /\ ledger' = ledger
<1>1. \A u \in Terminals \ {t} : cmd'[u] = cmd[u]
  <2>1. CASE \/ Begin(t) \/ Gate(t) \/ Capture(t) \/ Admit(t)
             \/ ReadSession(t) \/ WriteStarted(t) \/ EnterCell(t)
    BY <2>1 DEF PassGate, StageBlocked, CanaryBlocked, BaselineBlocked, TypeOK, Begin, Enter,
       Gate, Capture, Admit, ReadSession, WriteStarted, EnterCell, Step, Leave
  <2>2. CASE \/ Measure(t) \/ MeasurementFails(t) \/ Judge(t)
             \/ WriteReceipt(t) \/ WriteEnded(t) \/ Mint(t) \/ WriteControl(t)
             \/ WriteMarker(t) \/ Crash(t)
    BY <2>2 DEF StageJudged, CanaryJudged, BaselineJudged, Verdict, TypeOK, Measure,
       MeasurementFails, Judge, WriteReceipt, WriteEnded, Mint, WriteControl, WriteMarker,
       Crash, Step, Leave
  <2> QED BY <2>1, <2>2 DEF Progress
<1>2. ledger' = ledger
  BY DEF Progress, Begin, Gate, Capture, Admit, ReadSession, WriteStarted, EnterCell,
         Measure, MeasurementFails, Judge, WriteReceipt, WriteEnded, Mint, WriteControl,
         WriteMarker, Crash
<1> QED BY <1>1, <1>2

(* A new command: a fresh run, and for a treatment an authentic control.   *)
LEMMA BeginFields ==
  ASSUME TypeOK, NEW t \in Terminals, Begin(t)
  PROVE  \E r \in FreshRun, h \in Hosts, label \in Labels, job \in Jobs,
            m \in Control \cup {None} :
           /\ Enter(t, r, h, label, job, m)
           /\ IsTreatmentJob(job) =>
                \E key \in ControlKeys :
                  /\ m = controls[key] /\ m # None /\ m.ledger = ledger
           /\ ~IsTreatmentJob(job) => m = None
<1>1. PICK r \in FreshRun, h \in Hosts, label \in Labels, job \in Jobs :
        IF IsTreatmentJob(job)
        THEN \E c \in ControlFor(job[1]), other \in Labels \ {label} :
               /\ Authenticates(c, other)
               /\ Enter(t, r, h, label, job, controls[<<other, c>>])
        ELSE Enter(t, r, h, label, job, None)
  BY DEF Begin
<1>2. CASE IsTreatmentJob(job)
  <2>1. PICK c \in ControlFor(job[1]), other \in Labels :
          /\ Authenticates(c, other)
          /\ Enter(t, r, h, label, job, controls[<<other, c>>])
    BY <1>1, <1>2
  <2>2. <<other, c>> \in ControlKeys /\ controls[<<other, c>>] \in Control \cup {None}
    BY ControlForKey DEF TypeOK
  <2>3. controls[<<other, c>>] # None /\ controls[<<other, c>>].ledger = ledger
    BY <2>1 DEF Authenticates
  <2> QED BY <1>2, <2>1, <2>2, <2>3
<1>3. CASE ~IsTreatmentJob(job)
  BY <1>1, <1>3
<1> QED BY <1>2, <1>3

LEMMA BeginType ==
  ASSUME TypeOK, NEW t \in Terminals, Begin(t)
  PROVE  /\ TypeOK'
         /\ cmd'[t].at = "gate" /\ cmd'[t].seen = {}
<1> USE QualificationAssumption
<1>1. PICK r \in FreshRun, h \in Hosts, label \in Labels, job \in Jobs,
           m \in Control \cup {None} : Enter(t, r, h, label, job, m)
  BY BeginFields
<1>2. r \in Runs
  BY DEF FreshRun
<1>3. [Idle EXCEPT !.at = "gate", !.run = r, !.label = label, !.job = job,
                  !.matched = m] \in Command
  BY <1>2 DEF Idle, Command, Points
<1>4. cmd' \in [Terminals -> Command \cup {Idle}] /\ machine' \in [Runs -> Hosts \cup {None}]
  BY <1>1, <1>2, <1>3 DEF TypeOK, Enter
<1>5. cmd'[t] = [Idle EXCEPT !.at = "gate", !.run = r, !.label = label, !.job = job,
                             !.matched = m]
  BY <1>1 DEF TypeOK, Enter
<1>6. cmd'[t].at = "gate" /\ cmd'[t].seen = {}
  BY <1>5 DEF Idle
<1> QED BY <1>4, <1>6 DEF TypeOK, Begin, files

(* Every point a command can reach from its own is a point.                *)
LEMMA ProgressType ==
  ASSUME TypeInv, NEW t \in Terminals, Progress(t), ~Begin(t)
  PROVE  TypeOK'
<1> USE QualificationAssumption
<1>a. TypeOK
  BY DEF TypeInv
<1> USE <1>a
<1>1. cmd[t] \in Command /\ CellOf(t) \in Cells
  BY Steps, CellOfInCells
<1> USE DEF Points
<1>2. CASE Gate(t)
  <2>1. CASE LedgerReady
    <3>1. [cmd[t] EXCEPT !.gate = ledger, !.at = AfterGate(t)] \in Command
      BY <1>1, <2>1 DEF Command, AfterGate, TypeOK
    <3>2. cmd' \in [Terminals -> Command \cup {Idle}]
      BY <1>2, <2>1, <3>1
         DEF Gate, PassGate, StageBlocked, CanaryBlocked, BaselineBlocked, TypeOK
    <3> QED BY <1>2, <3>2
         DEF Gate, PassGate, StageBlocked, CanaryBlocked, BaselineBlocked, TypeOK, files
  <2>2. CASE ~LedgerReady
    BY <1>1, <1>2, <2>2, StepType, LeaveType
         DEF Gate, PassGate, StageBlocked, CanaryBlocked, BaselineBlocked, TypeOK, files
  <2> QED BY <2>1, <2>2
<1>3. CASE Capture(t)
  <2>1. [cmd[t] EXCEPT !.snap = ledger, !.at = "start"] \in Command
    BY <1>1 DEF Command, TypeOK
  <2>2. cmd' \in [Terminals -> Command \cup {Idle}]
    BY <1>3, <2>1, LeaveType DEF Capture, TypeOK
  <2>3. swapped' \subseteq Runs
    BY <1>1, <1>3 DEF Capture, TypeOK, Command
  <2> QED BY <1>3, <2>2, <2>3 DEF Capture, TypeOK, files
<1>4. CASE Admit(t)
  <2>1. CASE Leave(t) /\ UNCHANGED freezeOf
    BY <1>4, <2>1, LeaveType DEF Admit, TypeOK, files
  <2>2. CASE ~(Leave(t) /\ UNCHANGED freezeOf)
    <3>1. PICK cell \in Cells :
            /\ FreezeVerified(t, cell)
            /\ freezeOf' = [freezeOf EXCEPT ![cmd[t].run] = receipts[cell].run]
            /\ Step(t, "start") \/ Step(t, "failing")
      BY <1>4, <2>2 DEF Admit
    <3>2. receipts[cell].run \in Runs
      BY <3>1 DEF FreezeVerified, TypeOK, Receipt
    <3> QED BY <1>1, <1>4, <3>1, <3>2, StepType DEF Admit, TypeOK, files
  <2> QED BY <2>1, <2>2
<1>5. CASE ReadSession(t)
  <2>1. \A p \in Points : [cmd[t] EXCEPT !.seen = session, !.at = p] \in Command
    BY <1>1 DEF Command, TypeOK
  <2> QED BY <1>5, <2>1 DEF ReadSession, TypeOK, files
<1>6. CASE WriteStarted(t)
  <2>1. [cmd[t] EXCEPT !.seen = {}, !.at = "enter"] \in Command
    BY <1>1 DEF Command
  <2>2. cmd[t].seen \subseteq Event
    BY <1>1 DEF Command
  <2> QED BY <1>6, <2>1, <2>2 DEF WriteStarted, TypeOK
<1>7. CASE EnterCell(t)
  BY <1>1, <1>7, StepType DEF EnterCell, TypeOK, files
<1>8. CASE Measure(t)
  <2>1. cmd[t].run \in Runs
    BY <1>1 DEF Command
  <2> QED BY <1>1, <1>8, <2>1, StepType DEF Measure, TypeOK
<1>9. CASE MeasurementFails(t)
  BY <1>1, <1>9, StepType DEF MeasurementFails, TypeOK
<1>10. CASE Judge(t)
  <2>1. \A b \in BOOLEAN, p \in {"receipt", "end"} :
          [cmd[t] EXCEPT !.stopped = b, !.at = p] \in Command
    BY <1>1 DEF Command
  <2>2. CASE Step(t, "failing")
    BY <1>1, <1>10, <2>2, StepType DEF Judge, TypeOK, files
  <2>3. CASE ~Step(t, "failing")
    <3>1. PICK b \in BOOLEAN, p \in {"receipt", "end"} :
            cmd' = [cmd EXCEPT ![t].stopped = b, ![t].at = p]
      BY <1>10, <2>3 DEF Judge, StageJudged, CanaryJudged, BaselineJudged, Verdict
    <3>2. cmd' \in [Terminals -> Command \cup {Idle}]
      BY <2>1, <3>1 DEF TypeOK
    <3> QED BY <1>10, <3>2 DEF Judge, TypeOK, files
  <2> QED BY <2>2, <2>3
<1>11. CASE WriteReceipt(t)
  <2>1. [run |-> cmd[t].run, stopped |-> cmd[t].stopped, matched |-> cmd[t].matched,
         identity |-> LedgerResource[cmd[t].gate], ledger |-> ledger] \in Receipt
    <3>1. cmd[t].gate \in Ledgers /\ ledger \in Ledgers
      BY <1>11 DEF WriteReceipt, TypeInv, LedgerRead, Captured, Entered, Measured
    <3> QED BY <1>1, <3>1 DEF Command, Receipt
  <2> QED BY <1>1, <1>11, <2>1, StepType DEF WriteReceipt, TypeOK
<1>12. CASE WriteEnded(t)
  <2>1. [cmd[t] EXCEPT !.seen = {}, !.at = "mint"] \in Command
    BY <1>1 DEF Command
  <2>2. cmd[t].seen \cup {Terminal(t)} \subseteq Event
    <3>1. Terminal(t) \in Event
      BY <1>1 DEF Command, Terminal, Event
    <3> QED BY <1>1, <3>1 DEF Command
  <2>3. cmd' \in [Terminals -> Command \cup {Idle}]
    BY <1>12, <2>1, LeaveType DEF WriteEnded, TypeOK
  <2>4. session' \subseteq Event
    BY <1>12, <2>2 DEF WriteEnded
  <2> QED BY <1>12, <2>3, <2>4 DEF WriteEnded, TypeOK
<1>13. CASE Mint(t)
  <2>1. \A k \in Control : [cmd[t] EXCEPT !.control = k, !.at = "bind"] \in Command
    BY <1>1 DEF Command
  <2>2. cmd' \in [Terminals -> Command \cup {Idle}]
    <3>1. CASE Step(t, "failing")
      BY <1>1, <3>1, StepType
    <3>2. CASE ~Step(t, "failing")
      <4>1. PICK k \in Control : cmd' = [cmd EXCEPT ![t].control = k, ![t].at = "bind"]
        BY <1>13, <3>2 DEF Mint
      <4> QED BY <2>1, <4>1 DEF TypeOK
    <3> QED BY <3>1, <3>2
  <2> QED BY <1>13, <2>2 DEF Mint, TypeOK, files
<1>14. CASE WriteControl(t)
  <2>1. cmd[t].control \in Control \cup {None}
    BY <1>1 DEF Command
  <2> QED BY <1>14, <2>1, LeaveType DEF WriteControl, TypeOK
<1>15. CASE WriteMarker(t)
  <2>1. <<Family(Stage(t)), cmd[t].label>> \in {"qualification", "canary", "baseline"} \X Labels
    BY <1>1 DEF Command, Family
  <2> QED BY <1>15, <2>1, LeaveType DEF WriteMarker, TypeOK
<1>16. CASE Crash(t)
  BY <1>16, LeaveType DEF Crash, TypeOK, files
<1> QED BY <1>2, <1>3, <1>4, <1>5, <1>6, <1>7, <1>8, <1>9, <1>10, <1>11, <1>12,
           <1>13, <1>14, <1>15, <1>16 DEF Progress

(* How a command that read its ledger stays one.                           *)
LEMMA LedgerReadKept ==
  ASSUME TypeInv, NEW t \in Terminals, Progress(t)
  PROVE  LedgerRead'
<1> DEFINE Past(a) == a \in Captured \cup {"capture", "admit"}
<1>1. TypeOK /\ LedgerRead
  BY DEF TypeInv
<1>2. SUFFICES Past(cmd'[t].at) => cmd'[t].gate \in Ledgers /\ ledger \in Ledgers
  BY <1>1, OthersKeep DEF LedgerRead
<1>3. CASE Begin(t)
  <2>1. cmd'[t].at = "gate"
    BY <1>1, <1>3, BeginType
  <2> QED BY <2>1 DEF Captured, Entered, Measured
<1>4. CASE ~Begin(t)
  <2>1. cmd[t] \in Command
    BY <1>1, <1>4, Steps
  <2>2. Past(cmd[t].at) => cmd[t].gate \in Ledgers /\ ledger \in Ledgers
    BY <1>1 DEF LedgerRead
  <2>3. CASE Leave(t) \/ Step(t, "failing")
    BY <1>1, <2>1, <2>3, LeaveFields, StepFields DEF Captured, Entered, Measured
  <2>4. CASE Gate(t) /\ ~(Leave(t) \/ Step(t, "failing"))
    BY <1>1, <2>1, <2>4, GateFields, QualificationAssumption DEF LedgerReady
  <2>5. CASE ~Gate(t) /\ ~(Leave(t) \/ Step(t, "failing"))
    <3>1. cmd'[t].gate = cmd[t].gate
      BY <1>1, <1>4, <2>1, <2>5, CaptureFields, ReadSessionFields, WriteStartedFields,
         JudgeFields, WriteEndedFields, MintFields, StepFields
         DEF Progress, Admit, EnterCell, Measure, MeasurementFails, WriteReceipt,
             WriteControl, WriteMarker, Crash
    <3>2. Past(cmd[t].at)
      BY <1>1, <1>4, <2>5
         DEF Progress, Capture, Admit, ReadSession, WriteStarted, EnterCell, Measure,
             MeasurementFails, Judge, WriteReceipt, WriteEnded, Mint, WriteControl,
             WriteMarker, Crash, Captured, Entered, Measured
    <3> QED BY <2>2, <3>1, <3>2
  <2> QED BY <2>3, <2>4, <2>5
<1> QED BY <1>3, <1>4

LEMMA EnvironmentType ==
  ASSUME TypeInv, ReplaceLedger \/ TogglePending
  PROVE  TypeInv'
<1> USE QualificationAssumption DEF TypeInv
<1>1. ledger' \in Ledgers \cup {None} /\ pending' \in BOOLEAN /\ moves' \in 0..MaxMoves
  <2>1. moves' = moves + 1 /\ moves < MaxMoves
    BY DEF ReplaceLedger, TogglePending
  <2>2. ledger' \in Ledgers \cup {None}
    BY DEF ReplaceLedger, TogglePending, TypeOK
  <2>3. pending' \in BOOLEAN
    BY DEF ReplaceLedger, TogglePending, TypeOK
  <2>4. moves \in 0..MaxMoves
    BY DEF TypeOK
  <2> QED BY <2>1, <2>2, <2>3, <2>4
<1>2. UNCHANGED <<files, cmd, machine, freezeOf, swapped>>
  BY DEF ReplaceLedger, TogglePending
<1>3. TypeOK'
  BY <1>1, <1>2 DEF TypeOK, files
<1>4. ledger \in Ledgers => ledger' \in Ledgers
  BY DEF ReplaceLedger, TogglePending
<1> QED BY <1>2, <1>3, <1>4 DEF LedgerRead

LEMMA NextType == TypeInv /\ [Next]_vars => TypeInv'
<1> SUFFICES ASSUME TypeInv, [Next]_vars PROVE TypeInv'
  OBVIOUS
<1>1. CASE ReplaceLedger \/ TogglePending
  BY <1>1, EnvironmentType
<1>2. ASSUME NEW t \in Terminals, Progress(t) PROVE TypeInv'
  BY <1>2, BeginType, ProgressType, LedgerReadKept DEF TypeInv
<1>3. CASE UNCHANGED vars
  BY <1>3 DEF vars, files, TypeInv, TypeOK, LedgerRead
<1> QED BY <1>1, <1>2, <1>3 DEF Next

LEMMA InitType == Init => TypeInv
<1> SUFFICES ASSUME Init PROVE TypeInv
  OBVIOUS
<1> USE QualificationAssumption
<1>1. moves \in 0..MaxMoves /\ cmd \in [Terminals -> Command \cup {Idle}]
  BY DEF Init
<1>2. TypeOK
  BY <1>1 DEF Init, TypeOK
<1>3. LedgerRead
  BY DEF Init, LedgerRead, Idle, Captured, Entered, Measured
<1> QED BY <1>2, <1>3 DEF TypeInv

(* Every reachable state has the declared shape: nothing a crash or an     *)
(* interleaving leaves behind is a file or a command outside the types.    *)
THEOREM TypeCorrect == Spec => []TypeOK
BY InitType, NextType, PTL DEF Spec, TypeInv

-----------------------------------------------------------------------------
(* What a step leaves alone. *)

LEMMA MachineOnlyBegins ==
  ASSUME NEW t \in Terminals, Progress(t), ~Begin(t)
  PROVE  machine' = machine
BY DEF Progress, Gate, Capture, Admit, ReadSession, WriteStarted, EnterCell, Measure,
       MeasurementFails, Judge, WriteReceipt, WriteEnded, Mint, WriteControl, WriteMarker,
       Crash

LEMMA ResultsOnlyMeasured ==
  ASSUME NEW t \in Terminals, Progress(t), ~Measure(t)
  PROVE  results' = results
BY DEF Progress, Begin, Gate, Capture, Admit, ReadSession, WriteStarted, EnterCell,
       MeasurementFails, Judge, WriteReceipt, WriteEnded, Mint, WriteControl, WriteMarker,
       Crash, files

LEMMA FreezeOnlyAdmitted ==
  ASSUME NEW t \in Terminals, Progress(t), ~Admit(t)
  PROVE  freezeOf' = freezeOf
BY DEF Progress, Begin, Gate, Capture, ReadSession, WriteStarted, EnterCell, Measure,
       MeasurementFails, Judge, WriteReceipt, WriteEnded, Mint, WriteControl, WriteMarker,
       Crash

(* Executions keep their machine, cells their results, and the history     *)
(* only grows.                                                             *)
LEMMA Persist ==
  ASSUME TypeOK, NEW t \in Terminals, Progress(t)
  PROVE  /\ \A r \in Runs : machine[r] \in Hosts => machine'[r] = machine[r]
         /\ \A cell \in Cells : results[cell] \subseteq results'[cell]
         /\ swapped \subseteq swapped'
<1>1. \A r \in Runs : machine[r] \in Hosts => machine'[r] = machine[r]
  <2>1. CASE Begin(t)
    <3>1. PICK q \in FreshRun, h \in Hosts : machine' = [machine EXCEPT ![q] = h]
      BY <2>1, BeginFields DEF Enter
    <3>2. machine[q] \notin Hosts
      BY QualificationAssumption DEF FreshRun
    <3> QED BY <3>1, <3>2 DEF TypeOK
  <2>2. CASE ~Begin(t)
    BY <2>2, MachineOnlyBegins
  <2> QED BY <2>1, <2>2
<1>2. \A cell \in Cells : results[cell] \subseteq results'[cell]
  <2>1. CASE Measure(t)
    BY <2>1 DEF Measure, TypeOK
  <2>2. CASE ~Measure(t)
    BY <2>2, ResultsOnlyMeasured
  <2> QED BY <2>1, <2>2
<1>3. swapped \subseteq swapped'
  BY DEF Progress, Begin, Gate, Capture, Admit, ReadSession, WriteStarted, EnterCell, Measure,
         MeasurementFails, Judge, WriteReceipt, WriteEnded, Mint, WriteControl, WriteMarker,
         Crash
<1> QED BY <1>1, <1>2, <1>3

LEMMA BoundKept ==
  ASSUME TypeOK, NEW t \in Terminals, Progress(t), NEW k \in Control, Bound(k)
  PROVE  Bound(k)'
<1>1. k.run \in Runs
  BY DEF Control
<1> QED BY <1>1, Persist DEF Bound

LEMMA BackedKept ==
  ASSUME TypeOK, NEW t \in Terminals, Progress(t), NEW e \in Event, Backed(e)
  PROVE  e.run \in results'[<<e.label, e.job>>]
<1>1. <<e.label, e.job>> \in Cells
  BY DEF Event, Cells
<1> QED BY <1>1, Persist DEF Backed

-----------------------------------------------------------------------------
(* The commands of the other terminals. *)

LEMMA Unfold ==
  ASSUME IInv, NEW u \in Terminals, Running(u)
  PROVE  /\ cmd[u] \in Command
         /\ ReadInv(u) /\ MatchInv(u) /\ RunInv(u) /\ FreezeInv(u)
         /\ TypeInv /\ TypeOK
         /\ cmd[u].run \in Runs /\ CellOf(u) \in Cells
BY IdleOrCommand, CellOfInCells DEF IInv, TypeInv, CommandInv, Command

LEMMA OthersInv ==
  ASSUME IInv, NEW t \in Terminals, Progress(t), NEW u \in Terminals \ {t}, Running(u)'
  PROVE  (ReadInv(u) /\ MatchInv(u) /\ RunInv(u) /\ FreezeInv(u))'
<1>1. TypeOK
  BY DEF IInv, TypeInv
<1>2. cmd'[u] = cmd[u] /\ ledger' = ledger
  BY <1>1, OthersKeep
<1>3. Running(u)
  BY <1>2 DEF Running
<1>4. /\ cmd[u] \in Command /\ cmd[u].run \in Runs /\ CellOf(u) \in Cells
      /\ ReadInv(u) /\ MatchInv(u) /\ RunInv(u) /\ FreezeInv(u)
  BY <1>3, Unfold
<1>5. Running(t) => cmd[t].run # cmd[u].run
  BY <1>3 DEF IInv, RunsApart
<1>6. machine'[cmd[u].run] = machine[cmd[u].run]
  BY <1>1, <1>4, Persist DEF RunInv
<1>7. ReadInv(u)'
  BY <1>1, <1>2, <1>4, Persist DEF ReadInv
<1>8. MatchInv(u)'
  BY <1>1, <1>2, <1>4, BoundKept DEF MatchInv, Bound
<1>9. RunInv(u)'
  <2>1. machine'[cmd[u].run] \in Hosts
    BY <1>4, <1>6 DEF RunInv
  <2>2. cmd[u].at \in Measured => cmd[u].run \in results'[CellOf(u)]
    BY <1>1, <1>4, Persist DEF RunInv
  <2>3. cmd[u].at \notin Measured \cup {"failing"} =>
          \A cell \in Cells : cmd[u].run \notin results'[cell]
    <3>1. CASE Measure(t)
      <4>1. Running(t)
        BY <3>1 DEF Measure, Running
      <4> QED BY <1>1, <1>4, <1>5, <3>1, <4>1 DEF Measure, RunInv, TypeOK
    <3>2. CASE ~Measure(t)
      BY <1>4, <3>2, ResultsOnlyMeasured DEF RunInv
    <3> QED BY <3>1, <3>2
  <2>4. \A e \in cmd[u].seen : e.run \in results'[<<e.label, e.job>>]
    BY <1>1, <1>4, BackedKept DEF RunInv, Command
  <2>5. CellOf(u)' = CellOf(u)
    BY <1>2 DEF CellOf
  <2> QED BY <1>2, <1>4, <1>6, <2>1, <2>2, <2>3, <2>4, <2>5 DEF RunInv, Backed
<1>10. FreezeInv(u)'
  <2>1. freezeOf'[cmd[u].run] = freezeOf[cmd[u].run]
    <3>1. CASE Admit(t)
      <4>1. Running(t)
        BY <3>1 DEF Admit, Running
      <4> QED BY <1>1, <1>4, <1>5, <3>1, <4>1 DEF Admit, TypeOK
    <3>2. CASE ~Admit(t)
      BY <3>2, FreezeOnlyAdmitted
    <3> QED BY <3>1, <3>2
  <2>2. cmd[u].at # "failing" /\ freezeOf[cmd[u].run] # None =>
          machine'[freezeOf[cmd[u].run]] = machine[freezeOf[cmd[u].run]]
    <3> SUFFICES ASSUME cmd[u].at # "failing", freezeOf[cmd[u].run] # None
                 PROVE  machine'[freezeOf[cmd[u].run]] = machine[freezeOf[cmd[u].run]]
      OBVIOUS
    <3>1. freezeOf[cmd[u].run] \in Runs
      BY <1>1, <1>4 DEF TypeOK
    <3>2. cmd[u].gate \in Ledgers
      BY <1>4 DEF IInv, TypeInv, LedgerRead, FreezeInv
    <3>3. machine[freezeOf[cmd[u].run]] \in Hosts
      BY <1>4, <3>2, QualificationAssumption DEF FreezeInv
    <3> QED BY <1>1, <3>1, <3>3, Persist
  <2> QED BY <1>2, <1>4, <2>1, <2>2 DEF FreezeInv
<1> QED BY <1>7, <1>8, <1>9, <1>10

-----------------------------------------------------------------------------
(* The command that takes the step. *)

LEMMA EnterFields ==
  ASSUME TypeOK, NEW t \in Terminals, NEW r \in Runs, NEW h, NEW label, NEW job, NEW m,
         Enter(t, r, h, label, job, m)
  PROVE  /\ cmd'[t].at = "gate" /\ cmd'[t].run = r /\ cmd'[t].job = job
         /\ cmd'[t].matched = m /\ cmd'[t].seen = {}
         /\ machine' = [machine EXCEPT ![r] = h]
<1>1. cmd'[t] = [Idle EXCEPT !.at = "gate", !.run = r, !.label = label, !.job = job,
                             !.matched = m]
  BY DEF TypeOK, Enter
<1>2. machine' = [machine EXCEPT ![r] = h]
  BY DEF Enter
<1>3. /\ cmd'[t].at = "gate" /\ cmd'[t].run = r /\ cmd'[t].job = job
      /\ cmd'[t].matched = m /\ cmd'[t].seen = {}
  BY <1>1 DEF Idle
<1> QED BY <1>2, <1>3

LEMMA BeginOwn ==
  ASSUME IInv, NEW t \in Terminals, Begin(t)
  PROVE  (ReadInv(t) /\ MatchInv(t) /\ RunInv(t) /\ FreezeInv(t))'
<1>1. TypeOK /\ Progress(t)
  BY DEF IInv, TypeInv, Progress
<1>2. PICK r \in FreshRun, h \in Hosts, label \in Labels, job \in Jobs,
           m \in Control \cup {None} :
        /\ Enter(t, r, h, label, job, m)
        /\ IsTreatmentJob(job) =>
             \E key \in ControlKeys : m = controls[key] /\ m # None /\ m.ledger = ledger
        /\ ~IsTreatmentJob(job) => m = None
  BY <1>1, BeginFields
<1>3. r \in Runs /\ machine[r] = None
  BY DEF FreshRun
<1>4. /\ cmd'[t].at = "gate" /\ cmd'[t].run = r /\ cmd'[t].job = job
      /\ cmd'[t].matched = m /\ cmd'[t].seen = {}
      /\ machine'[r] = h
  BY <1>1, <1>2, <1>3, EnterFields DEF TypeOK
<1>5. ReadInv(t)'
  BY <1>4 DEF ReadInv, Captured, Entered, Measured
<1>6. MatchInv(t)'
  <2>1. IsTreatmentJob(job) => m \in Control /\ m # None /\ Bound(m)
    BY <1>2 DEF IInv, FileInv, ControlsBound
  <2>2. IsTreatmentJob(job) => Bound(m)'
    BY <1>1, <2>1, BoundKept
  <2> QED BY <1>4, <2>1, <2>2 DEF MatchInv, Bound, Captured, Entered, Measured
<1>7. RunInv(t)'
  <2>1. \A cell \in Cells : r \notin results'[cell]
    BY <1>3 DEF IInv, FileInv, Unused, Begin, files
  <2> QED BY <1>4, <2>1 DEF RunInv, Captured, Entered, Measured
<1>8. FreezeInv(t)'
  BY <1>3, <1>4 DEF IInv, FileInv, Unused, Begin, FreezeInv
<1> QED BY <1>5, <1>6, <1>7, <1>8

(* A running command keeps its identity, the ledger of its gate once it is *)
(* past the gate, and after the capture its snapshot.                      *)
LEMMA OwnFields ==
  ASSUME TypeOK, NEW t \in Terminals, Progress(t), ~Begin(t), Running(t)'
  PROVE  /\ Keeps(t)
         /\ ~Gate(t) => cmd'[t].gate = cmd[t].gate
         /\ ~Gate(t) /\ ~Capture(t) => cmd'[t].snap = cmd[t].snap
<1>1. cmd[t] \in Command
  BY Steps
<1>2. ~Leave(t)
  BY LeaveFields
<1> QED BY <1>1, <1>2, GateFields, CaptureFields, ReadSessionFields, WriteStartedFields,
           JudgeFields, WriteEndedFields, MintFields, StepFields
           DEF Progress, Admit, EnterCell, Measure, MeasurementFails, WriteReceipt,
               WriteControl, WriteMarker, Crash

(* Where a running command goes.                                           *)
LEMMA OwnPoints ==
  ASSUME TypeOK, NEW t \in Terminals, Progress(t), ~Begin(t), Running(t)'
  PROVE  \/ cmd'[t].at = "failing"
         \/ Gate(t) /\ cmd[t].at = "gate" /\ cmd'[t].at = AfterGate(t)
              /\ cmd'[t].gate = ledger
         \/ Capture(t) /\ cmd[t].at = "capture" /\ cmd'[t].at = "start"
              /\ cmd'[t].snap = ledger /\ MatchesControl(t)
         \/ Admit(t) /\ cmd[t].at = "admit" /\ cmd'[t].at = "start"
         \/ ReadSession(t) /\ cmd[t].at = "start" /\ cmd'[t].at = "started"
         \/ ReadSession(t) /\ cmd[t].at = "end" /\ cmd'[t].at = "ended"
         \/ WriteStarted(t) /\ cmd[t].at = "started" /\ cmd'[t].at = "enter"
         \/ EnterCell(t) /\ cmd[t].at = "enter" /\ cmd'[t].at = "measure" /\ LiveProvenance(t)
         \/ Measure(t) /\ cmd[t].at = "measure" /\ cmd'[t].at = "judge"
         \/ Judge(t) /\ cmd[t].at = "judge" /\ cmd'[t].at \in {"end", "receipt"}
         \/ WriteReceipt(t) /\ cmd[t].at = "receipt" /\ cmd'[t].at = "end"
         \/ WriteEnded(t) /\ cmd[t].at = "ended" /\ cmd'[t].at = "mint" /\ Mints(t)
         \/ Mint(t) /\ cmd[t].at = "mint" /\ cmd'[t].at = "bind"
              /\ cmd'[t].control \in Control /\ Binding(t, cmd'[t].control)
<1>1. cmd[t] \in Command
  BY Steps
<1>2. ~Leave(t)
  BY LeaveFields
<1>3. CASE Gate(t)
  BY <1>1, <1>2, <1>3, GateFields, StepFields DEF Gate
<1>4. CASE Capture(t)
  BY <1>1, <1>2, <1>4, CaptureFields DEF Capture
<1>5. CASE Admit(t)
  BY <1>1, <1>2, <1>5, StepFields DEF Admit
<1>6. CASE ReadSession(t)
  BY <1>1, <1>6, ReadSessionFields DEF ReadSession
<1>7. CASE WriteStarted(t)
  BY <1>1, <1>7, WriteStartedFields DEF WriteStarted
<1>8. CASE EnterCell(t)
  BY <1>1, <1>8, StepFields DEF EnterCell
<1>9. CASE Measure(t) \/ MeasurementFails(t)
  BY <1>1, <1>9, StepFields DEF Measure, MeasurementFails
<1>10. CASE Judge(t)
  BY <1>1, <1>10, JudgeFields, StepFields DEF Judge
<1>11. CASE WriteReceipt(t)
  BY <1>1, <1>11, StepFields DEF WriteReceipt
<1>12. CASE WriteEnded(t)
  BY <1>1, <1>2, <1>12, WriteEndedFields DEF WriteEnded
<1>13. CASE Mint(t)
  BY <1>1, <1>13, MintFields, StepFields DEF Mint
<1>14. CASE WriteControl(t) \/ WriteMarker(t) \/ Crash(t)
  BY <1>2, <1>14 DEF WriteControl, WriteMarker, Crash
<1> QED BY <1>3, <1>4, <1>5, <1>6, <1>7, <1>8, <1>9, <1>10, <1>11, <1>12, <1>13, <1>14
           DEF Progress

LEMMA OwnRead ==
  ASSUME IInv, NEW t \in Terminals, Progress(t), ~Begin(t), Running(t)'
  PROVE  ReadInv(t)'
<1> USE DEF Captured, Entered, Measured
<1>1. TypeOK /\ TypeInv /\ Running(t) /\ cmd[t] \in Command
  BY Steps DEF IInv, TypeInv
<1>2. ReadInv(t) /\ ledger' = ledger /\ swapped \subseteq swapped'
  BY <1>1, OthersKeep, Persist, Unfold
<1>3. Keeps(t)
  BY <1>1, OwnFields
<1>4. CASE cmd'[t].at = "failing"
  BY <1>4 DEF ReadInv
<1>5. CASE Gate(t) /\ cmd'[t].at = AfterGate(t) /\ cmd'[t].gate = ledger
  <2>1. cmd'[t].job = cmd[t].job
    BY <1>3 DEF Keeps
  <2>2. \/ InPair(cmd[t].job) /\ AfterGate(t) = "capture"
        \/ ~InPair(cmd[t].job) /\ AfterGate(t) \in {"admit", "start"}
    BY DEF AfterGate, InPair, IsControlJob, IsTreatmentJob, Stage
  <2> QED BY <1>2, <1>5, <2>1, <2>2 DEF ReadInv
<1>6. CASE Capture(t) /\ cmd[t].at = "capture" /\ cmd'[t].at = "start" /\ cmd'[t].snap = ledger
  <2>1. cmd'[t].gate = cmd[t].gate
    BY <1>1, <1>6, OwnFields DEF Gate
  <2>2. ledger \in Ledgers
    BY <1>1, <1>6 DEF TypeInv, LedgerRead
  <2>3. cmd[t].run \notin swapped' => LedgerResource[ledger] = LedgerResource[cmd[t].gate]
    BY <1>1, <1>6, LeaveFields DEF Capture
  <2>4. cmd'[t].run = cmd[t].run
    BY <1>3 DEF Keeps
  <2> QED BY <1>6, <2>1, <2>2, <2>3, <2>4 DEF ReadInv
<1>7. CASE ~Gate(t) /\ ~Capture(t) /\ cmd'[t].at # "failing"
  <2>1. cmd'[t].gate = cmd[t].gate /\ cmd'[t].snap = cmd[t].snap
    BY <1>1, <1>7, OwnFields
  <2>2. cmd'[t].at \notin {"capture", "admit"}
    BY <1>1, <1>7, OwnPoints
  <2>3. cmd[t].at \in Captured \/ cmd[t].at = "admit"
    BY <1>1, <1>7, OwnPoints
  <2> QED BY <1>2, <1>3, <2>1, <2>2, <2>3 DEF ReadInv, Keeps
<1>8. CASE Gate(t) /\ cmd'[t].at # "failing"
  <2>1. cmd[t].at = "gate"
    BY <1>8 DEF Gate
  <2> QED BY <1>1, <1>5, <1>8, <2>1, OwnPoints
<1>9. CASE Capture(t) /\ cmd'[t].at # "failing"
  <2>1. cmd[t].at = "capture"
    BY <1>9 DEF Capture
  <2> QED BY <1>1, <1>6, <1>9, <2>1, OwnPoints
<1> QED BY <1>4, <1>7, <1>8, <1>9

(* The record a command is about to write binds its own execution: the one *)
(* result of the cell is its own, and so is the event it found.            *)
LEMMA BindingBound ==
  ASSUME IInv, NEW t \in Terminals, cmd[t].at = "mint", NEW k \in Control, Binding(t, k)
  PROVE  Bound(k)
<1> USE DEF Captured, Entered, Measured
<1>1. /\ Running(t) /\ cmd[t] \in Command /\ TypeOK
      /\ ReadInv(t) /\ MatchInv(t) /\ RunInv(t)
  BY Unfold DEF Running
<1>2. IsControlJob(cmd[t].job)
  BY <1>1 DEF MatchInv
<1>3. CellOf(t) = <<cmd[t].label, Development(Cand(t))>>
  <2>1. cmd[t].job = <<cmd[t].job[1], cmd[t].job[2]>>
    BY <1>1, QualificationAssumption DEF Command
  <2> QED BY <1>2, <2>1 DEF CellOf, Development, Cand, IsControlJob
<1>4. results[CellOf(t)] = {k.result}
  BY <1>3 DEF Binding, SoleResult
<1>5. k.run = cmd[t].run /\ k.result = k.run
  BY <1>1, <1>4 DEF Binding, RunInv
<1>6. k.event = k.run
  <2>1. PICK e \in session :
          CompletionEvent(Cand(t), cmd[t].label, e) /\ k.event = e.run
    BY DEF Binding
  <2>2. e.job = Development(Cand(t)) /\ e.label = cmd[t].label
    BY <2>1 DEF CompletionEvent, ControlEvents
  <2>3. e.run \in results[<<e.label, e.job>>]
    BY DEF IInv, FileInv, SessionBacked, Backed
  <2> QED BY <1>3, <1>4, <1>5, <2>1, <2>2, <2>3
<1>7. /\ machine[k.run] \in Hosts
      /\ k.run \notin swapped => machine[k.run] = LedgerResource[k.ledger]
  <2>1. InPair(cmd[t].job)
    BY <1>2 DEF InPair
  <2>2. k.ledger = cmd[t].snap
    BY DEF Binding
  <2> QED BY <1>1, <1>5, <2>1, <2>2 DEF ReadInv, RunInv
<1> QED BY <1>5, <1>6, <1>7 DEF Bound

LEMMA OwnMatch ==
  ASSUME IInv, NEW t \in Terminals, Progress(t), ~Begin(t), Running(t)'
  PROVE  MatchInv(t)'
<1> USE DEF Captured, Entered, Measured
<1>1. TypeOK /\ TypeInv /\ Running(t) /\ cmd[t] \in Command
  BY Steps DEF IInv, TypeInv
<1>2. MatchInv(t) /\ ReadInv(t)
  BY <1>1, Unfold
<1>3. cmd'[t].job = cmd[t].job /\ cmd'[t].matched = cmd[t].matched
  BY <1>1, OwnFields DEF Keeps
<1>4. IsTreatmentJob(cmd[t].job) =>
        /\ cmd[t].matched \in Control /\ cmd[t].matched # None
        /\ Bound(cmd[t].matched) /\ Bound(cmd[t].matched)'
  <2> SUFFICES ASSUME IsTreatmentJob(cmd[t].job)
               PROVE  /\ cmd[t].matched \in Control /\ cmd[t].matched # None
                      /\ Bound(cmd[t].matched) /\ Bound(cmd[t].matched)'
    OBVIOUS
  <2>1. cmd[t].matched \in Control /\ cmd[t].matched # None /\ Bound(cmd[t].matched)
    BY <1>2 DEF MatchInv
  <2> DEFINE m == cmd[t].matched
  <2>2. \A c \in Control : Bound(c) => Bound(c)'
    BY <1>1, BoundKept
  <2> QED BY <1>3, <2>1, <2>2 DEF Bound
<1>5. IsTreatmentJob(cmd[t].job) /\ cmd'[t].at \in Captured =>
        cmd[t].matched.ledger = cmd'[t].snap
  <2> SUFFICES ASSUME IsTreatmentJob(cmd[t].job), cmd'[t].at \in Captured
               PROVE  cmd[t].matched.ledger = cmd'[t].snap
    OBVIOUS
  <2>1. InPair(cmd[t].job)
    BY DEF InPair
  <2>2. ~Gate(t)
    BY <1>1, <2>1, OwnPoints DEF AfterGate, Gate, Capture, Admit, ReadSession, WriteStarted,
       EnterCell, Measure, Judge, WriteReceipt, WriteEnded, Mint
  <2>3. CASE Capture(t)
    BY <1>1, <1>4, <2>3, OwnPoints DEF MatchesControl, Gate, Capture, Admit, ReadSession,
       WriteStarted, EnterCell, Measure, Judge, WriteReceipt, WriteEnded, Mint
  <2>4. CASE ~Capture(t)
    <3>1. cmd'[t].snap = cmd[t].snap
      BY <1>1, <2>2, <2>4, OwnFields
    <3>2. cmd[t].at \in Captured
      BY <1>1, <1>2, <2>1, <2>2, <2>4, OwnPoints DEF ReadInv
    <3> QED BY <1>2, <3>1, <3>2 DEF MatchInv
  <2> QED BY <2>3, <2>4
<1>6. cmd'[t].at \in {"mint", "bind"} => IsControlJob(cmd[t].job)
  BY <1>1, <1>2, OwnPoints DEF MatchInv, Mints, AfterGate
<1>7. cmd'[t].at = "bind" => cmd'[t].control \in Control /\ Bound(cmd[t].control)'
  <2> SUFFICES ASSUME cmd'[t].at = "bind"
               PROVE  cmd'[t].control \in Control /\ Bound(cmd[t].control)'
    OBVIOUS
  <2>1. /\ cmd[t].at = "mint" /\ cmd'[t].control \in Control
        /\ Binding(t, cmd'[t].control)
    BY <1>1, OwnPoints DEF AfterGate
  <2> DEFINE k == cmd'[t].control
  <2>2. Bound(k)
    BY <1>1, <2>1, BindingBound
  <2>3. \A c \in Control : Bound(c) => Bound(c)'
    BY <1>1, BoundKept
  <2> QED BY <2>1, <2>2, <2>3 DEF Bound
<1> QED BY <1>3, <1>4, <1>5, <1>6, <1>7 DEF MatchInv

LEMMA OwnRun ==
  ASSUME IInv, NEW t \in Terminals, Progress(t), ~Begin(t), Running(t)'
  PROVE  RunInv(t)'
<1> USE DEF Captured, Entered, Measured
<1>1. TypeOK /\ TypeInv /\ Running(t) /\ cmd[t] \in Command
  BY Steps DEF IInv, TypeInv
<1>2. RunInv(t) /\ cmd[t].run \in Runs /\ CellOf(t) \in Cells
  BY <1>1, Unfold
<1>3. Keeps(t) /\ machine' = machine
  BY <1>1, OwnFields, MachineOnlyBegins
<1>4. CellOf(t)' = CellOf(t) /\ cmd'[t].run = cmd[t].run
  BY <1>3 DEF Keeps, CellOf
<1>5. cmd'[t].at \in Entered => machine[cmd[t].run] = LedgerResource[cmd'[t].gate]
  <2> SUFFICES ASSUME cmd'[t].at \in Entered
               PROVE  machine[cmd[t].run] = LedgerResource[cmd'[t].gate]
    OBVIOUS
  <2>1. ~Gate(t)
    BY <1>1, OwnPoints DEF AfterGate, Gate, Capture, Admit, ReadSession, WriteStarted,
       EnterCell, Measure, Judge, WriteReceipt, WriteEnded, Mint
  <2>2. cmd'[t].gate = cmd[t].gate
    BY <1>1, <2>1, OwnFields
  <2>3. cmd[t].at \in Entered \/ LiveProvenance(t)
    BY <1>1, <2>1, OwnPoints
  <2> QED BY <1>2, <2>2, <2>3 DEF RunInv, LiveProvenance
<1>6. cmd'[t].at \in Measured => cmd[t].run \in results'[CellOf(t)]
  <2>1. CASE Measure(t)
    BY <1>1, <1>2, <2>1 DEF Measure, TypeOK
  <2>2. CASE ~Measure(t)
    <3>1. cmd'[t].at \in Measured => cmd[t].at \in Measured
      BY <1>1, <2>2, OwnPoints DEF AfterGate
    <3> QED BY <1>2, <2>2, <3>1, ResultsOnlyMeasured DEF RunInv
  <2> QED BY <2>1, <2>2
<1>7. cmd'[t].at \notin Measured \cup {"failing"} =>
        \A cell \in Cells : cmd[t].run \notin results'[cell]
  <2> SUFFICES ASSUME cmd'[t].at \notin Measured \cup {"failing"}
               PROVE  \A cell \in Cells : cmd[t].run \notin results'[cell]
    OBVIOUS
  <2>1. ~Measure(t)
    BY <1>1, StepFields DEF Measure
  <2>2. cmd[t].at \notin Measured \cup {"failing"}
    BY <1>1, <2>1, OwnPoints
  <2> QED BY <1>2, <2>1, <2>2, ResultsOnlyMeasured DEF RunInv
<1>8. \A e \in cmd'[t].seen : e.run \in results'[<<e.label, e.job>>]
  <2>1. cmd'[t].seen \subseteq cmd[t].seen \cup session
    <3>1. CASE ReadSession(t) \/ WriteStarted(t) \/ WriteEnded(t)
      BY <1>1, <3>1, LeaveFields, ReadSessionFields, WriteStartedFields, WriteEndedFields
    <3>2. CASE Gate(t) \/ Capture(t) \/ Judge(t) \/ Mint(t)
      BY <1>1, <3>2, LeaveFields, GateFields, CaptureFields, JudgeFields, MintFields,
         StepFields
    <3>3. CASE \/ Admit(t) \/ EnterCell(t) \/ Measure(t) \/ MeasurementFails(t)
               \/ WriteReceipt(t) \/ WriteControl(t) \/ WriteMarker(t) \/ Crash(t)
      BY <1>1, <3>3, LeaveFields, StepFields
         DEF Admit, EnterCell, Measure, MeasurementFails, WriteReceipt, WriteControl,
             WriteMarker, Crash
    <3> QED BY <3>1, <3>2, <3>3 DEF Progress
  <2>2. \A e \in cmd[t].seen \cup session : e \in Event /\ Backed(e)
    BY <1>1, <1>2 DEF RunInv, Command, TypeOK, IInv, FileInv, SessionBacked
  <2> QED BY <1>1, <2>1, <2>2, BackedKept
<1>9. machine'[cmd'[t].run] \in Hosts
  BY <1>2, <1>3, <1>4 DEF RunInv
<1> QED BY <1>3, <1>4, <1>5, <1>6, <1>7, <1>8, <1>9 DEF RunInv, Backed

LEMMA OwnFreeze ==
  ASSUME IInv, NEW t \in Terminals, Progress(t), ~Begin(t), Running(t)'
  PROVE  FreezeInv(t)'
<1> USE DEF Captured, Entered, Measured
<1>1. TypeOK /\ TypeInv /\ Running(t) /\ cmd[t] \in Command
  BY Steps DEF IInv, TypeInv
<1>2. FreezeInv(t) /\ cmd[t].run \in Runs
  BY <1>1, Unfold
<1>3. cmd'[t].run = cmd[t].run /\ machine' = machine
  BY <1>1, OwnFields, MachineOnlyBegins DEF Keeps
<1>4. CASE cmd'[t].at = "failing"
  BY <1>4 DEF FreezeInv
<1>5. CASE Admit(t) /\ cmd'[t].at # "failing"
  <2>1. ~Leave(t)
    BY <1>1, LeaveFields
  <2>2. PICK cell \in Cells :
          /\ FreezeVerified(t, cell)
          /\ freezeOf' = [freezeOf EXCEPT ![cmd[t].run] = receipts[cell].run]
          /\ Step(t, "start") \/ Step(t, "failing")
    BY <1>5, <2>1 DEF Admit
  <2>3. cmd'[t].at = "start" /\ cmd'[t].gate = cmd[t].gate
    BY <1>1, <1>5, <2>2, StepFields
  <2>4. machine[receipts[cell].run] = LedgerResource[cmd[t].gate]
    BY <2>2 DEF FreezeVerified, IInv, FileInv, ReceiptsPlaced
  <2>5. freezeOf'[cmd[t].run] = receipts[cell].run
    BY <1>1, <1>2, <2>2 DEF TypeOK
  <2> QED BY <1>3, <2>3, <2>4, <2>5 DEF FreezeInv
<1>6. CASE ~Admit(t) /\ cmd'[t].at # "failing"
  <2>1. freezeOf' = freezeOf
    BY <1>6, FreezeOnlyAdmitted
  <2>2. CASE cmd[t].at \in Captured
    <3>1. ~Gate(t)
      BY <2>2 DEF Gate
    <3>2. cmd'[t].at \in Captured /\ cmd'[t].gate = cmd[t].gate
      BY <1>1, <1>6, <2>2, <3>1, OwnPoints, OwnFields
    <3>3. cmd[t].at # "failing"
      BY <2>2
    <3> QED BY <1>2, <1>3, <2>1, <3>2, <3>3 DEF FreezeInv
  <2>3. CASE cmd[t].at \notin Captured
    <3>1. cmd[t].at # "failing"
      BY <1>1, <1>6, <2>3, OwnPoints
    <3> QED BY <1>2, <1>3, <2>1, <2>3, <3>1 DEF FreezeInv
  <2> QED BY <2>2, <2>3
<1> QED BY <1>4, <1>5, <1>6

-----------------------------------------------------------------------------
(* The files. *)

LEMMA UnusedKept ==
  ASSUME IInv, NEW t \in Terminals, Progress(t)
  PROVE  Unused'
<1>1. TypeOK /\ Unused
  BY DEF IInv, TypeInv, FileInv
<1> SUFFICES ASSUME NEW r \in Runs, machine'[r] = None
             PROVE  freezeOf'[r] = None /\ \A cell \in Cells : r \notin results'[cell]
  BY DEF Unused
<1>2. machine[r] = None
  BY <1>1, Persist, QualificationAssumption DEF TypeOK
<1>3. CASE Measure(t) \/ Admit(t)
  <2>1. Running(t)
    BY <1>3 DEF Measure, Admit, Running
  <2>2. machine[cmd[t].run] \in Hosts /\ cmd[t].run \in Runs
    BY <2>1, Unfold DEF RunInv
  <2>3. cmd[t].run # r
    BY <1>2, <2>2, QualificationAssumption
  <2>4. results' = results \/ results' = [results EXCEPT ![CellOf(t)] = @ \cup {cmd[t].run}]
    BY <1>3, ResultsOnlyMeasured DEF Measure, Admit, files
  <2>5. freezeOf'[r] = freezeOf[r]
    BY <1>1, <1>3, <2>3 DEF Measure, Admit, TypeOK
  <2> QED BY <1>1, <1>2, <2>3, <2>4, <2>5 DEF Unused, TypeOK
<1>4. CASE ~Measure(t) /\ ~Admit(t)
  BY <1>1, <1>2, <1>4, ResultsOnlyMeasured, FreezeOnlyAdmitted DEF Unused
<1> QED BY <1>3, <1>4

LEMMA SessionKept ==
  ASSUME IInv, NEW t \in Terminals, Progress(t)
  PROVE  SessionBacked'
<1> USE DEF Captured, Entered, Measured
<1>1. TypeOK /\ SessionBacked
  BY DEF IInv, TypeInv, FileInv
<1> SUFFICES ASSUME NEW e \in session'
             PROVE  e.run \in results'[<<e.label, e.job>>]
  BY DEF SessionBacked, Backed
<1>2. CASE WriteStarted(t) \/ WriteEnded(t)
  <2>1. Running(t) /\ ~Begin(t)
    BY <1>2 DEF WriteStarted, WriteEnded, Running, Begin, Idle
  <2>2. cmd[t] \in Command /\ RunInv(t)
    BY <2>1, Unfold
  <2>3. CASE e \in cmd[t].seen
    BY <1>1, <2>2, <2>3, BackedKept DEF RunInv, Command
  <2>4. CASE e \notin cmd[t].seen
    <3>1. WriteEnded(t) /\ e = Terminal(t)
      BY <1>2, <2>4 DEF WriteStarted, WriteEnded
    <3>2. cmd[t].run \in results[CellOf(t)]
      BY <2>2, <3>1 DEF RunInv, WriteEnded
    <3> QED BY <3>1, <3>2 DEF WriteEnded, Terminal, CellOf
  <2> QED BY <2>3, <2>4
<1>3. CASE ~(WriteStarted(t) \/ WriteEnded(t))
  <2>1. session' = session
    BY <1>3 DEF Progress, Begin, Gate, Capture, Admit, ReadSession, EnterCell, Measure,
       MeasurementFails, Judge, WriteReceipt, Mint, WriteControl, WriteMarker, Crash, files
  <2> QED BY <1>1, <2>1, BackedKept DEF SessionBacked, TypeOK
<1> QED BY <1>2, <1>3

LEMMA ControlsKept ==
  ASSUME IInv, NEW t \in Terminals, Progress(t)
  PROVE  ControlsBound'
<1>1. TypeOK /\ ControlsBound
  BY DEF IInv, TypeInv, FileInv
<1> SUFFICES ASSUME NEW key \in ControlKeys, controls'[key] # None
             PROVE  /\ machine'[controls'[key].run] \in Hosts
                    /\ controls'[key].run \notin swapped' =>
                         machine'[controls'[key].run] = LedgerResource[controls'[key].ledger]
                    /\ controls'[key].result = controls'[key].run
                    /\ controls'[key].event = controls'[key].run
  BY DEF ControlsBound, Bound
<1>2. CASE WriteControl(t)
  <2>1. Running(t)
    BY <1>2 DEF WriteControl, Running
  <2>2. cmd[t].control \in Control /\ Bound(cmd[t].control)
    BY <1>2, <2>1, Unfold DEF MatchInv, WriteControl
  <2>3. controls'[key] \in {controls[key], cmd[t].control}
    BY <1>1, <1>2 DEF WriteControl, TypeOK
  <2> DEFINE k == controls'[key]
  <2>4. k \in Control /\ Bound(k)
    BY <1>1, <2>2, <2>3 DEF ControlsBound, TypeOK
  <2>5. \A c \in Control : Bound(c) => Bound(c)'
    BY <1>1, BoundKept
  <2> QED BY <2>4, <2>5 DEF Bound
<1>3. CASE ~WriteControl(t)
  <2>1. controls' = controls
    BY <1>3 DEF Progress, Begin, Gate, Capture, Admit, ReadSession, WriteStarted, EnterCell,
       Measure, MeasurementFails, Judge, WriteReceipt, WriteEnded, Mint, WriteMarker, Crash,
       files
  <2>2. \A c \in Control : Bound(c) => Bound(c)'
    BY <1>1, BoundKept
  <2> QED BY <1>1, <2>1, <2>2 DEF ControlsBound, TypeOK, Bound
<1> QED BY <1>2, <1>3

LEMMA ReceiptsOnlyWritten ==
  ASSUME NEW t \in Terminals, Progress(t), ~WriteReceipt(t)
  PROVE  receipts' = receipts
BY DEF Progress, Begin, Gate, Capture, Admit, ReadSession, WriteStarted, EnterCell, Measure,
       MeasurementFails, Judge, WriteEnded, Mint, WriteControl, WriteMarker, Crash, files

(* The receipt of a command names the instance it executed on.             *)
LEMMA WrittenReceipt ==
  ASSUME IInv, NEW t \in Terminals, WriteReceipt(t)
  PROVE  /\ machine' = machine /\ swapped' = swapped
         /\ receipts'[CellOf(t)].run = cmd[t].run
         /\ receipts'[CellOf(t)].matched = cmd[t].matched
         /\ receipts'[CellOf(t)].identity = machine[cmd[t].run]
         /\ \A cell \in Cells \ {CellOf(t)} : receipts'[cell] = receipts[cell]
         /\ IsTreatmentJob(cmd[t].job) =>
              /\ cmd[t].matched \in Control /\ cmd[t].matched # None
              /\ Bound(cmd[t].matched)
              /\ cmd[t].run \notin swapped =>
                   machine[cmd[t].run] = LedgerResource[cmd[t].matched.ledger]
<1> USE DEF Captured, Entered, Measured
<1>1. Running(t)
  BY DEF WriteReceipt, Running
<1>2. /\ TypeOK /\ CellOf(t) \in Cells
      /\ ReadInv(t) /\ MatchInv(t) /\ RunInv(t)
  BY <1>1, Unfold
<1>3. machine[cmd[t].run] = LedgerResource[cmd[t].gate]
  BY <1>2 DEF RunInv, WriteReceipt
<1>4. IsTreatmentJob(cmd[t].job) =>
        /\ cmd[t].matched \in Control /\ cmd[t].matched # None
        /\ Bound(cmd[t].matched)
        /\ cmd[t].run \notin swapped =>
             machine[cmd[t].run] = LedgerResource[cmd[t].matched.ledger]
  BY <1>2, <1>3 DEF MatchInv, ReadInv, InPair, WriteReceipt
<1>5. receipts' = [receipts EXCEPT ![CellOf(t)] =
         [run |-> cmd[t].run, stopped |-> cmd[t].stopped, matched |-> cmd[t].matched,
          identity |-> machine[cmd[t].run], ledger |-> ledger]]
  BY <1>3 DEF WriteReceipt
<1>6. receipts'[CellOf(t)] =
         [run |-> cmd[t].run, stopped |-> cmd[t].stopped, matched |-> cmd[t].matched,
          identity |-> machine[cmd[t].run], ledger |-> ledger]
  BY <1>2, <1>5 DEF TypeOK
<1>7. \A cell \in Cells \ {CellOf(t)} : receipts'[cell] = receipts[cell]
  BY <1>2, <1>5 DEF TypeOK
<1>8. machine' = machine /\ swapped' = swapped
  BY DEF WriteReceipt
<1> QED BY <1>4, <1>6, <1>7, <1>8

LEMMA ReceiptsKept ==
  ASSUME IInv, NEW t \in Terminals, Progress(t)
  PROVE  ReceiptsPlaced'
<1>1. TypeOK /\ ReceiptsPlaced
  BY DEF IInv, TypeInv, FileInv
<1>2. CASE WriteReceipt(t)
  BY <1>1, <1>2, WrittenReceipt DEF ReceiptsPlaced
<1>3. CASE ~WriteReceipt(t)
  <2>1. receipts' = receipts
    BY <1>3, ReceiptsOnlyWritten
  <2>2. \A cell \in Cells : receipts[cell] # None =>
          receipts[cell].run \in Runs /\ receipts[cell].identity \in Hosts
    BY <1>1 DEF TypeOK, Receipt
  <2> QED BY <1>1, <2>1, <2>2, Persist DEF ReceiptsPlaced
<1> QED BY <1>2, <1>3

LEMMA TreatmentsKept ==
  ASSUME IInv, NEW t \in Terminals, Progress(t)
  PROVE  TreatmentsBound'
<1>1. TypeOK /\ TreatmentsBound /\ ReceiptsPlaced
  BY DEF IInv, TypeInv, FileInv
<1> SUFFICES ASSUME NEW cell \in Cells, IsTreatmentJob(cell[2]), receipts'[cell] # None
             PROVE  LET r == receipts'[cell] IN
                    /\ r.matched \in Control /\ r.matched # None
                    /\ machine'[r.matched.run] \in Hosts
                    /\ r.matched.run \notin swapped' =>
                         machine'[r.matched.run] = LedgerResource[r.matched.ledger]
                    /\ r.matched.result = r.matched.run /\ r.matched.event = r.matched.run
                    /\ r.run \notin swapped' =>
                         machine'[r.run] = LedgerResource[r.matched.ledger]
  BY DEF TreatmentsBound, Bound
<1>2. CASE WriteReceipt(t) /\ cell = CellOf(t)
  <2>1. IsTreatmentJob(cmd[t].job)
    BY <1>2 DEF CellOf
  <2> QED BY <1>2, <2>1, WrittenReceipt DEF Bound
<1>3. CASE ~(WriteReceipt(t) /\ cell = CellOf(t))
  <2>1. receipts'[cell] = receipts[cell]
    BY <1>3, ReceiptsOnlyWritten, WrittenReceipt
  <2> DEFINE r == receipts[cell]
  <2>2. /\ r.matched \in Control /\ r.matched # None /\ Bound(r.matched)
        /\ r.run \notin swapped => machine[r.run] = LedgerResource[r.matched.ledger]
    BY <1>1, <2>1 DEF TreatmentsBound
  <2>3. Bound(r.matched)'
    <3>1. \A c \in Control : Bound(c) => Bound(c)'
      BY <1>1, BoundKept
    <3> QED BY <2>1, <2>2, <3>1 DEF Bound
  <2>4. r.run \in Runs /\ machine[r.run] \in Hosts
    BY <1>1, <2>1 DEF TypeOK, Receipt, ReceiptsPlaced
  <2>5. machine'[r.run] = machine[r.run] /\ swapped \subseteq swapped'
    BY <1>1, <2>4, Persist
  <2> QED BY <2>1, <2>2, <2>3, <2>5 DEF Bound
<1> QED BY <1>2, <1>3

LEMMA BaselinesKept ==
  ASSUME IInv, NEW t \in Terminals, Progress(t)
  PROVE  BaselineOnFreezeHost'
<1> USE DEF Captured, Entered, Measured
<1>1. TypeOK /\ BaselineOnFreezeHost /\ Unused
  BY DEF IInv, TypeInv, FileInv
<1> SUFFICES ASSUME NEW r \in Runs, freezeOf'[r] # None, NEW cell \in Cells,
                    r \in results'[cell]
             PROVE  machine'[r] = machine'[freezeOf'[r]]
  BY DEF BaselineOnFreezeHost
<1>2. CASE Measure(t) /\ cmd[t].run = r
  <2>1. Running(t)
    BY <1>2 DEF Measure, Running
  <2>2. RunInv(t) /\ FreezeInv(t)
    BY <2>1, Unfold
  <2> QED BY <1>2, <2>2 DEF RunInv, FreezeInv, Measure
<1>3. CASE ~(Measure(t) /\ cmd[t].run = r)
  <2>1. r \in results[cell]
    BY <1>1, <1>3, ResultsOnlyMeasured DEF Measure, TypeOK
  <2>2. freezeOf'[r] = freezeOf[r]
    <3>1. CASE Admit(t)
      <4>1. Running(t) /\ cmd[t].at = "admit"
        BY <3>1 DEF Admit, Running
      <4>2. cmd[t].run # r
        BY <2>1, <4>1, Unfold DEF RunInv
      <4> QED BY <1>1, <3>1, <4>2 DEF Admit, TypeOK
    <3>2. CASE ~Admit(t)
      BY <3>2, FreezeOnlyAdmitted
    <3> QED BY <3>1, <3>2
  <2>3. machine[r] = machine[freezeOf[r]]
    BY <1>1, <2>1, <2>2 DEF BaselineOnFreezeHost
  <2>4. machine[r] \in Hosts /\ freezeOf[r] \in Runs
    BY <1>1, <2>1, <2>2 DEF Unused, TypeOK
  <2> QED BY <1>1, <2>2, <2>3, <2>4, Persist
<1> QED BY <1>2, <1>3

-----------------------------------------------------------------------------
(* The invariant and the theorems. *)

LEMMA ApartKept ==
  ASSUME IInv, NEW t \in Terminals, Progress(t)
  PROVE  RunsApart'
<1>1. TypeOK /\ RunsApart
  BY DEF IInv, TypeInv
<1>2. \A u \in Terminals \ {t} : cmd'[u] = cmd[u]
  BY <1>1, OthersKeep
<1>3. ASSUME NEW u \in Terminals \ {t}, Running(u), Running(t)'
      PROVE  cmd'[t].run # cmd[u].run
  <2>1. machine[cmd[u].run] \in Hosts
    BY <1>3, Unfold DEF RunInv
  <2>2. CASE Begin(t)
    <3>1. PICK r \in FreshRun, h \in Hosts, label \in Labels, job \in Jobs,
               m \in Control \cup {None} : Enter(t, r, h, label, job, m)
      BY <1>1, <2>2, BeginFields
    <3>2. r \in Runs /\ machine[r] = None
      BY DEF FreshRun
    <3>3. cmd'[t].run = r
      BY <1>1, <3>1, <3>2, EnterFields
    <3> QED BY <2>1, <3>2, <3>3, QualificationAssumption
  <2>3. CASE ~Begin(t)
    BY <1>1, <1>3, <2>3, Steps, OwnFields DEF RunsApart, Keeps
  <2> QED BY <2>2, <2>3
<1> QED BY <1>1, <1>2, <1>3 DEF RunsApart, Running

LEMMA ProgressKeeps ==
  ASSUME IInv, NEW t \in Terminals, Progress(t)
  PROVE  IInv'
<1>1. TypeInv'
  BY NextType DEF IInv, Next
<1>2. CommandInv'
  <2> SUFFICES ASSUME NEW u \in Terminals, Running(u)'
               PROVE  (ReadInv(u) /\ MatchInv(u) /\ RunInv(u) /\ FreezeInv(u))'
    BY DEF CommandInv
  <2>1. CASE u # t
    BY <2>1, OthersInv
  <2>2. CASE u = t /\ Begin(t)
    BY <2>2, BeginOwn
  <2>3. CASE u = t /\ ~Begin(t)
    BY <2>3, OwnRead, OwnMatch, OwnRun, OwnFreeze
  <2> QED BY <2>1, <2>2, <2>3
<1>3. FileInv'
  BY UnusedKept, SessionKept, ControlsKept, ReceiptsKept, TreatmentsKept, BaselinesKept
     DEF FileInv
<1> QED BY <1>1, <1>2, <1>3, ApartKept DEF IInv

(* The operator's moves, wherever they fall.                               *)
LEMMA EnvironmentKeeps ==
  ASSUME IInv, ReplaceLedger \/ TogglePending
  PROVE  IInv'
<1>1. TypeInv'
  BY EnvironmentType DEF IInv
<1>2. UNCHANGED <<session, results, receipts, controls, cmd, machine, freezeOf, swapped>>
  BY DEF ReplaceLedger, TogglePending, files
<1>3. CommandInv'
  <2> SUFFICES ASSUME NEW t \in Terminals, Running(t)
               PROVE  (ReadInv(t) /\ MatchInv(t) /\ RunInv(t) /\ FreezeInv(t))'
    BY <1>2 DEF CommandInv, Running
  <2>1. ReadInv(t) /\ MatchInv(t) /\ RunInv(t) /\ FreezeInv(t)
    BY Unfold
  <2>2. ReadInv(t)'
    BY <1>2, <2>1 DEF ReadInv
  <2>3. MatchInv(t)'
    BY <1>2, <2>1 DEF MatchInv, Bound
  <2>4. RunInv(t)'
    BY <1>2, <2>1 DEF RunInv, Backed, CellOf
  <2>5. FreezeInv(t)'
    BY <1>2, <2>1 DEF FreezeInv
  <2> QED BY <2>2, <2>3, <2>4, <2>5
<1>4. RunsApart'
  BY <1>2 DEF IInv, RunsApart, Running
<1>5. FileInv'
  BY <1>2 DEF IInv, FileInv, Unused, SessionBacked, Backed, ControlsBound, Bound,
     ReceiptsPlaced, TreatmentsBound, BaselineOnFreezeHost
<1> QED BY <1>1, <1>3, <1>4, <1>5 DEF IInv

LEMMA InitInv == Init => IInv
<1> SUFFICES ASSUME Init PROVE IInv
  OBVIOUS
<1>1. TypeInv
  BY InitType
<1>2. \A t \in Terminals : ~Running(t)
  BY DEF Init, Running, Idle
<1>3. FileInv
  BY DEF Init, FileInv, Unused, SessionBacked, ControlsBound, ReceiptsPlaced,
     TreatmentsBound, BaselineOnFreezeHost
<1> QED BY <1>1, <1>2, <1>3 DEF IInv, RunsApart, CommandInv

LEMMA StutterKeeps == IInv /\ UNCHANGED vars => IInv'
<1> SUFFICES ASSUME IInv, UNCHANGED vars PROVE IInv'
  OBVIOUS
<1>1. TypeInv'
  BY NextType DEF IInv
<1>2. UNCHANGED <<ledger, session, results, receipts, controls, cmd, machine, freezeOf,
                  swapped>>
  BY DEF vars, files
<1>3. CommandInv'
  BY <1>2 DEF IInv, CommandInv, Running, ReadInv, MatchInv, RunInv, FreezeInv, Bound, Backed,
     CellOf
<1>4. RunsApart'
  BY <1>2 DEF IInv, RunsApart, Running
<1>5. FileInv'
  BY <1>2 DEF IInv, FileInv, Unused, SessionBacked, Backed, ControlsBound, Bound,
     ReceiptsPlaced, TreatmentsBound, BaselineOnFreezeHost
<1> QED BY <1>1, <1>3, <1>4, <1>5 DEF IInv

(* The invariant, whatever the operator does to the ledger meanwhile.      *)
THEOREM Inductive == Spec => []IInv
<1>1. IInv /\ [Next]_vars => IInv'
  BY ProgressKeeps, EnvironmentKeeps, StutterKeeps DEF Next
<1> QED BY <1>1, InitInv, PTL DEF Spec

LEMMA ControlsSound ==
  ASSUME IInv
  PROVE  ControlFromOneRun /\ ControlBoundUnlessSwapped
BY DEF IInv, FileInv, ControlsBound, Bound, StoredControls, ControlBoundUnlessSwapped,
       ControlFromOneRun

LEMMA TreatmentsSound ==
  ASSUME IInv
  PROVE  TreatmentComparable
<1> SUFFICES ASSUME NEW cell \in Cells, IsTreatmentJob(cell[2]), receipts[cell] # None
             PROVE  LET r == receipts[cell] IN
                    /\ r.matched # None
                    /\ r.run \notin swapped => machine[r.run] = LedgerResource[r.matched.ledger]
                    /\ {r.run, r.matched.run} \cap swapped = {} =>
                         machine[r.run] = machine[r.matched.run]
  BY DEF TreatmentComparable
<1> QED BY DEF IInv, FileInv, TreatmentsBound, Bound

LEMMA AuditsSound ==
  ASSUME IInv
  PROVE  AuditSound
<1> SUFFICES ASSUME AuditPasses
             PROVE  /\ \A key \in ControlKeys : controls[key] # None =>
                         /\ ~receipts[<<key[1], Development(key[2])>>].stopped
                         /\ controls[key].run \notin swapped =>
                              machine[controls[key].run] = LedgerResource[ledger]
                    /\ \A cell \in Cells :
                         IsTreatmentJob(cell[2]) /\ receipts[cell] # None =>
                           (receipts[cell].run \notin swapped =>
                              machine[receipts[cell].run] = LedgerResource[ledger])
  BY DEF AuditSound
<1>1. ASSUME NEW key \in ControlKeys, controls[key] # None
      PROVE  /\ ~receipts[<<key[1], Development(key[2])>>].stopped
             /\ controls[key].run \notin swapped =>
                  machine[controls[key].run] = LedgerResource[ledger]
  <2>1. key = <<key[1], key[2]>>
    BY DEF ControlKeys
  <2>2. AuditedControl(key[1], key[2])
    BY DEF AuditPasses
  <2>3. controls[key].ledger = ledger /\ BoundCompletion(key[2], key[1], controls[key])
    BY <1>1, <2>1, <2>2 DEF AuditedControl
  <2> QED BY <1>1, <2>3 DEF IInv, FileInv, ControlsBound, Bound, BoundCompletion,
             CompletedReceipt
<1>2. ASSUME NEW cell \in Cells, IsTreatmentJob(cell[2]), receipts[cell] # None,
             receipts[cell].run \notin swapped
      PROVE  machine[receipts[cell].run] = LedgerResource[ledger]
  <2>1. PICK key \in ControlKeys :
          /\ receipts[cell].matched = controls[key]
          /\ LedgerResource[controls[key].ledger] = LedgerResource[ledger]
    BY <1>2 DEF AuditPasses, AuditedTreatment
  <2> QED BY <1>2, <2>1 DEF IInv, FileInv, TreatmentsBound
<1> QED BY <1>1, <1>2

(* A control record binds the resource its measurement executed on, for    *)
(* any number of overlapping commands, crashes and replacements of the     *)
(* ledger at any moment, unless the very two reads of its own command      *)
(* (gate and capture) saw ledgers of two instances.                        *)
THEOREM ControlSafety == Spec => []ControlBoundUnlessSwapped
BY Inductive, ControlsSound, PTL

(* It digests the result, the receipt and the event of one execution,      *)
(* wherever the operator's replacements of the ledger fall.                *)
THEOREM ControlUnity == Spec => []ControlFromOneRun
BY Inductive, ControlsSound, PTL

(* A treatment is measured on the instance its control binds unless its    *)
(* own two reads differed, and on the instance the control was measured on *)
(* unless those of either did.                                             *)
THEOREM TreatmentSafety == Spec => []TreatmentComparable
BY Inductive, TreatmentsSound, PTL

(* What the audit accepts was judged complete and measured on the resource *)
(* of today's ledger, executions whose two reads differed excepted.        *)
THEOREM AuditSafety == Spec => []AuditSound
BY Inductive, AuditsSound, PTL

(* A baseline executes on the machine its freeze was measured on, wherever *)
(* the operator's replacements of the ledger fall.                         *)
THEOREM BaselineSafety == Spec => []BaselineOnFreezeHost
<1>1. IInv => BaselineOnFreezeHost
  BY DEF IInv, FileInv
<1> QED BY <1>1, Inductive, PTL
=============================================================================
