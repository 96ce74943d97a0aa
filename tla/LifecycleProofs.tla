---------------------------- MODULE LifecycleProofs ----------------------------
(***************************************************************************)
(* What holds of the lifecycle for any number of resources, plans and       *)
(* console actions, with a second terminal that may plan at any moment.     *)
(***************************************************************************)
EXTENDS Lifecycle, TLAPS

(* The inductive invariant *)

\* A provider id appears in state, ledger or terraform's hands only after the
\* provider has issued it; it is never issued again.
IssuedIds ==
    \A key \in Keys :
        key \in KeysOf(state) \union LedgerKeys \union tf.open =>
            cloud[key] # "unused"

\* What terraform has created and not yet recorded is in neither record.
OpenIsNew ==
    tf.job = "apply" =>
        \A key \in tf.open : /\ key \notin KeysOf(state) \union LedgerKeys
                             /\ key[1] \notin tf.todo

\* Terraform creates at an address only if what the state holds there is gone.
CreatesAbsent ==
    /\ ~bin["apply"].stale =>
          \A k \in bin["apply"].ops : <<k, state[k]>> \notin Visible
    /\ tf.job = "apply" => \A k \in tf.todo : <<k, state[k]>> \notin Visible

\* Where the command stands, seen from terraform and from the pending file.
Attempting == ctl.cmd \in Stages /\ ctl.at \in {"exec", "wait", "ran"}
Destroying == ctl.cmd = "destroy" /\ ctl.at \in {"exec", "wait", "ran"}
InStep ==
    /\ tf.job # "none" /\ tf.owned => ctl.at = "wait" /\ ctl.cmd = tf.job
    /\ ctl.at \in {"exec", "wait"} => ctl.cmd \in Stages
    /\ Attempting => pending # "none"
    /\ ctl.at = "ran" /\ ctl.exit = "ok" => tf.job = "none"

\* An apply that still has something to create leaves no clean ledger that a
\* command is about to trust.
Unfinished == tf.job = "apply" /\ tf.todo # {}
UnfinishedIsFlagged ==
    Unfinished /\ ledger.reconciled =>
        pending # "none" /\ ctl.at # "clear" /\ ~Destroying

\* A clean ledger that misses a resource is out of date for good: one of its own
\* resources has left the state or the provider, so that teardown refuses it.
Outdated ==
    \E k \in Kinds : \/ state[k] # ledger.res[k]
                     \/ <<k, ledger.res[k]>> \notin Visible
CleanIsComplete ==
    ledger.reconciled =>
        /\ KindsOf(ledger.res) = Kinds
        /\ \/ Visible \subseteq LedgerKeys
           \/ pending # "none" /\ ctl.at # "clear" /\ ~Destroying /\ Outdated

IInv ==
    /\ TypeOK
    /\ IssuedIds
    /\ OpenIsNew
    /\ CreatesAbsent
    /\ InStep
    /\ UnfinishedIsFlagged
    /\ CleanIsComplete
    /\ ConfirmedMeansGone

------------------------------------------------------------------------------
(* Type correctness *)

USE DEF Kinds, Stages

LEMMA TypeInit == Init => TypeOK
  BY IdsAssumption, BoundsAssumption
  DEF Init, TypeOK, Idle, NoJob, Empty, Resources, Statuses, Plans, Metas,
      Ledgers, Commands, Points, Exits, Controls, Jobs, Events

LEMMA PlanKeepsType ==
  ASSUME TypeOK, NEW s \in Stages, PlanBinary(s) \/ PlanMeta(s) \/ PlanFails
  PROVE  TypeOK'
<1>1. CASE PlanBinary(s)
  <2>1. PlannedOps(s) \subseteq Kinds
    BY DEF PlannedOps, KindsOf
  <2>2. nplans + 1 \in 0..MaxPlans
    BY <1>1, BoundsAssumption DEF PlanBinary, TypeOK
  <2>3. bin' \in [Stages -> Plans]
    BY <1>1, <2>1, <2>2 DEF PlanBinary, TypeOK, Plans
  <2> QED
    BY <1>1, <2>2, <2>3 DEF PlanBinary, TypeOK, provider, records
<1>2. CASE PlanMeta(s)
  <2>1. meta' \in [Stages -> Metas]
    BY <1>2 DEF PlanMeta, TypeOK, Plans, Metas
  <2> QED
    BY <1>2, <2>1 DEF PlanMeta, TypeOK, provider, records
<1>3. CASE PlanFails
  BY <1>3 DEF PlanFails, TypeOK, provider, records
<1> QED
  BY <1>1, <1>2, <1>3

LEMMA AttemptKeepsType ==
  ASSUME TypeOK, NEW sha \in 1..MaxPlans, ApplyBegin(sha) \/ DestroyBegin(sha)
  PROVE  TypeOK'
<1>1. sha \in 0..MaxPlans
  BY BoundsAssumption
<1>2. CASE ApplyBegin(sha)
  BY <1>1, <1>2 DEF ApplyBegin, TypeOK, Controls, Commands, Points, Exits,
     provider, plans
<1>3. CASE DestroyBegin(sha)
  BY <1>1, <1>3 DEF DestroyBegin, TypeOK, Controls, Commands, Points, Exits,
     provider, plans
<1> QED
  BY <1>2, <1>3

LEMMA StartKeepsType ==
  ASSUME TypeOK, InStep, StartTerraform
  PROVE  TypeOK'
<1>1. ctl' \in Controls
  BY DEF StartTerraform, TypeOK, Controls, Points, Exits
<1>2. tf' \in Jobs
  <2>1. CASE UNCHANGED tf
    BY <2>1 DEF TypeOK
  <2>2. CASE tf' = [job |-> ctl.cmd, todo |-> bin[ctl.cmd].ops, open |-> {},
                    owned |-> TRUE, sha |-> bin[ctl.cmd].sha]
    <3>1. ctl.cmd \in Stages
      BY DEF StartTerraform, InStep
    <3>2. bin[ctl.cmd] \in Plans
      BY <3>1 DEF TypeOK
    <3> QED
      BY <2>2, <3>1, <3>2 DEF Jobs, Plans
  <2> QED
    BY <2>1, <2>2 DEF StartTerraform
<1> QED
  BY <1>1, <1>2 DEF StartTerraform, TypeOK, provider, plans, records

LEMMA TerraformKeepsType ==
  ASSUME TypeOK, Terraform
  PROVE  TypeOK'
<1>1. ASSUME NEW k \in Kinds, NEW id \in Ids, TfCreate(k, id)
      PROVE  TypeOK'
  <2>1. <<k, id>> \in Keys
    BY DEF Keys
  <2>2. cloud' \in [Keys -> Statuses]
    BY <1>1, <2>1 DEF TfCreate, TypeOK, Statuses
  <2>3. tf' \in Jobs
    BY <1>1, <2>1 DEF TfCreate, TypeOK, Jobs
  <2> QED
    BY <1>1, <2>2, <2>3 DEF TfCreate, TypeOK, plans, records
<1>2. ASSUME NEW k \in Kinds, TfDelete(k)
      PROVE  TypeOK'
  <2>1. <<k, state[k]>> \in Keys
    BY <1>2 DEF TfDelete, TypeOK, Resources, Keys
  <2>2. cloud' \in [Keys -> Statuses]
    BY <1>2, <2>1 DEF TfDelete, TypeOK, Statuses
  <2>3. tf' \in Jobs
    BY <1>2, <2>1 DEF TfDelete, TypeOK, Jobs
  <2> QED
    BY <1>2, <2>2, <2>3 DEF TfDelete, TypeOK, plans, records
<1>3. CASE TfRecord
  <2>1. PICK key \in tf.open :
           WriteState(key[1], IF tf.job = "apply" THEN key[2] ELSE NoId)
    BY <1>3 DEF TfRecord
  <2>2. key[1] \in Kinds /\ key[2] \in Ids
    BY <2>1 DEF TypeOK, Jobs, Keys
  <2>3. state' \in Resources
    BY <2>1, <2>2 DEF WriteState, TypeOK, Resources
  <2>4. bin' \in [Stages -> Plans]
    BY <2>1 DEF WriteState, TypeOK, Plans
  <2>5. meta' \in [Stages -> Metas]
    BY <2>1 DEF WriteState, TypeOK, Metas
  <2>6. tf' \in Jobs
    BY <1>3 DEF TfRecord, TypeOK, Jobs
  <2> QED
    BY <1>3, <2>3, <2>4, <2>5, <2>6 DEF TfRecord, TypeOK, provider, records
<1>4. ASSUME NEW code \in {"ok", "failed"}, TfExit(code)
      PROVE  TypeOK'
  <2>1. tf' \in Jobs
    BY <1>4, BoundsAssumption DEF TfExit, NoJob, Jobs
  <2>2. ctl' \in Controls
    BY <1>4 DEF TfExit, TypeOK, Controls, Points, Exits
  <2> QED
    BY <1>4, <2>1, <2>2 DEF TfExit, TypeOK, provider, plans, records
<1> QED
  BY <1>1, <1>2, <1>3, <1>4 DEF Terraform

LEMMA RecordKeepsType ==
  ASSUME TypeOK,
         \/ \E readable, checked \in BOOLEAN : ReconcileLedger(readable, checked)
         \/ ReconcileBegin \/ ClearPending \/ Report
         \/ ConfirmDeletion \/ ConfirmTimeout \/ RecoverEmptyApply
  PROVE  TypeOK'
<1> USE BoundsAssumption
<1>1. Idle \in Controls
  BY DEF Idle, Controls, Commands, Points, Exits
<1>2. ASSUME NEW readable \in BOOLEAN, NEW checked \in BOOLEAN,
             ReconcileLedger(readable, checked)
      PROVE  TypeOK'
  <2> DEFINE res == IF readable THEN state ELSE Empty
             clean == CleanReconciliation(readable, checked, res)
  <2>1. res \in Resources /\ clean \in BOOLEAN
    BY DEF TypeOK, Empty, Resources, CleanReconciliation
  <2>2. ledger' \in Ledgers
    BY <1>2, <2>1 DEF ReconcileLedger, Ledgers
  <2>3. ctl' \in Controls
    BY <1>2 DEF ReconcileLedger, TypeOK, Controls, Points
  <2> QED
    BY <1>2, <2>2, <2>3 DEF ReconcileLedger, TypeOK, provider, plans
<1>3. CASE ReconcileBegin
  BY <1>3, <1>1 DEF ReconcileBegin, TypeOK, Controls, Commands, Points, Idle,
     provider, plans, records
<1>4. CASE ClearPending
  BY <1>4 DEF ClearPending, TypeOK, Controls, Points, provider, plans
<1>5. CASE Report
  <2>1. EventOf(ctl.cmd) \subseteq Events
    BY DEF EventOf
  <2> QED
    BY <1>1, <1>5, <2>1 DEF Report, TypeOK, provider, plans
<1>6. CASE ConfirmDeletion
  BY <1>6 DEF ConfirmDeletion, TypeOK, Controls, Points, Ledgers, provider, plans
<1>7. CASE ConfirmTimeout
  BY <1>1, <1>7 DEF ConfirmTimeout, TypeOK, provider, plans, records
<1>8. CASE RecoverEmptyApply
  BY <1>8, <1>1 DEF RecoverEmptyApply, TypeOK, Controls, Commands, Points, Idle,
     Ledgers, provider, plans
<1> QED
  BY <1>2, <1>3, <1>4, <1>5, <1>6, <1>7, <1>8

LEMMA WorldKeepsType ==
  ASSUME TypeOK, World
  PROVE  TypeOK'
<1>1. CASE Crash
  <2>1. ctl' \in Controls
    BY <1>1, BoundsAssumption
    DEF Crash, Idle, Controls, Commands, Points, Exits
  <2>2. tf' \in Jobs
    <3>1. CASE tf' = NoJob
      BY <3>1, BoundsAssumption DEF NoJob, Jobs
    <3>2. CASE tf' = [tf EXCEPT !.owned = FALSE]
      BY <3>2 DEF TypeOK, Jobs
    <3> QED
      BY <1>1, <3>1, <3>2 DEF Crash
  <2> QED
    BY <1>1, <2>1, <2>2 DEF Crash, TypeOK, provider, plans, records
<1>2. CASE Drift
  <2>1. meta' \in [Stages -> Metas]
    BY <1>2 DEF Drift, TypeOK, Metas
  <2> QED
    BY <1>2, <2>1 DEF Drift, TypeOK, provider, records
<1>3. ASSUME NEW key \in Keys,
             DeletionCompletes(key) \/ ConsoleDelete(key) \/ ConsoleEdit(key)
      PROVE  TypeOK'
  <2>1. cloud' \in [Keys -> Statuses]
    BY <1>3 DEF DeletionCompletes, ConsoleDelete, ConsoleEdit, TypeOK, Statuses
  <2>2. meddlings' \in 0..MaxMeddlings
    BY <1>3, BoundsAssumption
    DEF DeletionCompletes, ConsoleDelete, ConsoleEdit, Meddle, TypeOK
  <2> QED
    BY <1>3, <2>1, <2>2
    DEF DeletionCompletes, ConsoleDelete, ConsoleEdit, TypeOK, plans, records
<1> QED
  BY <1>1, <1>2, <1>3 DEF World

------------------------------------------------------------------------------
(* The inductive invariant: the initial states and the simple conjuncts *)

LEMMA InitInv == Init => IInv
<1> SUFFICES ASSUME Init PROVE IInv
  OBVIOUS
<1>1. TypeOK
  BY TypeInit
<1>2. Visible = {}
  BY DEF Init, Visible
<1>3. IssuedIds /\ OpenIsNew
  BY IdsAssumption
  DEF Init, IssuedIds, OpenIsNew, NoJob, KeysOf, LedgerKeys, Empty, Keys
<1>4. CreatesAbsent /\ InStep /\ UnfinishedIsFlagged
  BY <1>2 DEF Init, CreatesAbsent, InStep, UnfinishedIsFlagged, Unfinished,
     Attempting, Idle, NoJob
<1>5. CleanIsComplete /\ ConfirmedMeansGone
  BY DEF Init, CleanIsComplete, ConfirmedMeansGone
<1> QED
  BY <1>1, <1>3, <1>4, <1>5 DEF IInv

------------------------------------------------------------------------------
(* Which steps write what *)

LEMMA WritesCloud ==
  ASSUME Next
  PROVE  \/ UNCHANGED cloud
         \/ \E k \in Kinds, id \in Ids : TfCreate(k, id)
         \/ \E k \in Kinds : TfDelete(k)
         \/ \E key \in Keys : DeletionCompletes(key) \/ ConsoleDelete(key)
  BY DEF Next, Operator, Command, Terraform, World, provider, PlanBinary, PlanMeta,
     PlanFails, ApplyBegin, DestroyBegin, StartTerraform, TfRecord, TfExit,
     ReconcileBegin, ReconcileLedger, ClearPending, Report, ConfirmDeletion,
     ConfirmTimeout, RecoverEmptyApply, Crash, Drift, ConsoleEdit

LEMMA WritesState ==
  ASSUME Next
  PROVE  UNCHANGED state \/ TfRecord
  BY DEF Next, Operator, Command, Terraform, World, PlanBinary, PlanMeta,
     PlanFails, ApplyBegin, DestroyBegin, StartTerraform, TfCreate, TfDelete,
     TfExit, ReconcileBegin, ReconcileLedger, ClearPending, Report,
     ConfirmDeletion, ConfirmTimeout, RecoverEmptyApply, Crash, Drift,
     DeletionCompletes, ConsoleDelete, ConsoleEdit

LEMMA WritesBin ==
  ASSUME Next
  PROVE  \/ UNCHANGED bin
         \/ \E s \in Stages : PlanBinary(s)
         \/ TfRecord
  BY DEF Next, Operator, Command, Terraform, World, plans, PlanMeta,
     PlanFails, ApplyBegin, DestroyBegin, StartTerraform, TfCreate, TfDelete,
     TfExit, ReconcileBegin, ReconcileLedger, ClearPending, Report,
     ConfirmDeletion, ConfirmTimeout, RecoverEmptyApply, Crash, Drift,
     DeletionCompletes, ConsoleDelete, ConsoleEdit

LEMMA WritesTf ==
  ASSUME Next
  PROVE  UNCHANGED tf \/ StartTerraform \/ Terraform \/ Crash
  BY DEF Next, Operator, Command, World, PlanBinary, PlanMeta, PlanFails,
     ApplyBegin, DestroyBegin, ReconcileBegin, ReconcileLedger, ClearPending,
     Report, ConfirmDeletion, ConfirmTimeout, RecoverEmptyApply, Drift,
     DeletionCompletes, ConsoleDelete, ConsoleEdit

LEMMA WritesLedger ==
  ASSUME Next
  PROVE  \/ UNCHANGED ledger
         \/ \E readable, checked \in BOOLEAN : ReconcileLedger(readable, checked)
         \/ ConfirmDeletion
         \/ RecoverEmptyApply
  BY DEF Next, Operator, Command, Terraform, World, records, PlanBinary, PlanMeta,
     PlanFails, ApplyBegin, DestroyBegin, StartTerraform, TfCreate, TfDelete,
     TfRecord, TfExit, ReconcileBegin, ClearPending, Report, ConfirmTimeout, Crash,
     Drift, DeletionCompletes, ConsoleDelete, ConsoleEdit

\* The steps of a command, which move ctl or pending; all others leave both alone.
Progress ==
    \/ \E sha \in 1..MaxPlans : ApplyBegin(sha) \/ DestroyBegin(sha)
    \/ StartTerraform
    \/ \E code \in {"ok", "failed"} : TfExit(code)
    \/ ReconcileBegin
    \/ \E readable, checked \in BOOLEAN : ReconcileLedger(readable, checked)
    \/ ClearPending
    \/ Report
    \/ ConfirmDeletion
    \/ ConfirmTimeout
    \/ RecoverEmptyApply
    \/ Crash

LEMMA WritesCtl ==
  ASSUME Next
  PROVE  UNCHANGED <<ctl, pending>> \/ Progress
  BY DEF Next, Operator, Command, Terraform, World, Progress, records, PlanBinary,
     PlanMeta, PlanFails, TfCreate, TfDelete, TfRecord, Drift, DeletionCompletes,
     ConsoleDelete, ConsoleEdit

\* A reconciliation copies the state it could read and calls the ledger
\* reconciled exactly when the command goes on to clear the pending record.
LEMMA Reconciliation ==
  ASSUME TypeOK, NEW readable \in BOOLEAN, NEW checked \in BOOLEAN,
         ReconcileLedger(readable, checked)
  PROVE  /\ ledger'.res = IF readable THEN state ELSE Empty
         /\ ledger'.reconciled = CleanReconciliation(readable, checked, ledger'.res)
         /\ ledger'.destroyed = FALSE
         /\ ctl'.cmd = ctl.cmd /\ ctl'.exit = ctl.exit
         /\ ctl'.at = IF ledger'.reconciled THEN "clear" ELSE "report"
         /\ UNCHANGED <<cloud, state, bin, pending, tf>>
<1> DEFINE res == IF readable THEN state ELSE Empty
           clean == CleanReconciliation(readable, checked, res)
<1>1. ledger' = [exists |-> TRUE, res |-> res, checked |-> checked,
                 reconciled |-> clean, destroyed |-> FALSE]
  BY DEF ReconcileLedger
<1>2. ctl' = [ctl EXCEPT !.at = IF clean THEN "clear" ELSE "report"]
  BY DEF ReconcileLedger
<1> HIDE DEF clean
<1>3. ctl'.cmd = ctl.cmd /\ ctl'.exit = ctl.exit
      /\ ctl'.at = IF clean THEN "clear" ELSE "report"
  BY <1>2 DEF TypeOK, Controls
<1> QED
  BY <1>1, <1>3 DEF clean, ReconcileLedger, provider, plans

\* Terraform takes the whole plan up, or refuses it and changes nothing.
LEMMA Starting ==
  ASSUME TypeOK, StartTerraform
  PROVE  /\ ctl.at = "exec" /\ ctl'.cmd = ctl.cmd
         /\ UNCHANGED <<cloud, state, bin, ledger, pending>>
         /\ \/ tf' = tf /\ ctl'.at = "ran" /\ ctl'.exit = "failed"
            \/ /\ ctl'.at = "wait" /\ ~bin[ctl.cmd].stale
               /\ tf'.job = ctl.cmd /\ tf'.todo = bin[ctl.cmd].ops /\ tf'.open = {}
<1>1. CASE ctl' = [ctl EXCEPT !.at = "wait"] /\ ~bin[ctl.cmd].stale
           /\ tf' = [job |-> ctl.cmd, todo |-> bin[ctl.cmd].ops, open |-> {},
                     owned |-> TRUE, sha |-> bin[ctl.cmd].sha]
  BY <1>1 DEF StartTerraform, TypeOK, Controls, provider, plans, records
<1>2. CASE ctl' = [ctl EXCEPT !.at = "ran", !.exit = "failed"] /\ UNCHANGED tf
  BY <1>2 DEF StartTerraform, TypeOK, Controls, provider, plans, records
<1> QED
  BY <1>1, <1>2 DEF StartTerraform

\* A killed command takes its terraform along or leaves an orphan behind.
LEMMA Orphaning ==
  ASSUME TypeOK, Crash
  PROVE  /\ ctl' = Idle
         /\ UNCHANGED <<cloud, state, bin, ledger, pending>>
         /\ \/ tf'.job = "none" /\ tf'.todo = {} /\ tf'.open = {}
            \/ /\ tf'.job = tf.job /\ tf'.todo = tf.todo
               /\ tf'.open = tf.open /\ tf'.owned = FALSE
<1>1. CASE tf' = [tf EXCEPT !.owned = FALSE]
  BY <1>1 DEF Crash, TypeOK, Jobs, provider, plans, records
<1>2. CASE tf' = NoJob
  BY <1>2 DEF Crash, NoJob, provider, plans, records
<1> QED
  BY <1>1, <1>2 DEF Crash

------------------------------------------------------------------------------
(* Issued ids *)

LEMMA CloudKeepsIssued ==
  ASSUME TypeOK, Next, NEW key \in Keys, cloud[key] # "unused"
  PROVE  cloud'[key] # "unused"
<1>1. ASSUME NEW k \in Kinds, NEW id \in Ids, TfCreate(k, id)
      PROVE  cloud'[key] # "unused"
  BY <1>1 DEF TfCreate, TypeOK
<1>2. ASSUME NEW k \in Kinds, TfDelete(k)
      PROVE  cloud'[key] # "unused"
  BY <1>2 DEF TfDelete, TypeOK
<1>3. ASSUME NEW q \in Keys, DeletionCompletes(q) \/ ConsoleDelete(q)
      PROVE  cloud'[key] # "unused"
  BY <1>3 DEF DeletionCompletes, ConsoleDelete, TypeOK
<1> QED
  BY <1>1, <1>2, <1>3, WritesCloud

\* Nothing but a creation makes a key visible, and only one that was never used.
LEMMA OnlyCreationShows ==
  ASSUME TypeOK, Next
  PROVE  \/ Visible' \subseteq Visible
         \/ \E k \in Kinds, id \in Ids :
               /\ TfCreate(k, id)
               /\ cloud[<<k, id>>] = "unused"
               /\ Visible' = Visible \union {<<k, id>>}
<1>1. ASSUME NEW k \in Kinds, NEW id \in Ids, TfCreate(k, id)
      PROVE  /\ cloud[<<k, id>>] = "unused"
             /\ Visible' = Visible \union {<<k, id>>}
  BY <1>1 DEF TfCreate, TypeOK, Visible, Keys
<1>2. ASSUME NEW k \in Kinds, TfDelete(k)
      PROVE  Visible' \subseteq Visible
  BY <1>2 DEF TfDelete, TypeOK, Visible
<1>3. ASSUME NEW q \in Keys, DeletionCompletes(q) \/ ConsoleDelete(q)
      PROVE  Visible' \subseteq Visible
  BY <1>3 DEF DeletionCompletes, ConsoleDelete, TypeOK, Visible
<1>4. CASE UNCHANGED cloud
  BY <1>4 DEF Visible
<1> QED
  BY <1>1, <1>2, <1>3, <1>4, WritesCloud

LEMMA IssuedIdsStep ==
  ASSUME TypeOK, IssuedIds, Next
  PROVE  IssuedIds'
<1> SUFFICES ASSUME NEW key \in Keys,
                    key \in (KeysOf(state) \union LedgerKeys \union tf.open)'
             PROVE  cloud'[key] # "unused"
  BY DEF IssuedIds
<1>1. CASE key \in KeysOf(state) \union LedgerKeys \union tf.open
  BY <1>1, CloudKeepsIssued DEF IssuedIds
<1>2. CASE key \in KeysOf(state)' \ KeysOf(state)
  <2>1. TfRecord
    BY <1>2, WritesState DEF KeysOf
  <2>2. key \in tf.open
    BY <1>2, <2>1, IdsAssumption
    DEF TfRecord, WriteState, KeysOf, Keys, TypeOK, Resources, Jobs
  <2> QED
    BY <2>2, <1>1
<1>3. CASE key \in LedgerKeys' \ LedgerKeys
  <2>1. ledger'.res # ledger.res
    BY <1>3 DEF LedgerKeys, KeysOf
  <2>2. ledger'.res \in {state, Empty}
    BY <2>1, WritesLedger, Reconciliation
    DEF ConfirmDeletion, RecoverEmptyApply, TypeOK, Ledgers
  <2>3. key \in KeysOf(state)
    BY <1>3, <2>2, IdsAssumption DEF LedgerKeys, KeysOf, Empty, Keys
  <2> QED
    BY <2>3, <1>1
<1>4. CASE key \in tf'.open \ tf.open
  <2>1. \/ \E k \in Kinds, id \in Ids : TfCreate(k, id) /\ key = <<k, id>>
        \/ \E k \in Kinds : TfDelete(k) /\ key = <<k, state[k]>>
    <3>1. ~StartTerraform /\ ~Crash
      BY <1>4 DEF StartTerraform, Crash, NoJob, TypeOK, Jobs
    <3>2. ~TfRecord /\ ~(\E code \in {"ok", "failed"} : TfExit(code))
      BY <1>4 DEF TfRecord, TfExit, NoJob, TypeOK, Jobs
    <3>3. ASSUME NEW k \in Kinds, NEW id \in Ids, TfCreate(k, id)
          PROVE  key = <<k, id>>
      BY <1>4, <3>3 DEF TfCreate, TypeOK, Jobs
    <3>4. ASSUME NEW k \in Kinds, TfDelete(k)
          PROVE  key = <<k, state[k]>>
      BY <1>4, <3>4 DEF TfDelete, TypeOK, Jobs
    <3> QED
      BY <1>4, <3>1, <3>2, <3>3, <3>4, WritesTf DEF Terraform
  <2>2. CASE \E k \in Kinds, id \in Ids : TfCreate(k, id) /\ key = <<k, id>>
    BY <2>2 DEF TfCreate, TypeOK
  <2>3. CASE \E k \in Kinds : TfDelete(k) /\ key = <<k, state[k]>>
    BY <2>3, <1>1 DEF TfDelete, KeysOf
  <2> QED
    BY <2>1, <2>2, <2>3
<1> QED
  BY <1>1, <1>2, <1>3, <1>4

LEMMA OpenIsNewStep ==
  ASSUME TypeOK, IssuedIds, OpenIsNew, Next
  PROVE  OpenIsNew'
<1> SUFFICES ASSUME tf'.job = "apply", NEW key \in tf'.open
             PROVE  /\ key \notin (KeysOf(state) \union LedgerKeys)'
                    /\ key[1] \notin tf'.todo
  BY DEF OpenIsNew
<1>1. CASE UNCHANGED tf
  <2>1. key \notin KeysOf(state) \union LedgerKeys /\ key[1] \notin tf.todo
    BY <1>1 DEF OpenIsNew
  <2>2. UNCHANGED state
    BY <1>1, WritesState DEF TfRecord, TypeOK, Jobs
  <2>3. ledger'.res \in {ledger.res, state, Empty}
    BY WritesLedger, Reconciliation
    DEF ConfirmDeletion, RecoverEmptyApply, TypeOK, Ledgers
  <2>4. key \in Keys
    BY <1>1 DEF TypeOK, Jobs
  <2> QED
    BY <1>1, <2>1, <2>2, <2>3, <2>4, IdsAssumption
    DEF LedgerKeys, KeysOf, Empty, Keys
<1>2. ASSUME NEW k \in Kinds, NEW id \in Ids, TfCreate(k, id)
      PROVE  /\ key \notin (KeysOf(state) \union LedgerKeys)'
             /\ key[1] \notin tf'.todo
  <2>1. key = <<k, id>> /\ cloud[key] = "unused" /\ key \in Keys
    BY <1>2 DEF TfCreate, TypeOK, Jobs, Keys
  <2>2. tf'.todo = tf.todo \ {k}
    BY <1>2 DEF TfCreate, TypeOK, Jobs
  <2>3. UNCHANGED <<state, ledger>>
    BY <1>2 DEF TfCreate, records
  <2> QED
    BY <2>1, <2>2, <2>3 DEF IssuedIds, LedgerKeys, KeysOf
<1>3. CASE Crash
  <2>1. UNCHANGED <<state, ledger>>
    BY <1>3, Orphaning
  <2>2. tf.job = "apply" /\ key \in tf.open /\ tf'.todo = tf.todo
    BY <1>3, Orphaning
  <2> QED
    BY <2>1, <2>2 DEF OpenIsNew, LedgerKeys, KeysOf
<1>4. ~StartTerraform \/ UNCHANGED tf
  BY DEF StartTerraform, TypeOK, Jobs
<1>5. ~(\E k \in Kinds : TfDelete(k)) /\ ~TfRecord
  BY DEF TfDelete, TfRecord, TypeOK, Jobs
<1>6. ~(\E code \in {"ok", "failed"} : TfExit(code))
  BY DEF TfExit, NoJob
<1> QED
  BY <1>1, <1>2, <1>3, <1>4, <1>5, <1>6, WritesTf DEF Terraform

------------------------------------------------------------------------------
(* Terraform creates only what is absent *)

\* A recorded id that is not visible stays invisible: its deletion is final.
LEMMA GoneStaysGone ==
  ASSUME TypeOK, Next, NEW key \in Keys, cloud[key] # "unused", key \notin Visible
  PROVE  key \notin Visible'
<1>1. ASSUME NEW k \in Kinds, NEW id \in Ids, cloud[<<k, id>>] = "unused",
             Visible' = Visible \union {<<k, id>>}
      PROVE  key \notin Visible'
  BY <1>1
<1> QED
  BY <1>1, OnlyCreationShows

LEMMA AbsentStaysAbsent ==
  ASSUME TypeOK, IssuedIds, Next, UNCHANGED state,
         NEW k \in Kinds, <<k, state[k]>> \notin Visible
  PROVE  (<<k, state[k]>> \notin Visible)'
<1>1. CASE state[k] \in Ids
  <2>1. <<k, state[k]>> \in KeysOf(state) /\ <<k, state[k]>> \in Keys
    BY <1>1 DEF KeysOf, Keys
  <2> QED
    BY <2>1, GoneStaysGone DEF IssuedIds
<1>2. CASE state[k] = NoId
  BY <1>2, IdsAssumption DEF Visible, Keys
<1> QED
  BY <1>1, <1>2 DEF TypeOK, Resources

LEMMA CreatesAbsentStep ==
  ASSUME TypeOK, IssuedIds, OpenIsNew, CreatesAbsent, InStep, Next
  PROVE  CreatesAbsent'
<1>1. ASSUME ~bin'["apply"].stale, NEW k \in bin'["apply"].ops
      PROVE  (<<k, state[k]>> \notin Visible)'
  <2>1. UNCHANGED state /\ ~TfRecord
    BY <1>1, WritesState DEF TfRecord, WriteState, TypeOK, Plans
  <2>2. k \in Kinds /\ <<k, state[k]>> \notin Visible
    <3>1. CASE bin'["apply"] = bin["apply"]
      BY <1>1, <3>1 DEF CreatesAbsent, TypeOK, Plans
    <3>2. CASE PlanBinary("apply")
      <4>1. bin'["apply"].ops = PlannedOps("apply")
        BY <3>2 DEF PlanBinary, TypeOK
      <4>2. PlannedOps("apply") =
               Kinds \ {q \in KindsOf(state) : <<q, state[q]>> \in Visible}
        BY DEF PlannedOps
      <4> QED
        BY <1>1, <4>1, <4>2, IdsAssumption DEF KindsOf, Visible, Keys
    <3>3. CASE PlanBinary("destroy")
      BY <3>1, <3>3 DEF PlanBinary, TypeOK
    <3> QED
      BY <2>1, <3>1, <3>2, <3>3, WritesBin
  <2> QED
    BY <2>1, <2>2, AbsentStaysAbsent
<1>2. ASSUME tf'.job = "apply", NEW k \in tf'.todo
      PROVE  (<<k, state[k]>> \notin Visible)'
  <2>1. CASE ~TfRecord
    <3>1. UNCHANGED state
      BY <2>1, WritesState
    <3>2. k \in Kinds /\ <<k, state[k]>> \notin Visible
      <4>1. CASE tf.job = "apply" /\ k \in tf.todo
        BY <4>1 DEF CreatesAbsent, TypeOK, Jobs
      <4>2. CASE StartTerraform /\ ~(tf.job = "apply" /\ k \in tf.todo)
        <5>1. ctl.cmd = "apply" /\ ~bin["apply"].stale /\ k \in bin["apply"].ops
          BY <1>2, <4>2 DEF StartTerraform
        <5> QED
          BY <5>1 DEF CreatesAbsent, TypeOK, Plans
      <4>3. CASE ~StartTerraform
        <5>1. ASSUME NEW q \in Kinds, NEW id \in Ids, TfCreate(q, id)
              PROVE  tf.job = "apply" /\ k \in tf.todo
          BY <1>2, <5>1 DEF TfCreate, TypeOK, Jobs
        <5>2. ~(\E q \in Kinds : TfDelete(q))
          BY <1>2 DEF TfDelete, TypeOK, Jobs
        <5>3. ~(\E code \in {"ok", "failed"} : TfExit(code))
          BY <1>2 DEF TfExit, NoJob
        <5>4. CASE Crash
          BY <1>2, <4>1, <5>4, Orphaning
        <5> QED
          BY <1>2, <2>1, <4>1, <4>3, <5>1, <5>2, <5>3, <5>4, WritesTf DEF Terraform
      <4> QED
        BY <4>1, <4>2, <4>3
    <3> QED
      BY <3>1, <3>2, AbsentStaysAbsent
  <2>2. CASE TfRecord
    <3>1. PICK key \in tf.open : WriteState(key[1], key[2])
      BY <1>2, <2>2 DEF TfRecord, TypeOK, Jobs
    <3>2. tf.job = "apply" /\ k \in tf.todo /\ k \in Kinds
      BY <1>2, <2>2 DEF TfRecord, TypeOK, Jobs
    <3>3. key[1] # k
      BY <3>1, <3>2 DEF OpenIsNew
    <3>4. state'[k] = state[k]
      BY <3>1, <3>2, <3>3 DEF WriteState, TypeOK, Resources
    <3> QED
      BY <2>2, <3>2, <3>4 DEF TfRecord, CreatesAbsent, Visible, provider
  <2> QED
    BY <2>1, <2>2
<1> QED
  BY <1>1, <1>2 DEF CreatesAbsent

------------------------------------------------------------------------------
(* Commands and terraform in step *)

\* An attempt begins with the recovery record and without a terraform of its own.
LEMMA AttemptBegins ==
  ASSUME TypeOK, InStep, NEW sha \in 1..MaxPlans,
         ApplyBegin(sha) \/ DestroyBegin(sha)
  PROVE  /\ ctl'.cmd \in Stages /\ ctl'.at = "exec" /\ ctl'.exit = "none"
         /\ pending' # "none"
         /\ tf.job = "none" \/ ~tf.owned
         /\ UNCHANGED <<cloud, state, bin, ledger, tf>>
<1>1. ctl.cmd = "none" /\ pending' # "none"
  BY DEF ApplyBegin, DestroyBegin
<1>2. tf.job = "none" \/ ~tf.owned
  BY <1>1 DEF InStep, TypeOK, Jobs
<1> QED
  BY <1>1, <1>2 DEF ApplyBegin, DestroyBegin, provider, plans

LEMMA InStepStep ==
  ASSUME TypeOK, InStep, Next
  PROVE  InStep'
<1>1. CASE UNCHANGED <<ctl, pending>>
  <2>1. (tf'.job = tf.job /\ tf'.owned = tf.owned) \/ tf'.job = "none"
    <3>1. ~StartTerraform /\ ~Crash
      BY <1>1, Starting DEF Crash, Idle, TypeOK, Controls
    <3>2. ASSUME TfRecord \/ \E k \in Kinds : \/ TfDelete(k)
                                             \/ \E id \in Ids : TfCreate(k, id)
          PROVE  tf'.job = tf.job /\ tf'.owned = tf.owned
      BY <3>2 DEF TfRecord, TfDelete, TfCreate, TypeOK, Jobs
    <3>3. ASSUME \E code \in {"ok", "failed"} : TfExit(code)
          PROVE  tf'.job = "none"
      BY <3>3 DEF TfExit, NoJob
    <3> QED
      BY <3>1, <3>2, <3>3, WritesTf DEF Terraform
  <2> QED
    BY <1>1, <2>1 DEF InStep, Attempting
<1>2. ASSUME NEW sha \in 1..MaxPlans, ApplyBegin(sha) \/ DestroyBegin(sha)
      PROVE  InStep'
  BY <1>2, AttemptBegins DEF InStep, Attempting
<1>3. CASE StartTerraform
  <2>1. ctl.cmd \in Stages /\ pending # "none"
    BY <1>3, Starting DEF InStep, Attempting
  <2>2. ~(tf.job # "none" /\ tf.owned)
    BY <1>3, Starting DEF InStep
  <2> QED
    BY <1>3, <2>1, <2>2, Starting DEF InStep, Attempting
<1>4. ASSUME NEW code \in {"ok", "failed"}, TfExit(code)
      PROVE  InStep'
  <2>1. tf'.job = "none" /\ UNCHANGED pending
    BY <1>4 DEF TfExit, NoJob, records
  <2>2. ctl'.cmd = ctl.cmd /\ (ctl'.at = "ran" => ctl.at = "wait" \/ ctl' = ctl)
        /\ (ctl'.at = ctl.at \/ ctl'.at = "ran")
    BY <1>4 DEF TfExit, InStep, TypeOK, Controls
  <2> QED
    BY <2>1, <2>2 DEF InStep, Attempting
<1>5. CASE ReconcileBegin
  <2>1. tf.job = "none" \/ ~tf.owned
    BY <1>5 DEF ReconcileBegin, InStep, TypeOK, Jobs
  <2> QED
    BY <1>5, <2>1 DEF ReconcileBegin, Idle, InStep, Attempting, records
<1>6. ASSUME NEW readable \in BOOLEAN, NEW checked \in BOOLEAN,
             ReconcileLedger(readable, checked)
      PROVE  InStep'
  <2>1. ctl.at = "ran" /\ ctl'.at \in {"clear", "report"}
    BY <1>6, Reconciliation DEF ReconcileLedger
  <2> QED
    BY <1>6, <2>1, Reconciliation DEF InStep, Attempting
<1>7. CASE ClearPending \/ ConfirmDeletion
  <2>1. ctl.at \in {"clear", "ran"} /\ ctl'.at \in {"clear", "report"} /\ UNCHANGED tf
    BY <1>7 DEF ClearPending, ConfirmDeletion, TypeOK, Controls
  <2> QED
    BY <2>1 DEF InStep, Attempting
<1>8. CASE Report \/ ConfirmTimeout
  <2>1. ctl.at \in {"report", "ran"} /\ ctl' = Idle /\ UNCHANGED tf
    BY <1>8 DEF Report, ConfirmTimeout
  <2> QED
    BY <2>1 DEF InStep, Attempting, Idle
<1>9. CASE RecoverEmptyApply
  <2>1. tf.job = "none" \/ ~tf.owned
    BY <1>9 DEF RecoverEmptyApply, InStep, TypeOK, Jobs
  <2> QED
    BY <1>9, <2>1 DEF RecoverEmptyApply, Idle, InStep, Attempting
<1>10. CASE Crash
  <2>1. tf'.job = "none" \/ ~tf'.owned
    BY <1>10, Orphaning
  <2> QED
    BY <1>10, <2>1, Orphaning DEF Idle, InStep, Attempting
<1> QED
  BY <1>1, <1>2, <1>3, <1>4, <1>5, <1>6, <1>7, <1>8, <1>9, <1>10, WritesCtl
  DEF Progress

------------------------------------------------------------------------------
(* Clean ledgers *)

\* A clean reconciliation sees both resources at the provider and nothing else.
LEMMA CleanSeesAll ==
  ASSUME TypeOK, CreatesAbsent, NEW readable \in BOOLEAN, NEW checked \in BOOLEAN,
         ReconcileLedger(readable, checked), ledger'.reconciled
  PROVE  /\ KindsOf(ledger'.res) = Kinds
         /\ Visible' \subseteq LedgerKeys'
         /\ ~Unfinished'
<1>1. CleanReconciliation(readable, checked, ledger'.res)
  BY Reconciliation
<1>2. ledger'.res = state
  BY <1>1, Reconciliation DEF CleanReconciliation
<1>3. Visible' = Visible
  BY Reconciliation DEF Visible
<1>4. \A k \in Kinds : <<k, state[k]>> \in Visible
  <2>1. SUFFICES ASSUME NEW k \in Kinds PROVE <<k, state[k]>> \in Visible
    OBVIOUS
  <2>2. state[k] \in Ids
    BY <1>1, <1>2 DEF CleanReconciliation, KindsOf, TypeOK, Resources
  <2>3. <<k, state[k]>> \in KeysOf(state)
    BY <2>2 DEF KeysOf, Keys
  <2> QED
    BY <1>1, <1>2, <2>3 DEF CleanReconciliation
<1>5. ~Unfinished
  BY <1>4 DEF Unfinished, CreatesAbsent, TypeOK, Jobs
<1> QED
  BY <1>1, <1>2, <1>3, <1>5, Reconciliation
  DEF CleanReconciliation, Untracked, LedgerKeys, Unfinished

\* Teardown's identity check fails on an outdated ledger, and over an apply that
\* still has something to create.
LEMMA IdentityMeansComplete ==
  ASSUME TypeOK, CreatesAbsent, CleanIsComplete, ledger.reconciled, IdentityVerified
  PROVE  Visible \subseteq LedgerKeys /\ ~Unfinished
<1>1. KindsOf(ledger.res) = Kinds
  BY DEF CleanIsComplete
<1>2. ASSUME NEW k \in Kinds
      PROVE  state[k] = ledger.res[k] /\ <<k, ledger.res[k]>> \in Visible
  <2>1. ledger.res[k] \in Ids
    BY <1>1 DEF KindsOf, TypeOK, Ledgers, Resources
  <2>2. <<k, ledger.res[k]>> \in LedgerKeys
    BY <2>1 DEF LedgerKeys, KeysOf, Keys
  <2> QED
    BY <1>1, <2>2 DEF IdentityVerified
<1> QED
  BY <1>2 DEF CleanIsComplete, Outdated, Unfinished, CreatesAbsent, TypeOK, Jobs

LEMMA UnfinishedStep ==
  ASSUME TypeOK, CreatesAbsent, InStep, UnfinishedIsFlagged, CleanIsComplete, Next
  PROVE  UnfinishedIsFlagged'
<1> SUFFICES ASSUME Unfinished', ledger'.reconciled
             PROVE  pending' # "none" /\ ctl'.at # "clear" /\ ~Destroying'
  BY DEF UnfinishedIsFlagged
<1>1. Unfinished \/ StartTerraform
  <2>1. ASSUME NEW k \in Kinds, NEW id \in Ids, TfCreate(k, id)
        PROVE  Unfinished
    BY <2>1 DEF TfCreate, Unfinished, TypeOK, Jobs
  <2>2. ASSUME TfRecord \/ \E k \in Kinds : TfDelete(k)
        PROVE  Unfinished
    BY <2>2 DEF TfRecord, TfDelete, Unfinished, TypeOK, Jobs
  <2>3. ~(\E code \in {"ok", "failed"} : TfExit(code))
    BY DEF TfExit, NoJob, Unfinished
  <2>4. CASE Crash
    BY <2>4, Orphaning DEF Unfinished
  <2>5. CASE UNCHANGED tf
    BY <2>5 DEF Unfinished
  <2> QED
    BY <2>1, <2>2, <2>3, <2>4, <2>5, WritesTf DEF Terraform
<1>2. ~(\E readable, checked \in BOOLEAN : ReconcileLedger(readable, checked))
  BY CleanSeesAll
<1>3. ~RecoverEmptyApply
  BY DEF RecoverEmptyApply, TypeOK, Ledgers
<1>4. ASSUME ~StartTerraform
      PROVE  ~ConfirmDeletion
  BY <1>1, <1>4 DEF ConfirmDeletion, InStep, Unfinished
<1>5. CASE StartTerraform
  <2>1. ctl.cmd = "apply" \/ UNCHANGED tf
    BY <1>5, Starting DEF Unfinished
  <2>2. ledger.reconciled /\ pending # "none" /\ UNCHANGED pending
    BY <1>5, Starting DEF InStep, Attempting
  <2>3. ctl'.at # "clear" /\ ctl'.cmd = ctl.cmd
    BY <1>5, Starting
  <2>4. CASE UNCHANGED tf
    <3>1. ~Destroying
      BY <2>2, <2>4 DEF UnfinishedIsFlagged, Unfinished
    <3> QED
      BY <1>5, <2>2, <2>3, <3>1, Starting DEF Destroying
  <2> QED
    BY <2>1, <2>2, <2>3, <2>4 DEF Destroying
<1>6. CASE ~StartTerraform
  <2>1. Unfinished /\ UNCHANGED ledger
    BY <1>1, <1>2, <1>3, <1>4, <1>6, WritesLedger
  <2>2. pending # "none" /\ ctl.at # "clear" /\ ~Destroying
    BY <2>1 DEF UnfinishedIsFlagged
  <2>3. ASSUME NEW sha \in 1..MaxPlans, ApplyBegin(sha) \/ DestroyBegin(sha)
        PROVE  pending' # "none" /\ ctl'.at # "clear" /\ ~Destroying'
    <3>1. ~DestroyBegin(sha)
      BY <2>1, IdentityMeansComplete DEF DestroyBegin
    <3> QED
      BY <2>3, <3>1 DEF ApplyBegin, Destroying
  <2>4. ASSUME NEW code \in {"ok", "failed"}, TfExit(code)
        PROVE  FALSE
    BY <2>4 DEF TfExit, NoJob, Unfinished
  <2>5. CASE ReconcileBegin
    BY <2>2, <2>5 DEF ReconcileBegin, Idle, Destroying, records
  <2>6. ~ClearPending
    BY <2>2 DEF ClearPending
  <2>7. CASE Report \/ ConfirmTimeout
    BY <2>2, <2>7 DEF Report, ConfirmTimeout, Idle, Destroying, records
  <2>8. CASE Crash
    BY <2>2, <2>8, Orphaning DEF Idle, Destroying
  <2>9. CASE UNCHANGED <<ctl, pending>>
    BY <2>2, <2>9 DEF Destroying
  <2> QED
    BY <1>2, <1>3, <1>4, <1>6, <2>3, <2>4, <2>5, <2>6, <2>7, <2>8, <2>9, WritesCtl
    DEF Progress
<1> QED
  BY <1>5, <1>6

\* A creation outdates the clean ledger it is not recorded in.
LEMMA CreationOutdates ==
  ASSUME TypeOK, IssuedIds, CreatesAbsent, CleanIsComplete, ledger.reconciled,
         NEW k \in Kinds, NEW id \in Ids, TfCreate(k, id)
  PROVE  Outdated'
<1>1. UNCHANGED <<state, ledger>> /\ <<k, state[k]>> \notin Visible
  BY DEF TfCreate, records, CreatesAbsent
<1>2. cloud[<<k, id>>] = "unused" /\ <<k, id>> \in Keys
  BY DEF TfCreate, Keys
<1>3. CASE state[k] = ledger.res[k]
  <2>1. state[k] \in Ids /\ <<k, state[k]>> \in LedgerKeys
    BY <1>3 DEF CleanIsComplete, KindsOf, LedgerKeys, KeysOf, Keys, TypeOK,
       Ledgers, Resources
  <2>2. <<k, state[k]>> \in Keys /\ cloud[<<k, state[k]>>] # "unused"
    BY <2>1 DEF IssuedIds, LedgerKeys, KeysOf
  <2>3. <<k, state[k]>> \notin Visible'
    BY <1>1, <1>2, <2>2 DEF TfCreate, Visible, TypeOK
  <2> QED
    BY <1>1, <1>3, <2>3 DEF Outdated
<1> QED
  BY <1>1, <1>3 DEF Outdated

\* What terraform records is new to the ledger, so an outdated ledger stays so.
LEMMA OutdatedStays ==
  ASSUME TypeOK, IssuedIds, OpenIsNew, KindsOf(ledger.res) = Kinds, Outdated,
         Next, UNCHANGED ledger
  PROVE  Outdated'
<1>1. PICK k \in Kinds : \/ state[k] # ledger.res[k]
                         \/ <<k, ledger.res[k]>> \notin Visible
  BY DEF Outdated
<1>2. ledger.res[k] \in Ids /\ <<k, ledger.res[k]>> \in LedgerKeys
  BY DEF KindsOf, LedgerKeys, KeysOf, Keys, TypeOK, Ledgers, Resources
<1>3. CASE <<k, ledger.res[k]>> \notin Visible
  <2>1. <<k, ledger.res[k]>> \in Keys /\ cloud[<<k, ledger.res[k]>>] # "unused"
    BY <1>2 DEF IssuedIds, LedgerKeys, KeysOf
  <2>2. <<k, ledger.res[k]>> \notin Visible'
    BY <1>3, <2>1, GoneStaysGone
  <2> QED
    BY <2>2 DEF Outdated
<1>4. CASE state[k] # ledger.res[k]
  <2>1. CASE state'[k] = state[k]
    BY <1>4, <2>1 DEF Outdated
  <2>2. CASE TfRecord
    <3>1. PICK key \in tf.open :
             WriteState(key[1], IF tf.job = "apply" THEN key[2] ELSE NoId)
      BY <2>2 DEF TfRecord
    <3>2. CASE key[1] = k
      <4>1. tf.job = "apply" => <<k, key[2]>> \notin LedgerKeys /\ key[2] \in Ids
        BY <3>2 DEF OpenIsNew, TypeOK, Jobs, Keys
      <4>2. state'[k] # ledger.res[k]
        BY <1>2, <3>1, <3>2, <4>1, IdsAssumption
        DEF WriteState, LedgerKeys, KeysOf, Keys, TypeOK, Resources
      <4> QED
        BY <4>2 DEF Outdated
    <3>3. CASE key[1] # k
      BY <2>1, <3>1, <3>3 DEF WriteState, TypeOK, Resources
    <3> QED
      BY <3>2, <3>3
  <2> QED
    BY <2>1, <2>2, WritesState
<1> QED
  BY <1>1, <1>3, <1>4

LEMMA CleanStep ==
  ASSUME TypeOK, IssuedIds, OpenIsNew, CreatesAbsent, InStep,
         UnfinishedIsFlagged, CleanIsComplete, Next
  PROVE  CleanIsComplete'
<1> SUFFICES ASSUME ledger'.reconciled
             PROVE  /\ KindsOf(ledger'.res) = Kinds
                    /\ \/ Visible' \subseteq LedgerKeys'
                       \/ /\ pending' # "none" /\ ctl'.at # "clear"
                          /\ ~Destroying' /\ Outdated'
  BY DEF CleanIsComplete
<1>1. CASE \E readable, checked \in BOOLEAN : ReconcileLedger(readable, checked)
  BY <1>1, CleanSeesAll
<1>2. ~RecoverEmptyApply
  BY DEF RecoverEmptyApply, TypeOK, Ledgers
<1>3. CASE ConfirmDeletion
  <2>1. Destroying /\ ledger'.res = ledger.res /\ ledger.reconciled
    BY <1>3 DEF ConfirmDeletion, Destroying, TypeOK, Ledgers
  <2>2. Visible \subseteq LedgerKeys /\ Visible' = Visible
    BY <1>3, <2>1 DEF CleanIsComplete, ConfirmDeletion, Visible, provider
  <2> QED
    BY <2>1, <2>2 DEF CleanIsComplete, LedgerKeys
<1>4. CASE UNCHANGED ledger /\ Visible \subseteq LedgerKeys
  <2>1. CASE Visible' \subseteq Visible
    BY <1>4, <2>1 DEF CleanIsComplete, LedgerKeys
  <2>2. ASSUME NEW k \in Kinds, NEW id \in Ids, TfCreate(k, id)
        PROVE  pending' # "none" /\ ctl'.at # "clear" /\ ~Destroying' /\ Outdated'
    <3>1. Unfinished /\ ledger.reconciled
      BY <1>4, <2>2 DEF TfCreate, Unfinished
    <3>2. UNCHANGED <<ctl, pending>>
      BY <2>2 DEF TfCreate, records
    <3> QED
      BY <2>2, <3>1, <3>2, CreationOutdates DEF UnfinishedIsFlagged, Destroying
  <2> QED
    BY <1>4, <2>1, <2>2, OnlyCreationShows DEF CleanIsComplete
<1>5. CASE UNCHANGED ledger /\ ~(Visible \subseteq LedgerKeys)
           /\ ~(\E readable, checked \in BOOLEAN : ReconcileLedger(readable, checked))
  <2>1. /\ KindsOf(ledger.res) = Kinds /\ pending # "none" /\ ctl.at # "clear"
        /\ ~Destroying /\ Outdated /\ ledger.reconciled
    BY <1>5 DEF CleanIsComplete
  <2>2. Outdated'
    BY <1>5, <2>1, OutdatedStays
  <2>3. pending' # "none" /\ ctl'.at # "clear" /\ ~Destroying'
    <3>1. ASSUME NEW sha \in 1..MaxPlans, ApplyBegin(sha) \/ DestroyBegin(sha)
          PROVE  pending' # "none" /\ ctl'.at # "clear" /\ ~Destroying'
      <4>1. ~DestroyBegin(sha)
        BY <1>5, <2>1, IdentityMeansComplete DEF DestroyBegin
      <4> QED
        BY <3>1, <4>1 DEF ApplyBegin, Destroying
    <3>2. CASE StartTerraform
      BY <2>1, <3>2, Starting DEF Destroying
    <3>3. ASSUME NEW code \in {"ok", "failed"}, TfExit(code)
          PROVE  pending' # "none" /\ ctl'.at # "clear" /\ ~Destroying'
      <4>1. UNCHANGED pending /\ ctl'.cmd = ctl.cmd
            /\ (ctl' = ctl \/ (ctl.at = "wait" /\ ctl'.at = "ran"))
        BY <3>3 DEF TfExit, InStep, TypeOK, Controls, records
      <4> QED
        BY <2>1, <4>1 DEF Destroying
    <3>4. CASE ReconcileBegin
      BY <2>1, <3>4 DEF ReconcileBegin, Idle, Destroying, records
    <3>5. ~ClearPending /\ ~ConfirmDeletion
      BY <2>1 DEF ClearPending, ConfirmDeletion, Destroying
    <3>6. CASE Report \/ ConfirmTimeout
      BY <2>1, <3>6 DEF Report, ConfirmTimeout, Idle, Destroying, records
    <3>7. CASE Crash
      BY <2>1, <3>7, Orphaning DEF Idle, Destroying
    <3>8. CASE UNCHANGED <<ctl, pending>>
      BY <2>1, <3>8 DEF Destroying
    <3> QED
      BY <1>2, <1>5, <3>1, <3>2, <3>3, <3>4, <3>5, <3>6, <3>7, <3>8, WritesCtl
      DEF Progress
  <2> QED
    BY <1>5, <2>1, <2>2, <2>3
<1> QED
  BY <1>1, <1>2, <1>3, <1>4, <1>5, WritesLedger

LEMMA ConfirmedStep ==
  ASSUME TypeOK, IssuedIds, ConfirmedMeansGone, Next
  PROVE  ConfirmedMeansGone'
<1> SUFFICES ASSUME ledger'.destroyed, NEW key \in LedgerKeys', key \in Visible'
             PROVE  FALSE
  BY DEF ConfirmedMeansGone
<1>1. ~(\E readable, checked \in BOOLEAN : ReconcileLedger(readable, checked))
  BY Reconciliation
<1>2. key \in LedgerKeys /\ key \notin Visible
  <2>1. CASE UNCHANGED ledger
    BY <2>1 DEF ConfirmedMeansGone, LedgerKeys
  <2>2. CASE RecoverEmptyApply
    BY <2>2 DEF RecoverEmptyApply, ConfirmedMeansGone, LedgerKeys, TypeOK, Ledgers
  <2>3. CASE ConfirmDeletion
    BY <2>3 DEF ConfirmDeletion, LedgerKeys, TypeOK, Ledgers
  <2> QED
    BY <1>1, <2>1, <2>2, <2>3, WritesLedger
<1>3. key \in Keys /\ cloud[key] # "unused"
  BY <1>2 DEF IssuedIds, LedgerKeys, KeysOf
<1> QED
  BY <1>2, <1>3, GoneStaysGone

------------------------------------------------------------------------------
(* The theorems *)

LEMMA TypeStep ==
  ASSUME TypeOK, InStep, Next
  PROVE  TypeOK'
<1>1. CASE Operator
  BY <1>1, PlanKeepsType, AttemptKeepsType, RecordKeepsType DEF Operator
<1>2. CASE Command
  BY <1>2, PlanKeepsType, StartKeepsType, RecordKeepsType DEF Command
<1>3. CASE Terraform
  BY <1>3, TerraformKeepsType
<1>4. CASE World
  BY <1>4, WorldKeepsType
<1> QED
  BY <1>1, <1>2, <1>3, <1>4 DEF Next

LEMMA InvStep == IInv /\ [Next]_vars => IInv'
<1> SUFFICES ASSUME IInv, [Next]_vars PROVE IInv'
  OBVIOUS
<1>1. CASE Next
  BY <1>1, TypeStep, IssuedIdsStep, OpenIsNewStep, CreatesAbsentStep, InStepStep,
     UnfinishedStep, CleanStep, ConfirmedStep DEF IInv
<1>2. CASE UNCHANGED vars
  BY <1>2
  DEF IInv, vars, provider, plans, records, TypeOK, IssuedIds, OpenIsNew,
      CreatesAbsent, InStep, Attempting, UnfinishedIsFlagged, Unfinished,
      CleanIsComplete, Destroying, Outdated, ConfirmedMeansGone, Visible,
      LedgerKeys, KeysOf
<1> QED
  BY <1>1, <1>2

\* The inductive invariant holds in every behaviour.
THEOREM Invariance == Spec => []IInv
  BY InitInv, InvStep, PTL DEF Spec

\* Every variable keeps its type, whatever the order of commands, crashes and
\* console actions.
THEOREM TypeCorrect == Spec => []TypeOK
  BY Invariance, PTL DEF IInv

\* No measured run passes the lifecycle gate while a resource of the run bills
\* outside its ledger.
THEOREM GateCorrect == Spec => []GateMeansAccounted
<1>1. IInv => GateMeansAccounted
  BY DEF IInv, CleanIsComplete, GateMeansAccounted, GateOpen
<1> QED
  BY <1>1, Invariance, PTL

\* A ledger that says deletion_confirmed records nothing the provider still holds.
THEOREM ConfirmationCorrect == Spec => []ConfirmedMeansGone
  BY Invariance, PTL DEF IInv

\* Terraform never runs for a command without a recovery record on disk.
THEOREM PendingCorrect == Spec => []PendingCoversTerraform
<1>1. IInv => PendingCoversTerraform
  BY DEF IInv, InStep, Attempting, PendingCoversTerraform, TypeOK, Jobs
<1> QED
  BY <1>1, Invariance, PTL

------------------------------------------------------------------------------
(* What terraform executes and what a command reports.  A second terminal may *)
(* replace the binary plan while a command stands between its verification    *)
(* and the start of terraform; the plan it leaves has a digest of its own.    *)

\* A digest stands for one plan: metadata with the digest of the binary plan
\* describes its operations.
PlansReviewed ==
    \A s \in Stages :
        /\ bin[s].sha <= nplans /\ meta[s].sha <= nplans
        /\ meta[s].sha # 0 /\ bin[s].sha = meta[s].sha => bin[s].ops = meta[s].ops

\* From the approval on, the plan is the approved one or one made since.
ApprovedInv ==
    /\ ctl.sha <= nplans /\ ctl.began <= nplans
    /\ ctl.at = "exec" => bin[ctl.cmd].sha = ctl.sha \/ bin[ctl.cmd].sha > ctl.began
    /\ ExecutesApprovedUnlessReplanned

\* What the approved teardown has yet to delete stands in the state as in the
\* ledger.
TeardownInv ==
    /\ ctl.at = "exec" /\ ctl.cmd = "destroy" /\ ~bin["destroy"].stale
         /\ bin["destroy"].sha = ctl.sha =>
          \A k \in bin["destroy"].ops : state[k] = ledger.res[k]
    /\ tf.job = "destroy" =>
          /\ \A key \in tf.open : key[1] \notin tf.todo
          /\ tf.owned /\ tf.sha = ctl.sha => \A k \in tf.todo : state[k] = ledger.res[k]

\* A command about to report has a clean ledger only without a pending record,
\* and a successful teardown only with its confirmation.
ReportInv ==
    /\ ctl.at = "report" /\ ledger.reconciled => pending = "none"
    /\ ctl.cmd = "destroy" /\ ctl.exit = "ok" /\ ctl.at \in {"clear", "report"} =>
          ledger.destroyed

LEMMA WritesPlans ==
  ASSUME Next
  PROVE  \/ UNCHANGED <<bin, meta, nplans>>
         \/ \E s \in Stages : PlanBinary(s) \/ PlanMeta(s)
         \/ TfRecord
         \/ Drift
  BY DEF Next, Operator, Command, Terraform, World, plans, PlanFails, ApplyBegin,
     DestroyBegin, StartTerraform, TfCreate, TfDelete, TfExit, ReconcileBegin,
     ReconcileLedger, ClearPending, Report, ConfirmDeletion, ConfirmTimeout,
     RecoverEmptyApply, Crash, DeletionCompletes, ConsoleDelete, ConsoleEdit

LEMMA ReviewStep ==
  ASSUME TypeOK, PlansReviewed, Next
  PROVE  PlansReviewed'
<1> SUFFICES ASSUME NEW s \in Stages
             PROVE  /\ bin'[s].sha <= nplans' /\ meta'[s].sha <= nplans'
                    /\ meta'[s].sha # 0 /\ bin'[s].sha = meta'[s].sha
                         => bin'[s].ops = meta'[s].ops
  BY DEF PlansReviewed
<1>1. /\ bin \in [Stages -> Plans] /\ meta \in [Stages -> Metas]
      /\ bin[s].sha \in Nat /\ meta[s].sha \in Nat /\ nplans \in Nat
      /\ bin[s].sha <= nplans /\ meta[s].sha <= nplans
      /\ meta[s].sha # 0 /\ bin[s].sha = meta[s].sha => bin[s].ops = meta[s].ops
  BY BoundsAssumption DEF TypeOK, Plans, Metas, PlansReviewed
<1>2. CASE UNCHANGED <<bin, meta, nplans>>
  BY <1>1, <1>2
<1>3. ASSUME NEW t \in Stages, PlanBinary(t)
      PROVE  /\ bin'[s].sha <= nplans' /\ meta'[s].sha <= nplans'
             /\ meta'[s].sha # 0 /\ bin'[s].sha = meta'[s].sha
                  => bin'[s].ops = meta'[s].ops
  <2>1. nplans' = nplans + 1 /\ meta' = meta
        /\ bin' = [bin EXCEPT ![t] = [sha |-> nplans + 1, ops |-> PlannedOps(t),
                                      stale |-> FALSE]]
    BY <1>3 DEF PlanBinary
  <2>2. CASE s = t
    <3>1. bin'[s].sha = nplans + 1
      BY <1>1, <2>1, <2>2
    <3> QED
      BY <1>1, <2>1, <3>1
  <2>3. CASE s # t
    BY <1>1, <2>1, <2>3
  <2> QED
    BY <2>2, <2>3
<1>4. ASSUME NEW t \in Stages, PlanMeta(t)
      PROVE  /\ bin'[s].sha <= nplans' /\ meta'[s].sha <= nplans'
             /\ meta'[s].sha # 0 /\ bin'[s].sha = meta'[s].sha
                  => bin'[s].ops = meta'[s].ops
  BY <1>1, <1>4 DEF PlanMeta
<1>5. CASE TfRecord
  <2>1. /\ bin' = [r \in Stages |-> [bin[r] EXCEPT !.stale = TRUE]]
        /\ meta' = [r \in Stages |-> [meta[r] EXCEPT !.drift = TRUE]]
        /\ nplans' = nplans
    BY <1>5 DEF TfRecord, WriteState
  <2>2. bin'[s].sha = bin[s].sha /\ bin'[s].ops = bin[s].ops
    BY <1>1, <2>1 DEF Plans
  <2>3. meta'[s].sha = meta[s].sha /\ meta'[s].ops = meta[s].ops
    BY <1>1, <2>1 DEF Metas
  <2> QED
    BY <1>1, <2>1, <2>2, <2>3
<1>6. CASE Drift
  <2>1. /\ meta' = [r \in Stages |-> [meta[r] EXCEPT !.drift = TRUE]]
        /\ bin' = bin /\ nplans' = nplans
    BY <1>6 DEF Drift
  <2>2. meta'[s].sha = meta[s].sha /\ meta'[s].ops = meta[s].ops
    BY <1>1, <2>1 DEF Metas
  <2> QED
    BY <1>1, <2>1, <2>2
<1> QED
  BY <1>2, <1>3, <1>4, <1>5, <1>6, WritesPlans

\* Between the approval and the execution the plan stays as it is, or is outdated
\* by a write of the state, or is replaced by one with a new digest.
LEMMA PlanStands ==
  ASSUME TypeOK, InStep, Next, ctl.at = "exec"
  PROVE  /\ ctl.cmd \in Stages
         /\ \/ bin'[ctl.cmd] = bin[ctl.cmd]
            \/ /\ TfRecord /\ bin'[ctl.cmd].stale
               /\ bin'[ctl.cmd].sha = bin[ctl.cmd].sha
            \/ bin'[ctl.cmd].sha = nplans + 1
<1>1. ctl.cmd \in Stages
  BY DEF InStep
<1>2. ASSUME NEW s \in Stages, PlanBinary(s)
      PROVE  bin'[ctl.cmd] = bin[ctl.cmd] \/ bin'[ctl.cmd].sha = nplans + 1
  <2>1. bin' = [bin EXCEPT ![s] = [sha |-> nplans + 1, ops |-> PlannedOps(s),
                                   stale |-> FALSE]]
    BY <1>2 DEF PlanBinary
  <2>2. bin \in [Stages -> Plans]
    BY DEF TypeOK
  <2> QED
    BY <1>1, <2>1, <2>2
<1>3. CASE TfRecord
  <2>1. bin' = [r \in Stages |-> [bin[r] EXCEPT !.stale = TRUE]]
    BY <1>3 DEF TfRecord, WriteState
  <2>2. bin[ctl.cmd] \in Plans
    BY <1>1 DEF TypeOK
  <2> QED
    BY <1>1, <1>3, <2>1, <2>2 DEF Plans
<1> QED
  BY <1>1, <1>2, <1>3, WritesBin

\* Terraform takes over the digest and the operations of the plan.
LEMMA StartTakesPlan ==
  ASSUME TypeOK, StartTerraform
  PROVE  /\ ctl.at = "exec" /\ ctl'.cmd = ctl.cmd
         /\ ctl'.sha = ctl.sha /\ ctl'.began = ctl.began
         /\ ctl'.at \in {"wait", "ran"}
         /\ UNCHANGED <<state, ledger, pending>>
         /\ \/ tf' = tf
            \/ /\ tf'.job = ctl.cmd /\ tf'.open = {} /\ ~bin[ctl.cmd].stale
               /\ tf'.sha = bin[ctl.cmd].sha /\ tf'.todo = bin[ctl.cmd].ops
<1>1. CASE /\ ctl' = [ctl EXCEPT !.at = "wait"] /\ ~bin[ctl.cmd].stale
           /\ tf' = [job |-> ctl.cmd, todo |-> bin[ctl.cmd].ops, open |-> {},
                     owned |-> TRUE, sha |-> bin[ctl.cmd].sha]
  BY <1>1 DEF StartTerraform, TypeOK, Controls, records
<1>2. CASE ctl' = [ctl EXCEPT !.at = "ran", !.exit = "failed"] /\ UNCHANGED tf
  BY <1>2 DEF StartTerraform, TypeOK, Controls, records
<1> QED
  BY <1>1, <1>2 DEF StartTerraform

\* While a command waits for its terraform nothing but terraform's exit and the
\* command's death moves the command.
LEMMA WaitingStays ==
  ASSUME TypeOK, InStep, Next, tf.job # "none", tf.owned
  PROVE  \/ UNCHANGED <<ctl, pending, ledger>>
         \/ \E code \in {"ok", "failed"} : TfExit(code)
         \/ Crash
<1>1. ctl.at = "wait" /\ ctl.cmd \in Stages
  BY DEF InStep
<1>2. /\ ~(\E sha \in 1..MaxPlans : ApplyBegin(sha) \/ DestroyBegin(sha))
      /\ ~StartTerraform /\ ~ReconcileBegin /\ ~ClearPending /\ ~Report
      /\ ~ConfirmDeletion /\ ~ConfirmTimeout /\ ~RecoverEmptyApply
      /\ ~(\E readable, checked \in BOOLEAN : ReconcileLedger(readable, checked))
  BY <1>1 DEF ApplyBegin, DestroyBegin, StartTerraform, ReconcileBegin, ClearPending,
     Report, ConfirmDeletion, ConfirmTimeout, RecoverEmptyApply, ReconcileLedger
<1>3. UNCHANGED <<ctl, pending>> \/ Crash
      \/ \E code \in {"ok", "failed"} : TfExit(code)
  BY <1>2, WritesCtl DEF Progress
<1>4. UNCHANGED ledger
  BY <1>2, WritesLedger
<1> QED
  BY <1>3, <1>4

\* Terraform keeps job and digest to its end, and is never taken over.
LEMMA TerraformKeepsJob ==
  ASSUME TypeOK, Next, ~StartTerraform, tf'.job # "none"
  PROVE  /\ tf'.job = tf.job /\ tf'.sha = tf.sha
         /\ tf'.owned => tf.owned
<1>1. ASSUME NEW k \in Kinds, NEW id \in Ids, TfCreate(k, id)
      PROVE  tf'.job = tf.job /\ tf'.sha = tf.sha /\ tf'.owned = tf.owned
  BY <1>1 DEF TfCreate, TypeOK, Jobs
<1>2. ASSUME NEW k \in Kinds, TfDelete(k)
      PROVE  tf'.job = tf.job /\ tf'.sha = tf.sha /\ tf'.owned = tf.owned
  BY <1>2 DEF TfDelete, TypeOK, Jobs
<1>3. CASE TfRecord
  BY <1>3 DEF TfRecord, TypeOK, Jobs
<1>4. ~(\E code \in {"ok", "failed"} : TfExit(code))
  BY DEF TfExit, NoJob
<1>5. CASE Crash
  <2>1. tf' = [tf EXCEPT !.owned = FALSE]
    BY <1>5 DEF Crash, NoJob
  <2> QED
    BY <2>1 DEF TypeOK, Jobs
<1> QED
  BY <1>1, <1>2, <1>3, <1>4, <1>5, WritesTf DEF Terraform

\* A command stands before its terraform only where apply or destroy put it.
LEMMA ExecBegins ==
  ASSUME TypeOK, Next, ctl'.at = "exec"
  PROVE  \/ UNCHANGED <<ctl, pending>>
         \/ \E sha \in 1..MaxPlans : ApplyBegin(sha) \/ DestroyBegin(sha)
<1>1. ~StartTerraform
  BY StartTakesPlan
<1>2. ASSUME NEW code \in {"ok", "failed"}, TfExit(code)
      PROVE  UNCHANGED <<ctl, pending>>
  <2>1. CASE tf.owned
    <3>1. ctl' = [ctl EXCEPT !.at = "ran", !.exit = code]
      BY <1>2, <2>1 DEF TfExit
    <3> QED
      BY <3>1 DEF TypeOK, Controls
  <2>2. CASE ~tf.owned
    BY <1>2, <2>2 DEF TfExit, records
  <2> QED
    BY <2>1, <2>2
<1>3. ASSUME NEW readable \in BOOLEAN, NEW checked \in BOOLEAN,
             ReconcileLedger(readable, checked)
      PROVE  FALSE
  BY <1>3, Reconciliation
<1>4. ~ReconcileBegin /\ ~RecoverEmptyApply
  BY DEF ReconcileBegin, RecoverEmptyApply, Idle
<1>5. ~ClearPending /\ ~ConfirmDeletion
  BY DEF ClearPending, ConfirmDeletion, TypeOK, Controls
<1>6. ~Report /\ ~ConfirmTimeout
  BY DEF Report, ConfirmTimeout, Idle
<1>7. ASSUME Crash PROVE FALSE
  <2>1. ctl' = Idle
    BY <1>7, Orphaning
  <2> QED
    BY <2>1 DEF Idle
<1> QED
  BY <1>1, <1>2, <1>3, <1>4, <1>5, <1>6, <1>7, WritesCtl DEF Progress

\* The digest a command was approved for, and the count it noted, are its own
\* until it ends.
LEMMA ApprovalKept ==
  ASSUME TypeOK, Next
  PROVE  \/ ctl'.sha = ctl.sha /\ ctl'.began = ctl.began
         \/ ctl'.sha = 0 /\ ctl'.began = 0
         \/ \E sha \in 1..MaxPlans : ApplyBegin(sha) \/ DestroyBegin(sha)
<1>1. CASE StartTerraform
  BY <1>1, StartTakesPlan
<1>2. ASSUME NEW code \in {"ok", "failed"}, TfExit(code)
      PROVE  ctl'.sha = ctl.sha /\ ctl'.began = ctl.began
  BY <1>2 DEF TfExit, TypeOK, Controls
<1>3. ASSUME NEW readable \in BOOLEAN, NEW checked \in BOOLEAN,
             ReconcileLedger(readable, checked)
      PROVE  ctl'.sha = ctl.sha /\ ctl'.began = ctl.began
  <2>1. PICK at \in {"clear", "report"} : ctl' = [ctl EXCEPT !.at = at]
    BY <1>3 DEF ReconcileLedger
  <2> QED
    BY <2>1 DEF TypeOK, Controls
<1>4. CASE ClearPending \/ ConfirmDeletion
  BY <1>4 DEF ClearPending, ConfirmDeletion, TypeOK, Controls
<1>5. CASE ReconcileBegin \/ RecoverEmptyApply
  BY <1>5 DEF ReconcileBegin, RecoverEmptyApply, Idle
<1>6. CASE Report \/ ConfirmTimeout \/ Crash
  BY <1>6 DEF Report, ConfirmTimeout, Crash, Idle
<1> QED
  BY <1>1, <1>2, <1>3, <1>4, <1>5, <1>6, WritesCtl DEF Progress

\* Plans are only ever added.
LEMMA PlansGrow ==
  ASSUME TypeOK, Next
  PROVE  nplans \in Nat /\ nplans' \in Nat /\ nplans <= nplans'
<1>1. nplans \in Nat
  BY BoundsAssumption DEF TypeOK
<1>2. nplans' = nplans \/ nplans' = nplans + 1
  BY WritesPlans DEF PlanBinary, PlanMeta, TfRecord, Drift
<1> QED
  BY <1>1, <1>2

LEMMA ApprovedStep ==
  ASSUME TypeOK, InStep, PlansReviewed, ApprovedInv, Next, InStep'
  PROVE  ApprovedInv'
<1>1. /\ ctl.sha \in Nat /\ ctl.began \in Nat /\ nplans \in Nat /\ nplans' \in Nat
      /\ nplans <= nplans' /\ ctl.sha <= nplans /\ ctl.began <= nplans
  BY BoundsAssumption, PlansGrow DEF TypeOK, Controls, ApprovedInv
<1>2. ASSUME NEW sha \in 1..MaxPlans, ApplyBegin(sha) \/ DestroyBegin(sha)
      PROVE  /\ ctl'.sha <= nplans' /\ ctl'.began <= nplans'
             /\ bin'[ctl'.cmd].sha = ctl'.sha
  <2>1. /\ UNCHANGED <<bin, nplans>> /\ ctl'.sha = sha /\ ctl'.began = nplans
        /\ \/ PlanVerified("apply", sha) /\ ctl'.cmd = "apply"
           \/ PlanVerified("destroy", sha) /\ ctl'.cmd = "destroy"
    BY <1>2 DEF ApplyBegin, DestroyBegin, plans
  <2> QED
    BY <1>1, <2>1 DEF PlanVerified, PlansReviewed
<1>3. ctl'.sha <= nplans' /\ ctl'.began <= nplans'
  BY <1>1, <1>2, ApprovalKept
<1>4. ASSUME ctl'.at = "exec"
      PROVE  bin'[ctl'.cmd].sha = ctl'.sha \/ bin'[ctl'.cmd].sha > ctl'.began
  <2>1. CASE UNCHANGED <<ctl, pending>>
    BY <1>1, <1>4, <2>1, PlanStands DEF ApprovedInv
  <2> QED
    BY <1>2, <1>4, <2>1, ExecBegins
<1>5. ASSUME tf'.job # "none", tf'.owned
      PROVE  tf'.sha = ctl'.sha \/ tf'.sha > ctl'.began
  <2>1. CASE StartTerraform /\ tf' # tf
    BY <2>1, StartTakesPlan DEF ApprovedInv
  <2>2. CASE ~StartTerraform
    <3>1. tf.job # "none" /\ tf.owned /\ tf'.sha = tf.sha
      BY <1>5, <2>2, TerraformKeepsJob
    <3>2. ~Crash /\ ~(\E code \in {"ok", "failed"} : TfExit(code))
      BY <1>5, Orphaning DEF TfExit, NoJob
    <3>3. ctl' = ctl
      BY <3>1, <3>2, WaitingStays
    <3> QED
      BY <3>1, <3>3 DEF ApprovedInv, ExecutesApprovedUnlessReplanned
  <2>3. CASE StartTerraform /\ tf' = tf
    BY <1>5, <2>3, StartTakesPlan DEF ApprovedInv, ExecutesApprovedUnlessReplanned
  <2> QED
    BY <2>1, <2>2, <2>3
<1> QED
  BY <1>3, <1>4, <1>5 DEF ApprovedInv, ExecutesApprovedUnlessReplanned

LEMMA TeardownStep ==
  ASSUME TypeOK, InStep, PlansReviewed, ApprovedInv, TeardownInv, Next
  PROVE  TeardownInv'
<1>1. ASSUME ctl'.at = "exec", ctl'.cmd = "destroy", ~bin'["destroy"].stale,
             bin'["destroy"].sha = ctl'.sha, NEW k \in bin'["destroy"].ops
      PROVE  state'[k] = ledger'.res[k]
  <2>1. CASE ctl.at = "exec" /\ ctl' = ctl
    <3>1. bin'["destroy"] = bin["destroy"]
      <4>1. ctl.sha \in Nat /\ nplans \in Nat /\ ctl.sha <= nplans
        BY BoundsAssumption DEF TypeOK, Controls, ApprovedInv
      <4>2. bin'["destroy"].sha # nplans + 1
        BY <1>1, <2>1, <4>1
      <4> QED
        BY <1>1, <2>1, <4>2, PlanStands
    <3>2. UNCHANGED ledger
      BY <1>1, <2>1, WritesLedger DEF ReconcileLedger, ConfirmDeletion, RecoverEmptyApply
    <3>3. UNCHANGED state
      <4>1. ~TfRecord
        BY <1>1, <2>1 DEF TfRecord, WriteState, TypeOK, Plans
      <4> QED
        BY <4>1, WritesState
    <3> QED
      BY <1>1, <2>1, <3>1, <3>2, <3>3 DEF TeardownInv
  <2>2. ASSUME NEW sha \in 1..MaxPlans, DestroyBegin(sha)
        PROVE  state'[k] = ledger'.res[k]
    <3>1. /\ UNCHANGED <<bin, state, ledger>> /\ IdentityVerified
          /\ meta["destroy"].ops = KindsOf(ledger.res)
          /\ meta["destroy"].sha # 0 /\ bin["destroy"].sha = meta["destroy"].sha
      BY <2>2 DEF DestroyBegin, PlanVerified, plans
    <3>2. k \in KindsOf(ledger.res)
      BY <1>1, <3>1 DEF PlansReviewed
    <3> QED
      BY <3>1, <3>2 DEF IdentityVerified
  <2>3. ~(\E sha \in 1..MaxPlans : ApplyBegin(sha))
    BY <1>1 DEF ApplyBegin
  <2> QED
    BY <1>1, <2>1, <2>2, <2>3, ExecBegins
<1>2. ASSUME tf'.job = "destroy" PROVE \A key \in tf'.open : key[1] \notin tf'.todo
  <2>1. CASE StartTerraform /\ tf' # tf
    BY <2>1, StartTakesPlan
  <2>2. CASE UNCHANGED tf
    BY <1>2, <2>2 DEF TeardownInv
  <2>3. CASE Crash
    BY <1>2, <2>3, Orphaning DEF TeardownInv
  <2>4. ASSUME NEW k \in Kinds, TfDelete(k)
        PROVE  \A key \in tf'.open : key[1] \notin tf'.todo
    BY <2>4 DEF TfDelete, TypeOK, Jobs
  <2>5. CASE TfRecord
    BY <2>5 DEF TfRecord, TypeOK, Jobs
  <2>6. ~(\E code \in {"ok", "failed"} : TfExit(code))
    BY <1>2 DEF TfExit, NoJob
  <2>7. ~(\E k \in Kinds, id \in Ids : TfCreate(k, id))
    BY <1>2 DEF TfCreate, TypeOK, Jobs
  <2> QED
    BY <2>1, <2>2, <2>3, <2>4, <2>5, <2>6, <2>7, WritesTf DEF Terraform
<1>3. ASSUME tf'.job = "destroy", tf'.owned, tf'.sha = ctl'.sha, NEW k \in tf'.todo
      PROVE  state'[k] = ledger'.res[k]
  <2>1. CASE StartTerraform /\ tf' # tf
    BY <1>3, <2>1, StartTakesPlan DEF TeardownInv
  <2>2. CASE StartTerraform /\ tf' = tf
    BY <1>3, <2>2, StartTakesPlan DEF TeardownInv
  <2>3. CASE ~StartTerraform
    <3>1. tf.job = "destroy" /\ tf.owned /\ tf'.sha = tf.sha
      BY <1>3, <2>3, TerraformKeepsJob
    <3>2. ~Crash /\ ~(\E code \in {"ok", "failed"} : TfExit(code))
      BY <1>3, Orphaning DEF TfExit, NoJob
    <3>3. ledger' = ledger /\ ctl' = ctl
      BY <3>1, <3>2, WaitingStays
    <3>4. k \in tf.todo /\ k \in Kinds
      <4>1. CASE UNCHANGED tf
        BY <1>3, <4>1 DEF TypeOK, Jobs
      <4>2. ASSUME NEW j \in Kinds, TfDelete(j) PROVE k \in tf.todo
        BY <1>3, <4>2 DEF TfDelete, TypeOK, Jobs
      <4>3. CASE TfRecord
        BY <1>3, <4>3 DEF TfRecord, TypeOK, Jobs
      <4>4. ~(\E j \in Kinds, id \in Ids : TfCreate(j, id))
        BY <3>1 DEF TfCreate
      <4>5. tf.todo \subseteq Kinds
        BY DEF TypeOK, Jobs
      <4> QED
        BY <1>3, <2>3, <3>2, <4>1, <4>2, <4>3, <4>4, <4>5, WritesTf DEF Terraform
    <3>5. state[k] = ledger.res[k]
      BY <1>3, <3>1, <3>3, <3>4 DEF TeardownInv
    <3>6. state'[k] = state[k]
      <4>1. CASE TfRecord
        <5>1. PICK key \in tf.open : state' = [state EXCEPT ![key[1]] = NoId]
          BY <3>1, <4>1 DEF TfRecord, WriteState
        <5>2. k # key[1]
          BY <3>1, <3>4, <5>1 DEF TeardownInv
        <5> QED
          BY <3>4, <5>1, <5>2 DEF TypeOK, Resources
      <4>2. CASE UNCHANGED state
        BY <4>2
      <4> QED
        BY <4>1, <4>2, WritesState
    <3> QED
      BY <3>3, <3>5, <3>6
  <2> QED
    BY <2>1, <2>2, <2>3
<1> QED
  BY <1>1, <1>2, <1>3 DEF TeardownInv

LEMMA ReportStep ==
  ASSUME TypeOK, ReportInv, Next
  PROVE  ReportInv'
<1>1. ASSUME NEW readable \in BOOLEAN, NEW checked \in BOOLEAN,
             ReconcileLedger(readable, checked)
      PROVE  ReportInv'
  BY <1>1, Reconciliation DEF ReportInv, ReconcileLedger
<1>2. CASE ConfirmDeletion
  BY <1>2 DEF ConfirmDeletion, ReportInv, TypeOK, Controls, Ledgers
<1>3. CASE RecoverEmptyApply
  BY <1>3 DEF RecoverEmptyApply, ReportInv, Idle
<1>4. CASE UNCHANGED <<ledger, ctl, pending>>
  BY <1>4 DEF ReportInv
<1>5. CASE UNCHANGED ledger /\ Progress
  <2>1. ASSUME NEW sha \in 1..MaxPlans, ApplyBegin(sha) \/ DestroyBegin(sha)
        PROVE  ReportInv'
    BY <2>1 DEF ApplyBegin, DestroyBegin, ReportInv
  <2>2. CASE StartTerraform
    BY <2>2, StartTakesPlan DEF ReportInv
  <2>3. ASSUME NEW code \in {"ok", "failed"}, TfExit(code)
        PROVE  ReportInv'
    <3>1. UNCHANGED pending /\ (ctl' = ctl \/ ctl'.at = "ran")
      BY <2>3 DEF TfExit, TypeOK, Controls, records
    <3> QED
      BY <1>5, <3>1 DEF ReportInv
  <2>4. CASE ReconcileBegin \/ Report \/ ConfirmTimeout \/ Crash
    <3>1. ctl' = Idle \/ ReconcileBegin
      BY <2>4, Orphaning DEF Report, ConfirmTimeout
    <3>2. CASE ctl' = Idle
      <4>1. ctl'.at = "start"
        BY <3>2 DEF Idle
      <4> QED
        BY <4>1 DEF ReportInv
    <3>3. CASE ReconcileBegin
      <4>1. ctl' = [Idle EXCEPT !.cmd = "reconcile", !.at = "ran"]
        BY <3>3 DEF ReconcileBegin
      <4>2. ctl'.at = "ran"
        BY <4>1 DEF Idle
      <4> QED
        BY <4>2 DEF ReportInv
    <3> QED
      BY <3>1, <3>2, <3>3
  <2>5. CASE ClearPending
    <3>1. pending' = "none" /\ ctl'.cmd = ctl.cmd /\ ctl'.exit = ctl.exit
          /\ ctl.at = "clear" /\ ctl'.at = "report"
      BY <2>5 DEF ClearPending, TypeOK, Controls
    <3> QED
      BY <1>5, <3>1 DEF ReportInv
  <2> QED
    BY <1>1, <1>2, <1>3, <1>5, <2>1, <2>2, <2>3, <2>4, <2>5 DEF Progress
<1> QED
  BY <1>1, <1>2, <1>3, <1>4, <1>5, WritesLedger, WritesCtl

\* The verdict a command reports is its own ledger's.
LEMMA ReportInvariance == Spec => [](IInv /\ ReportInv)
<1>1. Init => IInv /\ ReportInv
  BY InitInv DEF Init, Idle, ReportInv
<1>2. ASSUME IInv, ReportInv, [Next]_vars PROVE (IInv /\ ReportInv)'
  <2>1. IInv'
    BY <1>2, InvStep
  <2>2. CASE Next
    BY <1>2, <2>1, <2>2, ReportStep DEF IInv
  <2>3. CASE UNCHANGED vars
    <3>1. UNCHANGED <<ctl, ledger, pending>>
      BY <2>3 DEF vars, records
    <3> QED
      BY <1>2, <2>1, <3>1 DEF ReportInv
  <2> QED
    BY <1>2, <2>2, <2>3
<1> QED
  BY <1>1, <1>2, PTL DEF Spec

\* The facts about plans need the invariant's types and its InStep.
PlanInv == IInv /\ PlansReviewed /\ ApprovedInv /\ TeardownInv

LEMMA PlanInvariance == Spec => []PlanInv
<1>1. Init => PlanInv
  <2> SUFFICES ASSUME Init PROVE PlanInv
    OBVIOUS
  <2>1. PlansReviewed
    BY BoundsAssumption DEF Init, PlansReviewed
  <2>2. ApprovedInv /\ TeardownInv
    BY DEF Init, Idle, NoJob, ApprovedInv, ExecutesApprovedUnlessReplanned, TeardownInv
  <2> QED
    BY <2>1, <2>2, InitInv DEF PlanInv
<1>2. ASSUME PlanInv, [Next]_vars PROVE PlanInv'
  <2>1. IInv'
    BY <1>2, InvStep DEF PlanInv
  <2>2. CASE Next
    BY <1>2, <2>1, <2>2, ReviewStep, ApprovedStep, TeardownStep
    DEF PlanInv, IInv
  <2>3. CASE UNCHANGED vars
    <3>1. UNCHANGED <<bin, meta, nplans, ctl, tf, state, ledger>>
      BY <2>3 DEF vars, plans, records
    <3>2. PlansReviewed' /\ ApprovedInv'
      BY <1>2, <3>1
      DEF PlanInv, PlansReviewed, ApprovedInv, ExecutesApprovedUnlessReplanned
    <3>3. TeardownInv'
      BY <1>2, <3>1 DEF PlanInv, TeardownInv
    <3> QED
      BY <2>1, <3>2, <3>3 DEF PlanInv
  <2> QED
    BY <1>2, <2>2, <2>3
<1> QED
  BY <1>1, <1>2, PTL DEF Spec

\* Of the plans on disk when the owner's phrase was checked terraform executes
\* none but the approved one, whatever plan commands were refused, killed or
\* repeated before, and whatever a second terminal plans at any moment.
THEOREM ExecutionCorrect == Spec => []ExecutesApprovedUnlessReplanned
<1>1. PlanInv => ExecutesApprovedUnlessReplanned
  BY DEF PlanInv, ApprovedInv
<1> QED
  BY <1>1, PlanInvariance, PTL

\* A teardown that executes the approved plan deletes only resources the run's
\* ledger records.
THEOREM DeletionCorrect == Spec => DeletesOnlyRecorded
<1>1. ASSUME PlanInv, [Next]_vars
      PROVE  [\A k \in Kinds :
                TfDelete(k) /\ tf.owned /\ tf.sha = ctl.sha =>
                   <<k, state[k]>> \in LedgerKeys]_vars
  <2>1. ASSUME NEW k \in Kinds, TfDelete(k), tf.owned, tf.sha = ctl.sha
        PROVE  <<k, state[k]>> \in LedgerKeys
    <3>1. state[k] = ledger.res[k] /\ state[k] # NoId
      BY <1>1, <2>1 DEF TfDelete, PlanInv, TeardownInv
    <3>2. <<k, state[k]>> \in Keys
      BY <1>1, <3>1 DEF PlanInv, IInv, TypeOK, Resources, Keys
    <3> QED
      BY <3>1, <3>2 DEF LedgerKeys, KeysOf
  <2> QED
    BY <2>1
<1> QED
  BY <1>1, PlanInvariance, PTL DEF Spec, DeletesOnlyRecorded

\* The session record never claims a provisioning or a deletion that the ledger
\* and the provider do not bear out, whatever a second terminal plans meanwhile.
THEOREM SessionCorrect == Spec => SessionEventsTrue
<1>1. ASSUME IInv, ReportInv, [Next]_vars
      PROVE  [Report =>
                /\ "provisioned" \in EventOf(ctl.cmd) =>
                      KindsOf(ledger.res) = Kinds /\ Visible \subseteq LedgerKeys
                /\ "deletion_confirmed" \in EventOf(ctl.cmd) =>
                      ledger.destroyed /\ LedgerKeys \cap Visible = {}]_vars
  <2>1. ASSUME Report, "provisioned" \in EventOf(ctl.cmd)
        PROVE  KindsOf(ledger.res) = Kinds /\ Visible \subseteq LedgerKeys
    <3>1. ctl.at = "report" /\ ledger.reconciled
      BY <2>1 DEF Report, EventOf
    <3>2. pending = "none"
      BY <1>1, <3>1 DEF ReportInv
    <3> QED
      BY <1>1, <3>1, <3>2 DEF IInv, CleanIsComplete
  <2>2. ASSUME Report, "deletion_confirmed" \in EventOf(ctl.cmd)
        PROVE  ledger.destroyed /\ LedgerKeys \cap Visible = {}
    <3>1. ctl.at = "report" /\ ctl.cmd = "destroy" /\ ctl.exit = "ok"
      BY <2>2 DEF Report, EventOf
    <3> QED
      BY <1>1, <3>1 DEF ReportInv, IInv, ConfirmedMeansGone
  <2> QED
    BY <2>1, <2>2
<1> QED
  BY <1>1, ReportInvariance, PTL DEF Spec, SessionEventsTrue

=============================================================================
