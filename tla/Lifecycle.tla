------------------------------ MODULE Lifecycle ------------------------------
(***************************************************************************)
(* The Terraform lifecycle of one run (src/blackwell_lab/cloud/lifecycle.py *)
(* and its commands in cloud/cli.py): plan, apply, reconcile, teardown-plan,*)
(* destroy, recover-empty-apply, and the gate every measured run passes.    *)
(*                                                                         *)
(* Four actors meet here: the command the owner runs (ctl), the terraform   *)
(* child process it starts (tf), the provider account (cloud), and the      *)
(* owner at the provider console.  A command may die between any two of its *)
(* steps; the files it wrote (bin, meta, pending, ledger, session) survive. *)
(***************************************************************************)
EXTENDS Naturals, FiniteSets

CONSTANTS
    Ids,                \* numeric provider ids; both resource types share them
    NoId,               \* no resource is recorded at an address
    MaxPlans,           \* bound on how often "terraform plan" is run
    MaxMeddlings        \* bound on what is done by hand at the console

ASSUME IdsAssumption == NoId \notin Ids
ASSUME BoundsAssumption == MaxPlans \in Nat /\ MaxMeddlings \in Nat

\* EXPECTED_RESOURCE_ADDRESSES: one address per resource type.
Kinds == {"instance", "firewall"}

\* Typed identity: provider ids are compared together with the type.
Keys == Kinds \X Ids

Stages == {"apply", "destroy"}

Resources == [Kinds -> Ids \union {NoId}]
Empty == [k \in Kinds |-> NoId]
KindsOf(res) == {k \in Kinds : res[k] # NoId}
KeysOf(res) == {key \in Keys : res[key[1]] = key[2]}

VARIABLES
    cloud,      \* what the provider account holds under the run's tags
    edited,     \* resources whose label the console changed
    meddlings,  \* how often the console was used
    state,      \* terraform.tfstate: the id recorded at each address
    bin,        \* <stage>.tfplan, the saved binary plans
    meta,       \* <stage>.plan-meta.json, what was reviewed
    planner,    \* the plan command between writing bin and writing meta
    nplans,     \* how many binary plans were made: a plan's number is its digest
    ledger,     \* ledger.json
    pending,    \* pending.json: "none" when the file is absent
    session,    \* the events of session.json a property reads
    ctl,        \* the lifecycle command in progress
    tf          \* the terraform process executing a saved plan

provider == <<cloud, edited, meddlings>>
plans == <<bin, meta, planner, nplans>>
records == <<ledger, pending, session>>

vars == <<provider, state, plans, records, ctl, tf>>

Statuses == {"unused", "live", "deleting", "gone"}
Plans == [sha : 0..MaxPlans, ops : SUBSET Kinds, stale : BOOLEAN]
Metas == [sha : 0..MaxPlans, ops : SUBSET Kinds, drift : BOOLEAN]
Ledgers == [exists : BOOLEAN, res : Resources, checked : BOOLEAN,
            reconciled : BOOLEAN, destroyed : BOOLEAN]
Commands == {"none", "apply", "destroy", "reconcile", "recover"}
Points == {"start", "exec", "wait", "ran", "clear", "report"}
Exits == {"none", "ok", "failed"}
\* began is history and read by no action: how many plans had been made when the
\* command verified the one it was approved for, whose digest is sha.
Controls == [cmd : Commands, at : Points, exit : Exits, sha : 0..MaxPlans,
             began : 0..MaxPlans]
Jobs == [job : Stages \union {"none"}, todo : SUBSET Kinds, open : SUBSET Keys,
         owned : BOOLEAN, sha : 0..MaxPlans]
Events == {"provisioned", "deletion_confirmed"}

TypeOK ==
    /\ cloud \in [Keys -> Statuses]
    /\ edited \subseteq Keys
    /\ meddlings \in 0..MaxMeddlings
    /\ state \in Resources
    /\ bin \in [Stages -> Plans]
    /\ meta \in [Stages -> Metas]
    /\ planner \in Stages \union {"none"}
    /\ nplans \in 0..MaxPlans
    /\ ledger \in Ledgers
    /\ pending \in {"none", "apply", "destroy"}
    /\ session \subseteq Events
    /\ ctl \in Controls
    /\ tf \in Jobs

Idle == [cmd |-> "none", at |-> "start", exit |-> "none", sha |-> 0, began |-> 0]
NoJob == [job |-> "none", todo |-> {}, open |-> {}, owned |-> FALSE, sha |-> 0]

Init ==
    /\ cloud = [key \in Keys |-> "unused"]
    /\ edited = {}
    /\ meddlings = 0
    /\ state = Empty
    /\ bin = [s \in Stages |-> [sha |-> 0, ops |-> {}, stale |-> FALSE]]
    /\ meta = [s \in Stages |-> [sha |-> 0, ops |-> {}, drift |-> FALSE]]
    /\ planner = "none"
    /\ nplans = 0
    /\ ledger = [exists |-> FALSE, res |-> Empty, checked |-> FALSE,
                 reconciled |-> FALSE, destroyed |-> FALSE]
    /\ pending = "none"
    /\ session = {}
    /\ ctl = Idle
    /\ tf = NoJob

------------------------------------------------------------------------------
(* What the commands read *)

\* A GET answers for a resource until its deletion has finished.
Visible == {key \in Keys : cloud[key] \in {"live", "deleting"}}
LedgerKeys == KeysOf(ledger.res)

\* verify_teardown_identity: ledger, state and provider agree on every target.
IdentityVerified ==
    /\ KindsOf(ledger.res) # {}
    /\ \A k \in KindsOf(ledger.res) : state[k] = ledger.res[k]
    /\ LedgerKeys \subseteq Visible \ edited

\* Mutant: the digest of the file on disk is not compared with the metadata.
PlanUndigested(s, sha) ==
    /\ meta[s].sha # 0
    /\ ~meta[s].drift
    /\ sha = meta[s].sha

\* verify_saved_plan and the approval phrase, which names the plan's digest.
PlanVerified(s, sha) ==
    /\ meta[s].sha # 0
    /\ bin[s].sha = meta[s].sha
    /\ ~meta[s].drift
    /\ sha = meta[s].sha

\* pilot_blockers reports nothing, and the ledger can be loaded.
GateOpen ==
    /\ pending = "none"
    /\ ledger.exists
    /\ ledger.reconciled
    /\ ledger.checked
    /\ KindsOf(ledger.res) = Kinds

------------------------------------------------------------------------------
(* plan and teardown-plan (save_plan, plan_destroy) *)

\* Terraform refreshes against the provider: what is gone is to be created,
\* what is still visible is to be deleted by a destroy plan.
PlannedOps(s) ==
    LET present == {k \in KindsOf(state) : <<k, state[k]>> \in Visible}
    IN IF s = "apply" THEN Kinds \ present ELSE present

\* The binary plan is overwritten before anything about it is judged, also by a
\* second terminal while a command stands between its steps: nothing locks it.
PlanBinary(s) ==
    /\ planner = "none"
    /\ tf.job = "none"
    /\ nplans < MaxPlans
    /\ s = "destroy" => IdentityVerified
    /\ nplans' = nplans + 1
    /\ bin' = [bin EXCEPT ![s] = [sha |-> nplans + 1, ops |-> PlannedOps(s),
                                  stale |-> FALSE]]
    /\ planner' = s
    /\ UNCHANGED <<provider, state, meta, records, ctl, tf>>

\* _enforce_stage_rules: an apply plan creates exactly the two resources.
StageRules(s) == s = "apply" => bin[s].ops = Kinds

PlanMeta(s) ==
    /\ planner = s
    /\ StageRules(s)
    /\ meta' = [meta EXCEPT ![s] = [sha |-> bin[s].sha, ops |-> bin[s].ops,
                                    drift |-> FALSE]]
    /\ planner' = "none"
    /\ UNCHANGED <<provider, state, bin, nplans, records, ctl, tf>>

\* A refused plan, a failed rendering or a killed command: the new binary plan
\* stays on disk beside the old metadata.
PlanFails ==
    /\ planner # "none"
    /\ planner' = "none"
    /\ UNCHANGED <<provider, state, bin, meta, nplans, records, ctl, tf>>

------------------------------------------------------------------------------
(* apply and destroy: up to the start of terraform *)

ApplyBegin(sha) ==
    /\ ctl.cmd = "none"
    /\ PlanVerified("apply", sha)
    /\ pending' = "apply"
    /\ ctl' = [cmd |-> "apply", at |-> "exec", exit |-> "none", sha |-> sha,
                began |-> nplans]
    /\ UNCHANGED <<provider, state, plans, ledger, session, tf>>

\* Mutant: the plan's targets are not compared with the ledger again.
DestroyUncompared(sha) ==
    /\ ctl.cmd = "none"
    /\ IdentityVerified
    /\ PlanVerified("destroy", sha)
    /\ pending' = "destroy"
    /\ ctl' = [cmd |-> "destroy", at |-> "exec", exit |-> "none", sha |-> sha,
                began |-> nplans]
    /\ UNCHANGED <<provider, state, plans, ledger, session, tf>>

DestroyBegin(sha) ==
    /\ ctl.cmd = "none"
    /\ IdentityVerified
    /\ PlanVerified("destroy", sha)
    /\ meta["destroy"].ops = KindsOf(ledger.res)
    /\ pending' = "destroy"
    /\ ctl' = [cmd |-> "destroy", at |-> "exec", exit |-> "none", sha |-> sha,
                began |-> nplans]
    /\ UNCHANGED <<provider, state, plans, ledger, session, tf>>

\* terraform itself refuses a locked state and a plan older than the state.
StartTerraform ==
    /\ ctl.at = "exec"
    /\ LET s == ctl.cmd IN
       IF tf.job = "none" /\ ~bin[s].stale
       THEN /\ tf' = [job |-> s, todo |-> bin[s].ops, open |-> {},
                      owned |-> TRUE, sha |-> bin[s].sha]
            /\ ctl' = [ctl EXCEPT !.at = "wait"]
       ELSE /\ ctl' = [ctl EXCEPT !.at = "ran", !.exit = "failed"]
            /\ UNCHANGED tf
    /\ UNCHANGED <<provider, state, plans, records>>

------------------------------------------------------------------------------
(* terraform executing a saved plan *)

\* Every write of the state file outdates the saved plans and their metadata.
WriteState(k, id) ==
    /\ state' = [state EXCEPT ![k] = id]
    /\ bin' = [s \in Stages |-> [bin[s] EXCEPT !.stale = TRUE]]
    /\ meta' = [s \in Stages |-> [meta[s] EXCEPT !.drift = TRUE]]

\* The firewall refers to the instance, so it is created after it.
TfCreate(k, id) ==
    /\ tf.job = "apply"
    /\ tf.open = {}
    /\ k \in tf.todo
    /\ k = "firewall" => "instance" \notin tf.todo
    /\ cloud[<<k, id>>] = "unused"
    /\ cloud' = [cloud EXCEPT ![<<k, id>>] = "live"]
    /\ tf' = [tf EXCEPT !.todo = @ \ {k}, !.open = {<<k, id>>}]
    /\ UNCHANGED <<edited, meddlings, state, plans, records, ctl>>

TfDelete(k) ==
    /\ tf.job = "destroy"
    /\ tf.open = {}
    /\ k \in tf.todo
    /\ k = "instance" => "firewall" \notin tf.todo
    /\ state[k] # NoId
    /\ LET key == <<k, state[k]>> IN
       /\ cloud' = [cloud EXCEPT ![key] = IF @ = "live" THEN "deleting" ELSE @]
       /\ tf' = [tf EXCEPT !.todo = @ \ {k}, !.open = {key}]
    /\ UNCHANGED <<edited, meddlings, state, plans, records, ctl>>

TfRecord ==
    /\ \E key \in tf.open :
          WriteState(key[1], IF tf.job = "apply" THEN key[2] ELSE NoId)
    /\ tf' = [tf EXCEPT !.open = {}]
    /\ UNCHANGED <<provider, planner, nplans, records, ctl>>

\* Exit status zero only when all is done and recorded.  A failure may come at
\* any point, also between a provider call and its record in the state.
TfExit(code) ==
    /\ tf.job # "none"
    /\ code = "ok" => tf.todo = {} /\ tf.open = {}
    /\ tf' = NoJob
    /\ ctl' = IF tf.owned THEN [ctl EXCEPT !.at = "ran", !.exit = code] ELSE ctl
    /\ UNCHANGED <<provider, state, plans, records>>

------------------------------------------------------------------------------
(* reconcile: a command of its own, and the tail of apply and failed destroy *)

ReconcileBegin ==
    /\ ctl.cmd = "none"
    /\ ctl' = [Idle EXCEPT !.cmd = "reconcile", !.at = "ran"]
    /\ UNCHANGED <<provider, state, plans, records, tf>>

\* Mutant: the combined set of numeric ids, without the resource type.
UntrackedNumbers(res) == {key \in Visible : \A k \in Kinds : res[k] # key[2]}

\* Run-tagged resources the provider lists and the state does not hold.
Untracked(res) == Visible \ KeysOf(res)

CleanReconciliation(readable, checked, res) ==
    /\ readable
    /\ checked
    /\ KindsOf(res) = Kinds
    /\ Untracked(res) = {}
    /\ KeysOf(res) \subseteq Visible \ edited

\* readable: "terraform show" answered; checked: both provider lists were read.
\* The ledger is rewritten whatever was found, also after an unreadable state.
ReconcileLedger(readable, checked) ==
    /\ ctl.at = "ran"
    /\ ctl.cmd = "destroy" => ctl.exit = "failed"
    /\ LET res == IF readable THEN state ELSE Empty
           clean == CleanReconciliation(readable, checked, res)
       IN /\ ledger' = [exists |-> TRUE, res |-> res, checked |-> checked,
                        reconciled |-> clean, destroyed |-> FALSE]
          /\ ctl' = [ctl EXCEPT !.at = IF clean THEN "clear" ELSE "report"]
    /\ UNCHANGED <<provider, state, plans, pending, session, tf>>

\* Mutant: the record is overwritten with a blank one instead of removed.
BlankPending ==
    /\ ctl.at = "clear"
    /\ pending' = "blank"
    /\ ctl' = [ctl EXCEPT !.at = "report"]
    /\ UNCHANGED <<provider, state, plans, ledger, session, tf>>

\* _clear_pending, the step after the ledger was written.
ClearPending ==
    /\ ctl.at = "clear"
    /\ pending' = "none"
    /\ ctl' = [ctl EXCEPT !.at = "report"]
    /\ UNCHANGED <<provider, state, plans, ledger, session, tf>>

\* Mutant: "provisioned" follows from terraform's exit status alone.
EventOfExit(cmd) ==
    {e \in Events :
        /\ ctl.exit = "ok"
        /\ e = IF cmd = "apply" THEN "provisioned" ELSE "deletion_confirmed"}

\* The last write of a command: the event it appends to the session record.
EventOf(cmd) ==
    {e \in Events :
        \/ e = "provisioned" /\ cmd = "apply" /\ ctl.exit = "ok" /\ ledger.reconciled
        \/ e = "deletion_confirmed" /\ cmd = "destroy" /\ ctl.exit = "ok"}

Report ==
    /\ ctl.at = "report"
    /\ session' = session \union EventOf(ctl.cmd)
    /\ ctl' = Idle
    /\ UNCHANGED <<provider, state, plans, ledger, pending, tf>>

------------------------------------------------------------------------------
(* confirm_deletion and the end of destroy *)

\* Mutant: the first absent id ends the polling.
ConfirmFirst ==
    /\ ctl.cmd = "destroy"
    /\ ctl.at = "ran"
    /\ ctl.exit = "ok"
    /\ LedgerKeys \ Visible # {}
    /\ ledger' = [ledger EXCEPT !.destroyed = TRUE]
    /\ ctl' = [ctl EXCEPT !.at = "clear"]
    /\ UNCHANGED <<provider, state, plans, pending, session, tf>>

\* Every recorded id answers 404: the ledger keeps its resources and its
\* reconciliation verdict, and gains the confirmation.
ConfirmDeletion ==
    /\ ctl.cmd = "destroy"
    /\ ctl.at = "ran"
    /\ ctl.exit = "ok"
    /\ LedgerKeys \cap Visible = {}
    /\ ledger' = [ledger EXCEPT !.destroyed = TRUE]
    /\ ctl' = [ctl EXCEPT !.at = "clear"]
    /\ UNCHANGED <<provider, state, plans, pending, session, tf>>

\* The window closes, or a probe fails: the pending record stays.
ConfirmTimeout ==
    /\ ctl.cmd = "destroy"
    /\ ctl.at = "ran"
    /\ ctl.exit = "ok"
    /\ ctl' = Idle
    /\ UNCHANGED <<provider, state, plans, records, tf>>

------------------------------------------------------------------------------
(* recover_verified_empty_apply *)

RecoverEmptyApply ==
    /\ ctl.cmd = "none"
    /\ pending = "apply"
    /\ ledger.exists
    /\ state = Empty
    /\ ledger.res = Empty
    /\ Visible = {}
    /\ ledger' = [ledger EXCEPT !.reconciled = FALSE, !.checked = TRUE]
    /\ ctl' = [Idle EXCEPT !.cmd = "recover", !.at = "clear"]
    /\ UNCHANGED <<provider, state, plans, pending, session, tf>>

------------------------------------------------------------------------------
(* What nobody planned *)

\* The command is killed between two steps.  Its terraform child dies with it,
\* or lives on as an orphan that still holds the state lock.
Crash ==
    /\ ctl.cmd # "none"
    /\ ctl' = Idle
    /\ \/ tf' = NoJob
       \/ tf.job # "none" /\ tf' = [tf EXCEPT !.owned = FALSE]
    /\ UNCHANGED <<provider, state, plans, records>>

\* The provider takes minutes to delete.
DeletionCompletes(key) ==
    /\ cloud[key] = "deleting"
    /\ cloud' = [cloud EXCEPT ![key] = "gone"]
    /\ UNCHANGED <<edited, meddlings, state, plans, records, ctl, tf>>

Meddle == meddlings < MaxMeddlings /\ meddlings' = meddlings + 1

ConsoleDelete(key) ==
    /\ cloud[key] = "live"
    /\ Meddle
    /\ cloud' = [cloud EXCEPT ![key] = "deleting"]
    /\ UNCHANGED <<edited, state, plans, records, ctl, tf>>

ConsoleEdit(key) ==
    /\ cloud[key] = "live"
    /\ Meddle
    /\ edited' = edited \union {key}
    /\ UNCHANGED <<cloud, state, plans, records, ctl, tf>>

\* A new commit, configuration or lock file, or an hour of age: the metadata no
\* longer matches the checkout.
Drift ==
    /\ \E s \in Stages : meta[s].sha # 0 /\ ~meta[s].drift
    /\ meta' = [s \in Stages |-> [meta[s] EXCEPT !.drift = TRUE]]
    /\ UNCHANGED <<provider, state, bin, planner, nplans, records, ctl, tf>>

------------------------------------------------------------------------------

Operator ==
    \/ \E s \in Stages : PlanBinary(s)
    \/ \E sha \in 1..MaxPlans : ApplyBegin(sha) \/ DestroyBegin(sha)
    \/ ReconcileBegin
    \/ RecoverEmptyApply

Command ==
    \/ \E s \in Stages : PlanMeta(s)
    \/ PlanFails
    \/ StartTerraform
    \/ \E readable, checked \in BOOLEAN : ReconcileLedger(readable, checked)
    \/ ClearPending
    \/ Report
    \/ ConfirmDeletion
    \/ ConfirmTimeout

Terraform ==
    \/ \E k \in Kinds, id \in Ids : TfCreate(k, id)
    \/ \E k \in Kinds : TfDelete(k)
    \/ TfRecord
    \/ \E code \in {"ok", "failed"} : TfExit(code)

World ==
    \/ Crash
    \/ Drift
    \/ \E key \in Keys :
          DeletionCompletes(key) \/ ConsoleDelete(key) \/ ConsoleEdit(key)

Next == Operator \/ Command \/ Terraform \/ World

Spec == Init /\ [][Next]_vars

------------------------------------------------------------------------------
(* Safety *)

\* While a command waits for its terraform, a recovery record is on disk: a
\* command killed at any point leaves the pending file that sends the owner to
\* reconcile.
PendingCoversTerraform == tf.job # "none" /\ tf.owned => pending # "none"

\* When no gate blocks a measured run, no billable resource of the run is
\* missing from the ledger: neither a crash between a provider call and its
\* record, nor a terraform that outlived its command, nor a teardown of a
\* partial ledger opens the gate over a resource nobody will tear down.
GateMeansAccounted == GateOpen => Visible \subseteq LedgerKeys

\* deletion_confirmed in the ledger: every resource the ledger records has left
\* the provider, however long the deletion took and whatever failed before.
ConfirmedMeansGone == ledger.destroyed => LedgerKeys \cap Visible = {}

\* A teardown that executes the approved plan deletes nothing but resources the
\* ledger of this run records, whatever happened to the state, the console and
\* the plan files since the review.
DeletesOnlyRecorded ==
    [][\A k \in Kinds :
         TfDelete(k) /\ tf.owned /\ tf.sha = ctl.sha =>
            <<k, state[k]>> \in LedgerKeys]_vars

\* No plan that was on disk when the owner's phrase was checked is ever executed
\* but the one the phrase named: not the binary a refused or killed plan command
\* left beside the old metadata, not the other stage's.  Only a plan made since,
\* by a second terminal between the check and terraform's start, can take its
\* place.
ExecutesApprovedUnlessReplanned ==
    tf.job # "none" /\ tf.owned => tf.sha = ctl.sha \/ tf.sha > ctl.began

\* The session record only gains "provisioned" when both resources are in the
\* ledger and nothing else bills, and "deletion_confirmed" only when every
\* recorded resource has left the provider.
SessionEventsTrue ==
    [][Report =>
         /\ "provisioned" \in EventOf(ctl.cmd) =>
               KindsOf(ledger.res) = Kinds /\ Visible \subseteq LedgerKeys
         /\ "deletion_confirmed" \in EventOf(ctl.cmd) =>
               ledger.destroyed /\ LedgerKeys \cap Visible = {}]_vars

------------------------------------------------------------------------------
(* What the documentation says and the code does not keep *)

\* The owner, at one terminal, retries as the timeout message tells: plans and
\* runs the teardown whenever the code lets them, and reconciles; terraform and
\* the provider make progress and nobody interferes.
AtPrompt == ctl.cmd = "none"

LiveNext ==
    \/ AtPrompt /\ Operator
    \/ Command \/ Terraform
    \/ \E key \in Keys : DeletionCompletes(key)

LiveSpec ==
    /\ Init /\ [][LiveNext]_vars
    /\ WF_vars(\E s \in Stages : PlanMeta(s))
    /\ WF_vars(StartTerraform)
    /\ WF_vars(Terraform)
    /\ WF_vars(ClearPending)
    /\ WF_vars(Report)
    /\ WF_vars(ConfirmDeletion \/ ConfirmTimeout)
    /\ WF_vars(ReconcileLedger(TRUE, TRUE))
    /\ WF_vars(\E key \in Keys : DeletionCompletes(key))
    /\ SF_vars(AtPrompt /\ PlanBinary("destroy"))
    /\ SF_vars(\E sha \in 1..MaxPlans : DestroyBegin(sha))
    /\ SF_vars(ReconcileBegin)

\* "Escalate or retry: re-run destroy confirmation" (the timeout message): once
\* terraform has destroyed the run, a retry confirms the deletion at last.
TeardownIsConfirmed ==
    ctl.cmd = "destroy" /\ ctl.exit = "ok" /\ nplans < MaxPlans
        ~> ledger.destroyed
=============================================================================
