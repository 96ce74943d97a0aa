----------------------------- MODULE ClosedLoop -----------------------------
(***************************************************************************)
(* The bounded closed-loop scheduler of the benchmark (_run_pass of        *)
(* workload/runner.py): a crew of worker threads claims the tasks of one   *)
(* pass in order, runs each to its terminal record, hands it to the        *)
(* evaluator and stores the outcome.  The claim and the release of a slot  *)
(* each happen under the lock; everything else runs outside it.            *)
(* run_task turns client, tool and controller errors into terminal records,*)
(* but an exception of the toolbox constructor or of the evaluator ends    *)
(* the worker: its slot is never released and its task has no outcome.     *)
(***************************************************************************)
EXTENDS Integers, FiniteSets

CONSTANTS Workers,   \* the threads that can exist
          N          \* tasks in the schedule

ASSUME ClosedLoopAssumption == IsFiniteSet(Workers) /\ N \in Nat \ {0}

Tasks == 1..N

VARIABLES crew,      \* the threads of this pass; one means no thread is spawned
          next,      \* state["next_index"]
          inFlight,  \* state["in_flight"]
          achieved,  \* state["achieved_max"]
          worker,    \* what each worker is doing, and on which task
          outcomes   \* tasks whose outcome is stored

loopVars == <<crew, next, inFlight, achieved, worker, outcomes>>

Larger(x, y) == IF x > y THEN x ELSE y
At(pc, t) == [pc |-> pc, task |-> t]
Idle == At("idle", 0)

FreshPass(c) ==
  /\ crew' = c
  /\ next' = 1 /\ inFlight' = 0 /\ achieved' = 0 /\ outcomes' = {}
  /\ worker' = [w \in Workers |-> IF w \in c THEN Idle ELSE At("exited", 0)]

LoopInit ==
  /\ crew \in SUBSET Workers \ {{}}
  /\ next = 1 /\ inFlight = 0 /\ achieved = 0 /\ outcomes = {}
  /\ worker = [w \in Workers |-> IF w \in crew THEN Idle ELSE At("exited", 0)]

\* Mutant: the claim is not under the lock and may read a stale index.
ClaimUnlocked(w) ==
  \E t \in {next} \cup {worker[v].task : v \in {u \in Workers : worker[u].pc = "running"}} :
    /\ worker[w].pc = "idle" /\ next <= N
    /\ worker' = [worker EXCEPT ![w] = At("running", t)]
    /\ next' = Larger(next, t + 1)
    /\ inFlight' = inFlight + 1
    /\ achieved' = Larger(achieved, inFlight + 1)
    /\ UNCHANGED <<crew, outcomes>>

(* Under the lock: take the next task and a slot. *)
Claim(w) ==
  /\ worker[w].pc = "idle" /\ next <= N
  /\ worker' = [worker EXCEPT ![w] = At("running", next)]
  /\ next' = next + 1
  /\ inFlight' = inFlight + 1
  /\ achieved' = Larger(achieved, inFlight + 1)
  /\ UNCHANGED <<crew, outcomes>>

(* The task has its terminal record and its evaluation; under the lock, the *)
(* slot is given back.                                                     *)
Release(w) ==
  /\ worker[w].pc = "running"
  /\ worker' = [worker EXCEPT ![w].pc = "storing"]
  /\ inFlight' = inFlight - 1
  /\ UNCHANGED <<crew, next, achieved, outcomes>>

(* The outcome is stored after the lock was released. *)
Store(w) ==
  /\ worker[w].pc = "storing"
  /\ outcomes' = outcomes \cup {worker[w].task}
  /\ worker' = [worker EXCEPT ![w] = Idle]
  /\ UNCHANGED <<crew, next, inFlight, achieved>>

(* An exception outside run_task. *)
Die(w) ==
  /\ worker[w].pc = "running"
  /\ worker' = [worker EXCEPT ![w].pc = "dead"]
  /\ UNCHANGED <<crew, next, inFlight, achieved, outcomes>>

(* No task is left. *)
Leave(w) ==
  /\ worker[w].pc = "idle" /\ next > N
  /\ worker' = [worker EXCEPT ![w] = At("exited", 0)]
  /\ UNCHANGED <<crew, next, inFlight, achieved, outcomes>>

Work(w) == Claim(w) \/ Release(w) \/ Store(w) \/ Die(w) \/ Leave(w)

(* Every thread has been joined. *)
Joined == \A w \in Workers : worker[w].pc \in {"exited", "dead"}

LoopNext == \E w \in Workers : Work(w)
LoopSpec == LoopInit /\ [][LoopNext]_loopVars

-----------------------------------------------------------------------------
(* Properties. *)

LoopTypeOK ==
  /\ crew \subseteq Workers
  /\ next \in 1..(N + 1)
  /\ inFlight \in Int /\ achieved \in Int
  /\ worker \in [Workers -> [pc : {"idle", "running", "storing", "exited", "dead"},
                             task : 0..N]]
  /\ outcomes \subseteq Tasks

Holding == {w \in Workers : worker[w].pc \in {"running", "storing", "dead"}}
Slots == {w \in Workers : worker[w].pc \in {"running", "dead"}}

(* Every claimed task is held by exactly one worker or has its outcome, and *)
(* never both: no task is run twice, and none is lost unless its worker    *)
(* died.                                                                   *)
EachTaskOnce ==
  /\ \A v, w \in Holding : worker[v].task = worker[w].task => v = w
  /\ \A w \in Holding : worker[w].task \notin outcomes
  /\ \A t \in Tasks : t < next <=> (t \in outcomes \/ \E w \in Holding : worker[w].task = t)

(* The counter the results report is the number of occupied slots (a dead   *)
(* worker's slot stays occupied), so the reported maximum concurrency never *)
(* exceeds the requested one.                                              *)
InFlightIsSlots == inFlight = Cardinality(Slots) /\ achieved <= Cardinality(crew)
=============================================================================
