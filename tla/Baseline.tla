------------------------------ MODULE Baseline ------------------------------
(***************************************************************************)
(* The two baseline commands against the six-hour session: mvl-baseline    *)
(* (a ten-task canary, then the measured matrix) and qualified-baseline    *)
(* (a verified freeze instead of the canary, and every model request       *)
(* clamped to what is left of the session).                                *)
(*                                                                         *)
(* Both read the session record once to learn when the instance was        *)
(* provisioned.  That record is written by apply alone, and only when its  *)
(* own reconciliation is clean; a second apply writes a second event.      *)
(***************************************************************************)
EXTENDS Integers, Sequences
LOCAL INSTANCE SequencesExt

CONSTANTS Commands,       \* the commands that may be typed
          Matrix,         \* AUTHORIZED_MVL_CELLS: the concurrency of each cell
          Repetitions, WarmupPasses, Tasks, CanaryTasks, MaxTurns,
          TTL,            \* FROZEN_SESSION_HOURS, in ticks
          TaskTimeout,    \* the profile's deadline of one task
          Sessions,       \* environment: the provisioned events of session.json
          Freezes,        \* environment: measured ticks of the verified freeze
          FreezeTasks,    \* tasks of the freeze
          MaxTime         \* environment: bound of the clock

Garbled == -1             \* an event whose timestamp does not parse
Naive == -2               \* one without an offset
Never == MaxTime + TTL + TaskTimeout   \* no session deadline

ASSUME BaselineAssumption ==
  /\ Commands \subseteq {"mvl-baseline", "qualified-baseline"}
  /\ Matrix \in Seq(Nat \ {0}) /\ Matrix # <<>>
  /\ Repetitions \in Nat \ {0} /\ WarmupPasses \in Nat
  /\ Tasks \in Nat \ {0} /\ CanaryTasks \in Nat \ {0} /\ FreezeTasks \in Nat \ {0}
  /\ MaxTurns \in Nat \ {0} /\ TTL \in Nat \ {0} /\ TaskTimeout \in Nat \ {0}
  /\ Sessions \subseteq Seq(Nat \cup {Garbled, Naive})
  /\ Freezes \subseteq Nat /\ MaxTime \in Nat

VARIABLES command,    \* which of the two this is
          now,        \* ticks since the instance was created
          events,     \* at_utc of the provisioned events
          at,         \* where the command stands
          expiry,     \* session_deadline of SessionBudgetClient
          wall,       \* the observed duration the projection scales
          begun,      \* when the canary, and then the matrix, was begun
          cell,       \* index in Matrix; 0: the canary
          pass,       \* passes of the cell done
          todo,       \* tasks of the pass nobody has taken
          flight,     \* worker -> its request under way
          persisted,  \* cell -> measured repetitions persisted
          log         \* session events and failure marker of this command

vars == <<command, now, events, at, expiry, wall, begun, cell, pass, todo, flight,
          persisted, log>>

-----------------------------------------------------------------------------

Qualified == command = "qualified-baseline"

Lowest(a, b) == IF a <= b THEN a ELSE b
Highest(a, b) == IF a >= b THEN a ELSE b
Cells == DOMAIN Matrix
Concurrency == IF cell = 0 THEN 1 ELSE Matrix[cell]
Workers == 1..Highest(1, CHOOSE c \in {Matrix[i] : i \in Cells} : \A i \in Cells : Matrix[i] <= c)
Passes == IF cell = 0 THEN 1 ELSE WarmupPasses + Repetitions
PassTasks == IF cell = 0 THEN CanaryTasks ELSE Tasks
Free == [turn |-> 0, task |-> 0, sent |-> 0, by |-> 0]
Busy(w) == flight[w] # Free
Ended == at \in {"completed", "stopped", "refused"}

TypeOK ==
  /\ command \in Commands
  /\ now \in 0..MaxTime
  /\ events \in Sessions
  /\ at \in {"idle", "admit", "cell", "pass", "project", "completed", "stopped", "refused"}
  /\ expiry \in 0..Never
  /\ wall \in Nat
  /\ begun \in 0..MaxTime
  /\ cell \in 0..Len(Matrix)
  /\ pass \in 0..Passes
  /\ todo \in 0..PassTasks
  /\ DOMAIN flight = Workers
  /\ \A w \in Workers : Busy(w) =>
       /\ w <= Concurrency /\ at = "pass"
       /\ flight[w].turn \in 1..MaxTurns
       /\ flight[w].sent < flight[w].by /\ flight[w].by <= flight[w].task
  /\ persisted \in [Cells -> 0..Repetitions]
  /\ log \in SUBSET {"started", "completed", "marker"}

-----------------------------------------------------------------------------
(* The session budget. *)

Timestamp(e) == e \notin {Garbled, Naive}

(* remaining_session_seconds: the first provisioned event counts, and a    *)
(* session without a usable one has the whole budget left.                 *)
Remaining ==
  IF events = <<>> \/ Head(events) = Garbled
  THEN TTL
  ELSE Highest(0, TTL - (now - Head(events)))

(* project_measured_seconds and refuse_if_session_exceeded, over the       *)
(* integers: ticks for n tasks at concurrency one, scaled to every cell of *)
(* the matrix, warm-up included.                                           *)
Product == FoldSeq(LAMBDA c, acc : c * acc, 1, Matrix)
Share == FoldSeq(LAMBDA c, acc : Product \div c + acc, 0, Matrix)

Fits(ticks, n, remaining) ==
  ticks * Tasks * (Repetitions + WarmupPasses) * Share <= remaining * n * Product

(* Mutant: every request gets the deadline of its task.                       *)
TaskDeadlineOnly(task) == task

(* SessionBudgetClient: the earlier of the two deadlines.                  *)
Bound(task) == Lowest(task, expiry)

-----------------------------------------------------------------------------
(* Admission. *)

Stop(marker) ==
  /\ at' = IF marker THEN "stopped" ELSE "refused"
  /\ log' = IF marker THEN log \cup {"marker"} ELSE log

(* The gates and the freeze are read; mvl-baseline records its start       *)
(* before the canary, qualified-baseline after the projection.             *)
Admit ==
  /\ at = "idle"
  /\ IF Qualified
     THEN /\ at' = "admit"
          /\ wall' \in Freezes
          /\ UNCHANGED <<begun, log>>
     ELSE /\ at' = "cell"
          /\ begun' = now /\ log' = {"started"}
          /\ UNCHANGED wall
  /\ UNCHANGED <<command, now, events, expiry, cell, pass, todo, flight, persisted>>

Refused ==
  /\ at = "idle"
  /\ Stop(FALSE)
  /\ UNCHANGED <<command, now, events, expiry, wall, begun, cell, pass, todo, flight, persisted>>

(* Exactly one timestamp, with an offset and not in the future.            *)
VerifiedProvisioning ==
  Len(events) = 1 /\ Timestamp(Head(events)) /\ Head(events) <= now

BeginMatrix ==
  /\ at' = "cell" /\ cell' = 1 /\ pass' = 0
  /\ begun' = now
  /\ log' = log \cup {"started"}

Project ==
  /\ at = "admit"
  /\ IF VerifiedProvisioning /\ wall > 0 /\ Fits(wall, FreezeTasks, Remaining)
     THEN BeginMatrix /\ expiry' = now + Remaining
     ELSE Stop(TRUE) /\ UNCHANGED <<expiry, begun, cell, pass>>
  /\ UNCHANGED <<command, now, events, wall, todo, flight, persisted>>

(* Mutant: what was left of the session when the canary began.                *)
RemainingAtStart ==
  IF events = <<>> \/ Head(events) = Garbled
  THEN TTL
  ELSE Highest(0, TTL - (begun - Head(events)))

RemainingAfterCanary == Remaining

(* The historical command: the canary must be whole and well-behaved (a    *)
(* choice), and what is left of the session is computed after it.  A       *)
(* timestamp without an offset can not be subtracted: the canary aborts.   *)
CanaryPassed ==
  /\ events # <<>> => Head(events) # Naive
  /\ Fits(wall, CanaryTasks, RemainingAfterCanary)

CanaryProject ==
  /\ at = "project"
  /\ \/ CanaryPassed /\ BeginMatrix
     \/ Stop(TRUE) /\ UNCHANGED <<begun, cell, pass>>
  /\ UNCHANGED <<command, now, events, expiry, wall, todo, flight, persisted>>

-----------------------------------------------------------------------------
(* The cells. *)

(* Past the session deadline no cell is begun.                             *)
BeginCell ==
  /\ at = "cell"
  /\ now < expiry
  /\ at' = "pass" /\ pass' = 0 /\ todo' = PassTasks
  /\ UNCHANGED <<command, now, events, expiry, wall, begun, cell, flight, persisted, log>>

(* Expiry, failed provenance, a label already used, or an exception out of *)
(* a pass: measured work stops with a marker.                              *)
Abort ==
  /\ at \in {"cell", "pass"}
  /\ Stop(TRUE)
  /\ flight' = [w \in Workers |-> Free] /\ todo' = 0
  /\ UNCHANGED <<command, now, events, expiry, wall, begun, cell, pass, persisted>>

(* One turn of a task: refused without a request past the session          *)
(* deadline, else sent with the bound.                                     *)
Ask(w, turn, task) ==
  flight' = [flight EXCEPT ![w] =
    IF now < Bound(task)
    THEN [turn |-> turn, task |-> task, sent |-> now, by |-> Bound(task)]
    ELSE Free]

TakeTask(w) ==
  /\ at = "pass" /\ todo > 0
  /\ w <= Concurrency /\ ~Busy(w)
  /\ todo' = todo - 1
  /\ Ask(w, 1, now + TaskTimeout)
  /\ UNCHANGED <<command, now, events, at, expiry, wall, begun, cell, pass, persisted, log>>

Answer(w) ==
  /\ Busy(w)
  /\ \/ flight' = [flight EXCEPT ![w] = Free]
     \/ flight[w].turn < MaxTurns /\ Ask(w, flight[w].turn + 1, flight[w].task)
  /\ UNCHANGED <<command, now, events, at, expiry, wall, begun, cell, pass, todo, persisted, log>>

PassDone == at = "pass" /\ todo = 0 /\ \A w \in Workers : ~Busy(w)

LastPass == pass + 1 = Passes

(* Mutant: the warm-up is persisted as a measured repetition.                 *)
AnyPass == cell > 0

Measured == cell > 0 /\ pass >= WarmupPasses

(* Every measured pass of a matrix cell is persisted before the next.      *)
EndPass ==
  /\ PassDone
  /\ persisted' = IF Measured THEN [persisted EXCEPT ![cell] = @ + 1] ELSE persisted
  /\ IF ~LastPass
     THEN pass' = pass + 1 /\ todo' = PassTasks /\ UNCHANGED <<at, wall, cell, log>>
     ELSE /\ pass' = 0 /\ UNCHANGED todo
          /\ IF cell = 0
             THEN at' = "project" /\ wall' = now - begun /\ UNCHANGED <<cell, log>>
             ELSE IF cell < Len(Matrix)
             THEN at' = "cell" /\ cell' = cell + 1 /\ UNCHANGED <<wall, log>>
             ELSE /\ at' = "completed" /\ log' = log \cup {"completed"}
                  /\ UNCHANGED <<wall, cell>>
  /\ UNCHANGED <<command, now, events, expiry, begun, flight>>

-----------------------------------------------------------------------------
(* Time.  The read timeout of a request is what was left to its bound when *)
(* it was sent, and the bound is looked at between two reads: a stream may *)
(* run past its bound by that much and no further.                         *)

LastMoment(w) == flight[w].by + (flight[w].by - flight[w].sent)

Tick ==
  /\ ~Ended /\ now < MaxTime
  /\ \A w \in Workers : Busy(w) => now < LastMoment(w)
  /\ now' = now + 1
  /\ UNCHANGED <<command, events, at, expiry, wall, begun, cell, pass, todo,
                 flight, persisted, log>>

Init ==
  /\ command \in Commands
  /\ now = 0
  /\ events \in Sessions
  /\ at = "idle"
  /\ expiry = Never
  /\ wall = 0 /\ begun = 0 /\ cell = 0 /\ pass = 0 /\ todo = 0
  /\ flight = [w \in Workers |-> Free]
  /\ persisted = [c \in Cells |-> 0]
  /\ log = {}

Working ==
  \/ Admit \/ Refused \/ Project \/ CanaryProject
  \/ BeginCell \/ Abort \/ EndPass
  \/ \E w \in Workers : TakeTask(w) \/ Answer(w)

Next == Tick \/ Working

Spec == Init /\ [][Next]_vars

-----------------------------------------------------------------------------
(* Properties. *)

(* qualified-baseline: no model request is sent after the six hours that   *)
(* began with the one provisioned event, and none carries a deadline       *)
(* beyond them, whichever cell, pass and turn it belongs to.               *)
RequestsInSession ==
  Qualified => \A w \in Workers : Busy(w) =>
    /\ flight[w].sent < Head(events) + TTL
    /\ flight[w].by <= Head(events) + TTL

(* Measured work begins only if its projection fits what is left of the    *)
(* session at that moment, and not at the moment an earlier step looked,   *)
(* for every session whose first provisioned event parses.                 *)
MatrixFitsSession ==
  cell > 0 /\ events # <<>> /\ Timestamp(Head(events)) =>
    Fits(wall, IF Qualified THEN FreezeTasks ELSE CanaryTasks,
         Highest(0, Head(events) + TTL - begun))
=============================================================================
