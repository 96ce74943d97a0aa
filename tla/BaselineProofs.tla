--------------------------- MODULE BaselineProofs ---------------------------
(***************************************************************************)
(* Theorems about Baseline, for every matrix, budget, session record and   *)
(* freeze.                                                                 *)
(***************************************************************************)
EXTENDS Baseline, SequenceTheorems, TLAPS

Requests == [turn : Nat, task : Nat, sent : Nat, by : Nat]

(* The command stands where its kind allows, nothing is under way outside  *)
(* a pass, and the clock of the matrix is not ahead.                       *)
Standing ==
  /\ at \in {"idle", "admit"} => cell = 0
  /\ at = "admit" => Qualified
  /\ at = "project" => ~Qualified /\ cell = 0
  /\ at \in {"cell", "pass"} /\ Qualified => cell > 0
  /\ at \in {"idle", "admit", "cell", "project"} => todo = 0
  /\ at \in {"idle", "admit", "cell"} => pass = 0
  /\ pass < Passes
  /\ begun <= now
  /\ flight \in [Workers -> Requests]

(* The repetitions persisted are the measured passes done.                 *)
Counted ==
  ~Ended => \A c \in Cells : c >= cell =>
    persisted[c] = IF c = cell /\ pass > WarmupPasses THEN pass - WarmupPasses ELSE 0

(* A qualified matrix has the one provisioned event behind it; its expiry  *)
(* is not past the six hours, unless it is already over, and then no pass  *)
(* is begun.                                                               *)
Deadline ==
  Qualified /\ at \in {"cell", "pass"} =>
    /\ events # <<>> /\ Head(events) \in Nat /\ Head(events) <= now
    /\ expiry <= Head(events) + TTL \/ (at = "cell" /\ expiry <= now)

IInv == TypeOK /\ Standing /\ Counted /\ Deadline /\ RequestsInSession /\ MatrixFitsSession

-----------------------------------------------------------------------------
(* Lemmas about the session record and the bounds. *)

LEMMA HeadOfSession ==
  ASSUME BaselineAssumption, events \in Sessions, events # <<>>
  PROVE  /\ Head(events) \in Nat \cup {Garbled, Naive}
         /\ Timestamp(Head(events)) => Head(events) \in Nat
<1>1. events \in Seq(Nat \cup {Garbled, Naive})  BY DEF BaselineAssumption
<1>2. Head(events) \in Nat \cup {Garbled, Naive}  BY <1>1
<1> QED  BY <1>2 DEF Timestamp

LEMMA RemainingOfTimestamp ==
  ASSUME BaselineAssumption, events \in Sessions, events # <<>>, now \in Nat,
         Timestamp(Head(events))
  PROVE  Remaining = Highest(0, Head(events) + TTL - now)
<1>1. Head(events) \in Nat  BY HeadOfSession
<1>2. TTL - (now - Head(events)) = Head(events) + TTL - now
  BY <1>1 DEF BaselineAssumption
<1> QED  BY <1>2 DEF Remaining, Timestamp

LEMMA MatrixNotEmpty ==
  ASSUME BaselineAssumption
  PROVE  Len(Matrix) \in Nat \ {0} /\ Cells = 1..Len(Matrix)
BY DEF BaselineAssumption, Cells

LEMMA FirstStep == ASSUME BaselineAssumption, Init PROVE IInv
<1>0. Len(Matrix) \in Nat \ {0} /\ Cells = 1..Len(Matrix)  BY MatrixNotEmpty
<1>1. Free \in Requests  BY DEF Free, Requests
<1>2. \A w \in Workers : ~Busy(w)  BY DEF Init, Busy
<1>3. Passes = 1 /\ PassTasks = CanaryTasks  BY DEF Init, Passes, PassTasks
<1>4. TypeOK
  BY <1>0, <1>2, <1>3 DEF TypeOK, Init, BaselineAssumption, Never
<1>5. Standing  BY <1>1, <1>3 DEF Standing, Init
<1>6. Counted  BY <1>0 DEF Counted, Init
<1> QED  BY <1>2, <1>4, <1>5, <1>6 DEF IInv, Deadline, RequestsInSession, MatrixFitsSession, Init

-----------------------------------------------------------------------------
(* One lemma for each action that touches what IInv is about. *)

LEMMA AdmitStep == ASSUME BaselineAssumption, IInv, Admit PROVE IInv'
<1>1. \A w \in Workers : Busy(w)' <=> Busy(w)  BY DEF Admit, Busy
<1>2. Passes' = Passes /\ PassTasks' = PassTasks /\ Concurrency' = Concurrency /\ (Qualified' <=> Qualified)
  BY DEF Admit, Passes, PassTasks, Concurrency, Qualified
<1>3. \A w \in Workers : ~Busy(w)  BY DEF IInv, TypeOK, Admit
<1>4. TypeOK'
  BY <1>1, <1>2, <1>3 DEF IInv, TypeOK, Admit, BaselineAssumption
<1>5. Standing'  BY <1>2 DEF IInv, Standing, Admit, TypeOK
<1>6. Deadline'  BY <1>2, <1>5, <1>1 DEF IInv, Standing, Deadline, Admit, Qualified
<1>7. RequestsInSession'  BY <1>1, <1>3 DEF RequestsInSession
<1>8. MatrixFitsSession'  BY DEF IInv, Standing, Admit, MatrixFitsSession
<1>9. Counted'  BY DEF IInv, Counted, Ended, Admit
<1> QED  BY <1>4, <1>5, <1>6, <1>7, <1>8, <1>9 DEF IInv

LEMMA RefusedStep == ASSUME BaselineAssumption, IInv, Refused PROVE IInv'
<1>1. \A w \in Workers : (Busy(w)' <=> Busy(w)) /\ ~Busy(w)
  BY DEF IInv, TypeOK, Refused, Busy
<1>2. Passes' = Passes /\ PassTasks' = PassTasks /\ (Qualified' <=> Qualified)
  BY DEF Refused, Passes, PassTasks, Qualified
<1>3. at' = "refused" /\ log' = log  BY DEF Refused, Stop
<1>4. TypeOK'  BY <1>1, <1>2, <1>3 DEF IInv, TypeOK, Refused
<1>5. Standing'  BY <1>2, <1>3 DEF IInv, Standing, Refused
<1>6. Deadline'  BY <1>3 DEF Deadline
<1>7. RequestsInSession'  BY <1>1 DEF RequestsInSession
<1>8. MatrixFitsSession'  BY DEF IInv, Standing, Refused, MatrixFitsSession
<1>9. Counted'  BY <1>3 DEF Counted, Ended
<1> QED  BY <1>4, <1>5, <1>6, <1>7, <1>8, <1>9 DEF IInv

(* What begins a matrix, or stops before one, keeps everything but the     *)
(* verdict of the projection.                                              *)
LEMMA MatrixBegins ==
  ASSUME BaselineAssumption, IInv, at \in {"admit", "project"},
         BeginMatrix \/ (Stop(TRUE) /\ UNCHANGED <<begun, cell, pass>>),
         UNCHANGED <<command, now, events, wall, todo, flight, persisted>>,
         expiry' \in 0..Never
  PROVE  TypeOK' /\ Standing' /\ Counted' /\ RequestsInSession'
<1>0. Len(Matrix) \in Nat \ {0} /\ Cells = 1..Len(Matrix)  BY MatrixNotEmpty
<1>1. \A w \in Workers : (Busy(w)' <=> Busy(w)) /\ ~Busy(w)
  BY DEF IInv, TypeOK, Busy
<1>2. todo = 0 /\ now \in 0..MaxTime /\ now \in Nat  BY DEF IInv, TypeOK, Standing, BaselineAssumption
<1>3. Passes \in Nat \ {0} /\ PassTasks \in Nat /\ Passes' \in Nat \ {0} /\ PassTasks' \in Nat
  BY DEF Passes, PassTasks, BaselineAssumption
<1>4. /\ at' \in {"cell", "stopped"} /\ cell' \in 0..Len(Matrix)
      /\ begun' \in 0..MaxTime /\ begun' <= now
      /\ pass' \in 0..Passes' /\ pass' < Passes' /\ (at' = "cell" => pass' = 0)
      /\ log' \in SUBSET {"started", "completed", "marker"}
  <2>1. CASE BeginMatrix  BY <2>1, <1>0, <1>2, <1>3 DEF BeginMatrix, IInv, TypeOK
  <2>2. CASE Stop(TRUE) /\ UNCHANGED <<begun, cell, pass>>
    <3>1. Passes' = Passes  BY <2>2 DEF Passes
    <3> QED  BY <2>2, <3>1 DEF Stop, IInv, TypeOK, Standing
  <2> QED  BY <2>1, <2>2
<1>5. TypeOK'
  <2>1. /\ command' \in Commands /\ now' \in 0..MaxTime /\ events' \in Sessions
        /\ wall' \in Nat /\ todo' \in 0..PassTasks' /\ DOMAIN flight' = Workers
        /\ persisted' \in [Cells -> 0..Repetitions]
    BY <1>2, <1>3 DEF IInv, TypeOK
  <2> QED  BY <2>1, <1>1, <1>4 DEF TypeOK
<1>6. Standing'
  <2>1. at' = "cell" => cell' > 0 /\ Len(Matrix) > 0  BY <1>0 DEF BeginMatrix, Stop
  <2> QED  BY <1>2, <1>4, <2>1 DEF IInv, Standing
<1>7. RequestsInSession'  BY <1>1 DEF RequestsInSession
<1>8. Counted'
  <2>1. CASE BeginMatrix
    BY <2>1, <1>0 DEF BeginMatrix, IInv, Standing, Counted, Ended, BaselineAssumption
  <2>2. CASE Stop(TRUE)  BY <2>2 DEF Stop, Counted, Ended
  <2> QED  BY <2>1, <2>2
<1> QED  BY <1>5, <1>6, <1>7, <1>8

LEMMA ProjectStep == ASSUME BaselineAssumption, IInv, Project PROVE IInv'
<1>1. at = "admit" /\ Qualified /\ (Qualified' <=> Qualified) /\ cell = 0 /\ now \in Nat /\ TTL \in Nat
      /\ TaskTimeout \in Nat /\ MaxTime \in Nat /\ now <= MaxTime /\ events \in Sessions
  BY DEF Project, IInv, TypeOK, Standing, Qualified, BaselineAssumption
<1>2. CASE VerifiedProvisioning /\ wall > 0 /\ Fits(wall, FreezeTasks, Remaining)
  <2>1. BeginMatrix /\ expiry' = now + Remaining
        /\ UNCHANGED <<command, now, events, wall, todo, flight, persisted>>
    BY <1>2 DEF Project
  <2>2. events # <<>> /\ Timestamp(Head(events)) /\ Head(events) <= now
    <3>1. events \in Seq(Nat \cup {Garbled, Naive})  BY <1>1 DEF BaselineAssumption
    <3>2. Len(events) # 0  BY <1>2 DEF VerifiedProvisioning
    <3>3. events # <<>>  BY <3>1, <3>2, EmptySeq
    <3> QED  BY <3>3, <1>2 DEF VerifiedProvisioning
  <2>3. Head(events) \in Nat  BY <2>2, <1>1, HeadOfSession
  <2>4. Remaining = Highest(0, Head(events) + TTL - now)
    BY <2>2, <1>1, RemainingOfTimestamp
  <2>5. /\ expiry' \in 0..Never
        /\ expiry' <= Head(events) + TTL \/ expiry' <= now
    BY <2>1, <2>2, <2>3, <2>4, <1>1 DEF Highest, Never
  <2>6. TypeOK' /\ Standing' /\ Counted' /\ RequestsInSession'  BY <2>1, <2>5, <1>1, MatrixBegins
  <2>7. Deadline'  BY <2>1, <2>2, <2>3, <2>5 DEF Deadline, BeginMatrix
  <2>8. begun' = now /\ events' = events /\ wall' = wall  BY <2>1 DEF BeginMatrix
  <2>9. Fits(wall, FreezeTasks, Highest(0, Head(events) + TTL - now))  BY <1>2, <2>4
  <2>10. Fits(wall, FreezeTasks, Highest(0, Head(events) + TTL - now))' <=>
         Fits(wall, FreezeTasks, Highest(0, Head(events) + TTL - now))
    BY <2>1 DEF Fits, Highest
  <2>11. MatrixFitsSession'  BY <2>8, <2>9, <1>1 DEF MatrixFitsSession
  <2> QED  BY <2>6, <2>7, <2>11 DEF IInv
<1>3. CASE ~(VerifiedProvisioning /\ wall > 0 /\ Fits(wall, FreezeTasks, Remaining))
  <2>1. /\ Stop(TRUE) /\ UNCHANGED <<expiry, begun, cell, pass>>
        /\ UNCHANGED <<command, now, events, wall, todo, flight, persisted>>
    BY <1>3 DEF Project
  <2>2. expiry' \in 0..Never  BY <2>1 DEF IInv, TypeOK
  <2>3. TypeOK' /\ Standing' /\ Counted' /\ RequestsInSession'  BY <2>1, <2>2, <1>1, MatrixBegins
  <2>4. at' = "stopped" /\ cell' = 0  BY <2>1, <1>1 DEF Stop
  <2>5. Deadline' /\ MatrixFitsSession'  BY <2>4 DEF Deadline, MatrixFitsSession
  <2> QED  BY <2>3, <2>5 DEF IInv
<1> QED  BY <1>2, <1>3

LEMMA CanaryStep == ASSUME BaselineAssumption, IInv, CanaryProject PROVE IInv'
<1>1. at = "project" /\ ~Qualified /\ (Qualified' <=> Qualified) /\ cell = 0 /\ now \in Nat
      /\ events \in Sessions /\ expiry \in 0..Never
      /\ UNCHANGED <<command, now, events, expiry, wall, todo, flight, persisted>>
  BY DEF CanaryProject, IInv, TypeOK, Standing, Qualified, BaselineAssumption
<1>2. BeginMatrix \/ (Stop(TRUE) /\ UNCHANGED <<begun, cell, pass>>)  BY DEF CanaryProject
<1>3. TypeOK' /\ Standing' /\ Counted' /\ RequestsInSession'  BY <1>1, <1>2, MatrixBegins
<1>4. Deadline'  BY <1>1 DEF Deadline
<1>5. CASE CanaryPassed /\ BeginMatrix
  <2>1. begun' = now /\ events' = events /\ wall' = wall  BY <1>1, <1>5 DEF BeginMatrix
  <2>2. ASSUME events # <<>>, Timestamp(Head(events))
        PROVE  Fits(wall, CanaryTasks, Highest(0, Head(events) + TTL - now))
    <3>1. Remaining = Highest(0, Head(events) + TTL - now)
      BY <2>2, <1>1, RemainingOfTimestamp
    <3> QED  BY <3>1, <1>5 DEF CanaryPassed, RemainingAfterCanary
  <2>3. MatrixFitsSession'  BY <2>1, <2>2, <1>1 DEF MatrixFitsSession, Timestamp
  <2> QED  BY <1>3, <1>4, <2>3 DEF IInv
<1>6. CASE Stop(TRUE) /\ UNCHANGED <<begun, cell, pass>>
  <2>1. MatrixFitsSession'  BY <1>1, <1>6 DEF MatrixFitsSession
  <2> QED  BY <1>3, <1>4, <2>1 DEF IInv
<1> QED  BY <1>5, <1>6 DEF CanaryProject

LEMMA BeginCellStep == ASSUME BaselineAssumption, IInv, BeginCell PROVE IInv'
<1>1. \A w \in Workers : (Busy(w)' <=> Busy(w)) /\ ~Busy(w)
  BY DEF IInv, TypeOK, BeginCell, Busy
<1>2. /\ Passes' = Passes /\ PassTasks' = PassTasks /\ (Qualified' <=> Qualified)
      /\ Passes \in Nat \ {0} /\ PassTasks \in Nat
  BY DEF BeginCell, Passes, PassTasks, Qualified, BaselineAssumption
<1>3. TypeOK'  BY <1>1, <1>2 DEF IInv, TypeOK, BeginCell
<1>4. Standing'  BY <1>2 DEF IInv, Standing, BeginCell
<1>5. Deadline'
  <2>1. now \in Nat /\ expiry \in Nat
    BY DEF IInv, TypeOK, BaselineAssumption, Never
  <2> QED  BY <1>2, <2>1 DEF IInv, Deadline, BeginCell
<1>6. RequestsInSession'  BY <1>1 DEF RequestsInSession
<1>7. MatrixFitsSession'
  BY DEF IInv, BeginCell, MatrixFitsSession, Qualified, Fits, Highest, Timestamp
<1>8. Counted'  BY DEF IInv, Standing, Counted, Ended, BeginCell
<1> QED  BY <1>3, <1>4, <1>5, <1>6, <1>7, <1>8 DEF IInv

LEMMA AbortStep == ASSUME BaselineAssumption, IInv, Abort PROVE IInv'
<1>1. \A w \in Workers : ~Busy(w)'  BY DEF Abort, Busy
<1>2. /\ Passes' = Passes /\ PassTasks' = PassTasks
      /\ Passes \in Nat \ {0} /\ PassTasks \in Nat
  BY DEF Abort, Passes, PassTasks, BaselineAssumption
<1>3. at' = "stopped" /\ log' = log \cup {"marker"}  BY DEF Abort, Stop
<1>4. TypeOK'  BY <1>1, <1>2, <1>3 DEF IInv, TypeOK, Abort
<1>5. Free \in Requests  BY DEF Free, Requests
<1>6. Standing'  BY <1>2, <1>3, <1>5 DEF IInv, Standing, Abort
<1>7. Deadline'  BY <1>3 DEF Deadline
<1>8. RequestsInSession'  BY <1>1 DEF RequestsInSession
<1>9. MatrixFitsSession'
  BY DEF IInv, Abort, MatrixFitsSession, Qualified, Fits, Highest, Timestamp
<1>10. Counted'  BY <1>3 DEF Counted, Ended
<1> QED  BY <1>4, <1>6, <1>7, <1>8, <1>9, <1>10 DEF IInv

(* A request under way fits its task and, in a qualified command, the      *)
(* session.                                                                *)
Sound(w) ==
  Busy(w) =>
    /\ w <= Concurrency /\ at = "pass"
    /\ flight[w].turn \in 1..MaxTurns
    /\ flight[w].sent < flight[w].by /\ flight[w].by <= flight[w].task
    /\ Qualified => /\ flight[w].sent < Head(events) + TTL
                    /\ flight[w].by <= Head(events) + TTL

(* Every turn a worker sends, the first or a later one, is a sound one.    *)
LEMMA AskSound ==
  ASSUME BaselineAssumption, IInv, at = "pass",
         NEW w \in Workers, w <= Concurrency,
         NEW turn \in 1..MaxTurns, NEW task \in Nat, Ask(w, turn, task),
         UNCHANGED <<command, now, events, at, expiry, cell>>
  PROVE  flight' \in [Workers -> Requests] /\ \A v \in Workers : Sound(v)'
<1>1. now \in Nat /\ expiry \in Nat /\ TTL \in Nat /\ MaxTurns \in Nat /\ flight \in [Workers -> Requests]
  BY DEF IInv, TypeOK, Standing, BaselineAssumption, Never
<1>2. Qualified => Head(events) \in Nat /\ expiry <= Head(events) + TTL
  BY DEF IInv, Deadline
<1>3. /\ Bound(task) \in Nat /\ Bound(task) <= task
      /\ Qualified => Bound(task) <= Head(events) + TTL
  BY <1>1, <1>2 DEF Bound, Lowest
<1>4. CASE now < Bound(task)
  <2> DEFINE asked == [turn |-> turn, task |-> task, sent |-> now, by |-> Bound(task)]
  <2>1. asked \in Requests  BY <1>1, <1>3 DEF Requests
  <2>2. flight' = [flight EXCEPT ![w] = asked]  BY <1>4 DEF Ask
  <2>3. flight' \in [Workers -> Requests]  BY <2>1, <2>2, <1>1
  <2>4. \A v \in Workers : Sound(v)'
    <3> SUFFICES ASSUME NEW v \in Workers, Busy(v)' PROVE Sound(v)'  BY DEF Sound
    <3>1. CASE v = w
      <4>1. flight'[v] = asked  BY <2>2, <3>1, <1>1
      <4>2. /\ asked.turn = turn /\ asked.task = task
            /\ asked.sent = now /\ asked.by = Bound(task)  OBVIOUS
      <4>3. Qualified => now < Head(events) + TTL  BY <1>1, <1>2, <1>3, <1>4
      <4> HIDE DEF asked
      <4> QED  BY <4>1, <4>2, <4>3, <3>1, <1>3, <1>4 DEF Sound, Concurrency, Qualified
    <3>2. CASE v # w
      <4>1. flight'[v] = flight[v]  BY <2>2, <3>2, <1>1
      <4> QED  BY <4>1 DEF Sound, Busy, IInv, TypeOK, RequestsInSession, Concurrency, Qualified
    <3> QED  BY <3>1, <3>2
  <2> QED  BY <2>3, <2>4
<1>5. CASE ~(now < Bound(task))
  <2>1. flight' = [flight EXCEPT ![w] = Free]  BY <1>5 DEF Ask
  <2>2. flight' \in [Workers -> Requests]  BY <2>1, <1>1 DEF Free, Requests
  <2>3. ASSUME NEW v \in Workers, Busy(v)' PROVE Sound(v)'
    <3>1. v # w /\ flight'[v] = flight[v]  BY <2>1, <2>3, <1>1 DEF Busy
    <3> QED  BY <3>1 DEF Sound, Busy, IInv, TypeOK, RequestsInSession, Concurrency, Qualified
  <2> QED  BY <2>2, <2>3 DEF Sound
<1> QED  BY <1>4, <1>5

(* A step inside a pass keeps IInv if the requests it leaves are sound.    *)
LEMMA WithinPass ==
  ASSUME BaselineAssumption, IInv, at = "pass",
         UNCHANGED <<command, now, events, at, expiry, wall, begun, cell, pass, persisted, log>>,
         todo' \in 0..PassTasks,
         flight' \in [Workers -> Requests], \A v \in Workers : Sound(v)'
  PROVE  IInv'
<1>1. Passes' = Passes /\ PassTasks' = PassTasks  BY DEF Passes, PassTasks
<1>2. DOMAIN flight' = Workers  OBVIOUS
<1>3. TypeOK'  BY <1>1, <1>2 DEF IInv, TypeOK, Sound
<1>4. Standing'  BY <1>1 DEF IInv, Standing, Qualified
<1>5. Deadline'  BY DEF IInv, Deadline, Qualified
<1>6. RequestsInSession'  BY DEF RequestsInSession, Sound
<1>7. MatrixFitsSession'
  BY DEF IInv, MatrixFitsSession, Qualified, Fits, Highest, Timestamp
<1>8. Counted'  BY DEF IInv, Counted, Ended
<1> QED  BY <1>3, <1>4, <1>5, <1>6, <1>7, <1>8 DEF IInv

LEMMA TakeTaskStep ==
  ASSUME BaselineAssumption, IInv, NEW w \in Workers, TakeTask(w) PROVE IInv'
<1>1. /\ 1 \in 1..MaxTurns /\ now + TaskTimeout \in Nat /\ at = "pass" /\ w <= Concurrency
      /\ PassTasks \in Nat
  BY DEF TakeTask, BaselineAssumption, IInv, TypeOK, PassTasks
<1>2. flight' \in [Workers -> Requests] /\ \A v \in Workers : Sound(v)'
  BY <1>1, AskSound DEF TakeTask
<1>3. todo' \in 0..PassTasks  BY <1>1 DEF TakeTask, IInv, TypeOK
<1> QED  BY <1>1, <1>2, <1>3, WithinPass DEF TakeTask

LEMMA AnswerStep ==
  ASSUME BaselineAssumption, IInv, NEW w \in Workers, Answer(w) PROVE IInv'
<1>1. /\ at = "pass" /\ w <= Concurrency /\ PassTasks \in Nat /\ todo' \in 0..PassTasks
      /\ flight \in [Workers -> Requests] /\ flight[w].turn \in 1..MaxTurns
  BY DEF Answer, IInv, TypeOK, Standing, PassTasks, BaselineAssumption
<1>2. flight' \in [Workers -> Requests] /\ \A v \in Workers : Sound(v)'
  <2>1. CASE flight' = [flight EXCEPT ![w] = Free]
    <3>1. flight' \in [Workers -> Requests]  BY <2>1, <1>1 DEF Free, Requests
    <3>2. ASSUME NEW v \in Workers, Busy(v)' PROVE Sound(v)'
      <4>1. v # w /\ flight'[v] = flight[v]  BY <2>1, <3>2, <1>1 DEF Busy
      <4> QED  BY <4>1 DEF Sound, Busy, IInv, TypeOK, RequestsInSession, Concurrency, Qualified, Answer
    <3> QED  BY <3>1, <3>2 DEF Sound
  <2>2. CASE flight[w].turn < MaxTurns /\ Ask(w, flight[w].turn + 1, flight[w].task)
    <3>1. flight[w].turn + 1 \in 1..MaxTurns /\ flight[w].task \in Nat
      BY <1>1, <2>2 DEF Requests, BaselineAssumption
    <3> QED  BY <3>1, <2>2, <1>1, AskSound DEF Answer
  <2> QED  BY <2>1, <2>2 DEF Answer
<1> QED  BY <1>1, <1>2, WithinPass DEF Answer

LEMMA EndPassStep == ASSUME BaselineAssumption, IInv, EndPass PROVE IInv'
<1>0. Len(Matrix) \in Nat \ {0} /\ Cells = 1..Len(Matrix)  BY MatrixNotEmpty
<1>1. \A w \in Workers : (Busy(w)' <=> Busy(w)) /\ ~Busy(w)
  BY DEF EndPass, PassDone, Busy
<1>2. /\ Passes \in Nat \ {0} /\ PassTasks \in Nat /\ Passes' \in Nat \ {0} /\ PassTasks' \in Nat
      /\ at = "pass" /\ todo = 0 /\ pass \in Nat /\ pass < Passes /\ cell \in 0..Len(Matrix)
      /\ now \in 0..MaxTime /\ now \in Nat /\ begun \in Nat /\ begun <= now
      /\ (Qualified' <=> Qualified)
  BY DEF Passes, PassTasks, BaselineAssumption, EndPass, PassDone, IInv, TypeOK, Standing, Qualified
<1>3. persisted' \in [Cells -> 0..Repetitions]
  <2>1. persisted \in [Cells -> 0..Repetitions]  BY DEF IInv, TypeOK
  <2>2. CASE Measured
    <3>1. cell \in Cells /\ cell > 0 /\ pass >= WarmupPasses
      BY <2>2, <1>0, <1>2 DEF Measured
    <3>2. Passes = WarmupPasses + Repetitions  BY <3>1 DEF Passes
    <3>3. persisted[cell] = IF pass > WarmupPasses THEN pass - WarmupPasses ELSE 0
      BY <3>1, <1>0, <1>2 DEF IInv, Counted, Ended
    <3>4. persisted[cell] + 1 \in 0..Repetitions
      BY <3>1, <3>2, <3>3, <1>2 DEF BaselineAssumption
    <3> QED  BY <2>1, <2>2, <3>4 DEF EndPass
  <2>3. CASE ~Measured  BY <2>1, <2>3 DEF EndPass
  <2> QED  BY <2>2, <2>3
<1>4. /\ at' \in {"pass", "cell", "project", "completed"}
      /\ cell' \in 0..Len(Matrix) /\ pass' \in 0..Passes' /\ pass' < Passes'
      /\ todo' \in 0..PassTasks' /\ wall' \in Nat
      /\ log' \in SUBSET {"started", "completed", "marker"}
      /\ at' # "pass" => todo' = 0
      /\ at' = "project" => cell' = 0
      /\ at' = "pass" => cell' = cell
      /\ at' = "cell" => pass' = 0
      /\ at' = "cell" => cell' > 0
      /\ cell > 0 => wall' = wall
      /\ cell' > 0 => cell > 0
  <2>1. CASE ~LastPass
    <3>1. /\ pass' = pass + 1 /\ todo' = PassTasks /\ UNCHANGED <<at, wall, cell, log>>
      BY <2>1 DEF EndPass
    <3>2. Passes' = Passes /\ PassTasks' = PassTasks  BY <3>1 DEF Passes, PassTasks
    <3>3. pass + 1 < Passes  BY <2>1, <1>2 DEF LastPass
    <3> QED  BY <3>1, <3>2, <3>3, <1>2 DEF IInv, TypeOK
  <2>2. CASE LastPass
    <3>1. /\ pass' = 0 /\ todo' = 0
          /\ IF cell = 0
             THEN at' = "project" /\ wall' = now - begun /\ UNCHANGED <<cell, log>>
             ELSE IF cell < Len(Matrix)
             THEN at' = "cell" /\ cell' = cell + 1 /\ UNCHANGED <<wall, log>>
             ELSE /\ at' = "completed" /\ log' = log \cup {"completed"}
                  /\ UNCHANGED <<wall, cell>>
      BY <2>2, <1>2 DEF EndPass
    <3>2. wall \in Nat /\ log \in SUBSET {"started", "completed", "marker"}
      BY DEF IInv, TypeOK
    <3>3. pass' \in 0..Passes' /\ pass' < Passes' /\ todo' \in 0..PassTasks'
      BY <3>1, <1>2
    <3>4. CASE cell = 0
      <4>1. now - begun \in Nat  BY <1>2
      <4>2. at' = "project" /\ wall' = now - begun /\ cell' = 0 /\ log' = log
        BY <3>1, <3>4
      <4>3. 0 \in 0..Len(Matrix)  BY <1>0
      <4> QED  BY <3>1, <3>2, <3>3, <3>4, <4>1, <4>2, <4>3
    <3>5. CASE cell # 0 /\ cell < Len(Matrix)
      <4>1. at' = "cell" /\ wall' = wall /\ cell' = cell + 1 /\ log' = log
        BY <3>1, <3>5
      <4>2. cell + 1 \in 0..Len(Matrix) /\ cell + 1 > 0 /\ cell > 0
        BY <3>5, <1>0, <1>2
      <4> QED  BY <3>1, <3>2, <3>3, <4>1, <4>2
    <3>6. CASE cell # 0 /\ ~(cell < Len(Matrix))
      <4>1. log' \in SUBSET {"started", "completed", "marker"}  BY <3>1, <3>2, <3>6
      <4> QED  BY <3>1, <3>2, <3>3, <3>6, <4>1, <1>0, <1>2
    <3> QED  BY <3>4, <3>5, <3>6
  <2> QED  BY <2>1, <2>2
<1>5. TypeOK'  BY <1>1, <1>2, <1>3, <1>4 DEF IInv, TypeOK, EndPass
<1>6. Standing'
  <2>1. Qualified => cell > 0 /\ cell' > 0
    BY <1>2, <1>4 DEF IInv, Standing, EndPass
  <2> QED  BY <2>1, <1>2, <1>4, SMTT(30) DEF IInv, Standing, EndPass
<1>7. Deadline'
  BY <1>2, <1>4 DEF IInv, Deadline, EndPass
<1>10. Counted'
  <2>1. SUFFICES ASSUME ~Ended', NEW c \in Cells, c >= cell'
                 PROVE  persisted'[c] = IF c = cell' /\ pass' > WarmupPasses
                                        THEN pass' - WarmupPasses ELSE 0
    BY DEF Counted, Cells
  <2>2. cell' >= cell /\ c \in Nat /\ c >= cell /\ persisted \in [Cells -> 0..Repetitions]
        /\ WarmupPasses \in Nat
    BY <2>1, <1>0, <1>2, SMTT(30) DEF EndPass, IInv, TypeOK, BaselineAssumption
  <2>3. persisted[c] = IF c = cell /\ pass > WarmupPasses THEN pass - WarmupPasses ELSE 0
    BY <2>2, <1>2 DEF IInv, Counted, Ended
  <2>4. CASE ~LastPass
    <3>1. pass' = pass + 1 /\ cell' = cell  BY <2>4 DEF EndPass
    <3>2. CASE c = cell /\ Measured
      <4>1. persisted'[c] = persisted[c] + 1  BY <2>2, <3>2 DEF EndPass
      <4> QED  BY <4>1, <3>1, <3>2, <2>2, <2>3, <1>2 DEF Measured
    <3>3. CASE ~(c = cell /\ Measured)
      <4>1. persisted'[c] = persisted[c]  BY <2>2, <3>3 DEF EndPass
      <4>2. c = cell => cell > 0  BY <1>0, <1>2
      <4> QED  BY <4>1, <4>2, <3>1, <3>3, <2>2, <2>3, <1>2 DEF Measured
    <3> QED  BY <3>2, <3>3
  <2>5. CASE LastPass
    <3>1. pass' = 0 /\ (cell = 0 \/ cell' = cell + 1)
      BY <2>1, <2>5, <1>2 DEF EndPass, Ended
    <3>2. CASE cell = 0
      <4>1. persisted' = persisted /\ c # cell  BY <3>2, <1>0 DEF EndPass, Measured
      <4> QED  BY <4>1, <3>1, <2>2, <2>3
    <3>3. CASE cell' = cell + 1
      <4>1. c # cell  BY <3>3, <2>1, <2>2, <1>2
      <4>2. persisted'[c] = persisted[c]  BY <4>1, <2>2 DEF EndPass
      <4> QED  BY <4>1, <4>2, <3>1, <2>2, <2>3
    <3> QED  BY <3>1, <3>2, <3>3
  <2> QED  BY <2>4, <2>5
<1>8. RequestsInSession'  BY <1>1 DEF RequestsInSession
<1>9. MatrixFitsSession'
  <2>1. UNCHANGED <<command, events, begun>>  BY DEF EndPass
  <2> QED  BY <2>1, <1>4, <1>2 DEF IInv, MatrixFitsSession, Qualified, Fits, Highest, Timestamp
<1> QED  BY <1>5, <1>6, <1>7, <1>8, <1>9, <1>10 DEF IInv

LEMMA TickStep == ASSUME BaselineAssumption, IInv, Tick PROVE IInv'
<1>1. \A w \in Workers : Busy(w)' <=> Busy(w)  BY DEF Tick, Busy
<1>2. /\ Passes' = Passes /\ PassTasks' = PassTasks /\ Concurrency' = Concurrency
      /\ (Qualified' <=> Qualified) /\ now \in Nat /\ now' = now + 1 /\ now' <= MaxTime
      /\ expiry \in Nat /\ begun \in Nat /\ MaxTime \in Nat
  BY DEF Tick, Passes, PassTasks, Concurrency, Qualified, IInv, TypeOK, BaselineAssumption, Never
<1>3. TypeOK'  BY <1>1, <1>2 DEF IInv, TypeOK, Tick
<1>4. Standing'  BY <1>2 DEF IInv, Standing, Tick
<1>5. Deadline'  BY <1>2 DEF IInv, Deadline, Tick
<1>6. RequestsInSession'  BY <1>1, <1>2 DEF IInv, RequestsInSession, Tick
<1>7. MatrixFitsSession'
  BY DEF IInv, Tick, MatrixFitsSession, Qualified, Fits, Highest, Timestamp
<1>8. Counted'  BY DEF IInv, Counted, Ended, Tick
<1> QED  BY <1>3, <1>4, <1>5, <1>6, <1>7, <1>8 DEF IInv

-----------------------------------------------------------------------------

LEMMA NextStep == ASSUME BaselineAssumption, IInv, [Next]_vars PROVE IInv'
<1>1. CASE Tick  BY <1>1, TickStep
<1>2. CASE Admit  BY <1>2, AdmitStep
<1>3. CASE Refused  BY <1>3, RefusedStep
<1>4. CASE Project  BY <1>4, ProjectStep
<1>5. CASE CanaryProject  BY <1>5, CanaryStep
<1>6. CASE BeginCell  BY <1>6, BeginCellStep
<1>7. CASE Abort  BY <1>7, AbortStep
<1>8. CASE EndPass  BY <1>8, EndPassStep
<1>9. CASE \E w \in Workers : TakeTask(w) \/ Answer(w)
  BY <1>9, TakeTaskStep, AnswerStep
<1>10. CASE UNCHANGED vars
  <2>1. \A w \in Workers : Busy(w)' <=> Busy(w)  BY <1>10 DEF vars, Busy
  <2>2. Passes' = Passes /\ PassTasks' = PassTasks /\ Concurrency' = Concurrency
        /\ (Qualified' <=> Qualified)
    BY <1>10 DEF vars, Passes, PassTasks, Concurrency, Qualified
  <2>3. TypeOK'  BY <1>10, <2>1, <2>2 DEF vars, IInv, TypeOK
  <2>4. Standing' /\ Counted'  BY <1>10, <2>2 DEF vars, IInv, Standing, Counted, Ended
  <2>5. Deadline' /\ RequestsInSession'
    BY <1>10, <2>1, <2>2 DEF vars, IInv, Deadline, RequestsInSession
  <2>6. MatrixFitsSession'
    BY <1>10 DEF vars, IInv, MatrixFitsSession, Qualified, Fits, Highest, Timestamp
  <2> QED  BY <2>3, <2>4, <2>5, <2>6 DEF IInv
<1> QED
  BY <1>1, <1>2, <1>3, <1>4, <1>5, <1>6, <1>7, <1>8, <1>9, <1>10 DEF Next, Working

LEMMA Inductive == Spec => []IInv
<1>1. Init => IInv  BY FirstStep, BaselineAssumption
<1>2. IInv /\ [Next]_vars => IInv'  BY NextStep, BaselineAssumption
<1> QED  BY <1>1, <1>2, PTL DEF Spec

-----------------------------------------------------------------------------

(* Every state is well formed; in particular no cell persists more         *)
(* repetitions than were asked for, and every request under way belongs to *)
(* a pass and is within the deadline of its task.                          *)
THEOREM TypeCorrect == Spec => []TypeOK
<1>1. IInv => TypeOK  BY DEF IInv
<1> QED  BY <1>1, Inductive, PTL

(* SessionBudgetClient holds every request of qualified-baseline inside    *)
(* the six hours after the one provisioned event, for every matrix, task   *)
(* timeout and session record.                                             *)
THEOREM QualifiedRequestsInSession == Spec => []RequestsInSession
<1>1. IInv => RequestsInSession  BY DEF IInv
<1> QED  BY <1>1, Inductive, PTL

(* Both commands begin their matrix only when its projection fits what is  *)
(* left of the session then.                                               *)
THEOREM BegunMatrixFits == Spec => []MatrixFitsSession
<1>1. IInv => MatrixFitsSession  BY DEF IInv
<1> QED  BY <1>1, Inductive, PTL

(* A command that is not over has persisted, of the cell it stands at,     *)
(* exactly the measured passes it has done, and nothing of a later cell:   *)
(* run_real_mvl_baseline and its qualified twin persist each repetition    *)
(* once, before the next, and no warm-up.                                  *)
THEOREM PersistedAsMeasured == Spec => []Counted
<1>1. IInv => Counted  BY DEF IInv
<1> QED  BY <1>1, Inductive, PTL
=============================================================================
