--------------------------- MODULE GradingProofs ---------------------------
(***************************************************************************)
(* Proofs about Grading: the counts of a stage agree with each other       *)
(* whatever its outcomes, a verdict was earned on the whole schedule, and  *)
(* a stage that met its thresholds is stopped nowhere on the way.          *)
(***************************************************************************)
EXTENDS Grading, NaturalsInduction, WellFoundedInduction, TLAPS

-----------------------------------------------------------------------------
(* Induction, said of a set of numbers. *)

LEMMA Induction ==
  ASSUME NEW S, 0 \in S, \A n \in Nat : n \in S => n + 1 \in S
  PROVE  Nat \subseteq S
<1> DEFINE Missing == {n \in Nat : n \notin S}
           Less == {p \in Nat \X Nat : p[1] < p[2]}
<1>1. IsWellFoundedOn(Less, Nat)
  BY NatLessThanWellFounded DEF OpToRel
<1>2. SUFFICES ASSUME Missing # {} PROVE FALSE
  OBVIOUS
<1>3. Missing \subseteq Nat
  OBVIOUS
<1> HIDE DEF Less, Missing
<1>4. PICK x \in Missing : \A y \in Missing : ~(<<y, x>> \in Less)
  BY <1>1, <1>2, <1>3, WFMin
<1>5. x \in Nat /\ x \notin S
  BY <1>4 DEF Missing
<1>6. x - 1 \in Nat /\ x - 1 \notin S
  <2>1. x # 0
    BY <1>5
  <2> QED BY <1>5, <2>1
<1>7. x - 1 \in Missing /\ <<x - 1, x>> \in Less
  BY <1>5, <1>6 DEF Missing, Less
<1> QED BY <1>4, <1>7

-----------------------------------------------------------------------------
(* Sums. *)

LEMMA SumsDef ==
  ASSUME NEW f
  PROVE  NatInductiveDefConclusion(Sums(f), 0, LAMBDA v, k : v + f[k])
<1>1. NatInductiveDefHypothesis(Sums(f), 0, LAMBDA v, k : v + f[k])
  BY DEF NatInductiveDefHypothesis, Sums
<1> QED BY <1>1, NatInductiveDef

LEMMA SumStep ==
  ASSUME NEW f
  PROVE  /\ SumTo(f, 0) = 0
         /\ \A n \in Nat : SumTo(f, n + 1) = SumTo(f, n) + f[n + 1]
<1>1. \A n \in Nat : SumTo(f, n) = IF n = 0 THEN 0 ELSE SumTo(f, n - 1) + f[n]
  BY SumsDef DEF NatInductiveDefConclusion, SumTo
<1> QED BY <1>1

(* Sums of counts are counts, and what is smaller term by term has the     *)
(* smaller sum.                                                            *)
LEMMA SumMonotone ==
  ASSUME NEW n \in Nat, NEW f, NEW g,
         \A i \in 1..n : f[i] \in Nat /\ g[i] \in Nat /\ f[i] <= g[i]
  PROVE  SumTo(f, n) \in Nat /\ SumTo(g, n) \in Nat /\ SumTo(f, n) <= SumTo(g, n)
<1> DEFINE S == {k \in Nat : k <= n =>
                   /\ SumTo(f, k) \in Nat /\ SumTo(g, k) \in Nat
                   /\ SumTo(f, k) <= SumTo(g, k)}
<1>1. 0 \in S
  BY SumStep
<1>2. ASSUME NEW k \in Nat, k \in S PROVE k + 1 \in S
  <2>1. SUFFICES ASSUME k + 1 <= n
                 PROVE  /\ SumTo(f, k + 1) \in Nat /\ SumTo(g, k + 1) \in Nat
                        /\ SumTo(f, k + 1) <= SumTo(g, k + 1)
    OBVIOUS
  <2>2. k + 1 \in 1..n /\ k <= n
    BY <2>1
  <2>3. /\ SumTo(f, k) \in Nat /\ SumTo(g, k) \in Nat
        /\ SumTo(f, k) <= SumTo(g, k)
    BY <1>2, <2>2
  <2>4. /\ SumTo(f, k + 1) = SumTo(f, k) + f[k + 1]
        /\ SumTo(g, k + 1) = SumTo(g, k) + g[k + 1]
    BY SumStep
  <2> QED BY <2>2, <2>3, <2>4
<1> HIDE DEF S
<1>3. n \in S
  BY <1>1, <1>2, Induction
<1> QED BY <1>3 DEF S

(* The sum of two is the sum of the sums. *)
LEMMA SumAdd ==
  ASSUME NEW n \in Nat, NEW f, NEW g, NEW h,
         \A i \in 1..n : f[i] \in Nat /\ g[i] \in Nat /\ h[i] = f[i] + g[i]
  PROVE  SumTo(h, n) = SumTo(f, n) + SumTo(g, n)
<1> DEFINE S == {k \in Nat : k <= n =>
                   /\ SumTo(f, k) \in Nat /\ SumTo(g, k) \in Nat
                   /\ SumTo(h, k) = SumTo(f, k) + SumTo(g, k)}
<1>1. 0 \in S
  BY SumStep
<1>2. ASSUME NEW k \in Nat, k \in S PROVE k + 1 \in S
  <2>1. SUFFICES ASSUME k + 1 <= n
                 PROVE  /\ SumTo(f, k + 1) \in Nat /\ SumTo(g, k + 1) \in Nat
                        /\ SumTo(h, k + 1) = SumTo(f, k + 1) + SumTo(g, k + 1)
    OBVIOUS
  <2>2. k + 1 \in 1..n /\ k <= n
    BY <2>1
  <2>3. /\ SumTo(f, k) \in Nat /\ SumTo(g, k) \in Nat
        /\ SumTo(h, k) = SumTo(f, k) + SumTo(g, k)
    BY <1>2, <2>2
  <2>4. /\ SumTo(f, k + 1) = SumTo(f, k) + f[k + 1]
        /\ SumTo(g, k + 1) = SumTo(g, k) + g[k + 1]
        /\ SumTo(h, k + 1) = SumTo(h, k) + h[k + 1]
    BY SumStep
  <2>5. f[k + 1] \in Nat /\ g[k + 1] \in Nat /\ h[k + 1] = f[k + 1] + g[k + 1]
    BY <2>2
  <2> QED BY <2>3, <2>4, <2>5
<1> HIDE DEF S
<1>3. n \in S
  BY <1>1, <1>2, Induction
<1> QED BY <1>3 DEF S

(* A sum of differences telescopes. *)
LEMMA SumTelescope ==
  ASSUME NEW n \in Nat, NEW f, NEW g, g[0] \in Int,
         \A i \in 1..n : g[i] \in Int /\ f[i] = g[i] - g[i - 1]
  PROVE  SumTo(f, n) = g[n] - g[0]
<1> DEFINE S == {k \in Nat : k <= n => g[k] \in Int /\ SumTo(f, k) = g[k] - g[0]}
<1>1. 0 \in S
  BY SumStep
<1>2. ASSUME NEW k \in Nat, k \in S PROVE k + 1 \in S
  <2>1. SUFFICES ASSUME k + 1 <= n
                 PROVE  g[k + 1] \in Int /\ SumTo(f, k + 1) = g[k + 1] - g[0]
    OBVIOUS
  <2>2. k + 1 \in 1..n /\ k <= n /\ (k + 1) - 1 = k
    BY <2>1
  <2>3. g[k] \in Int /\ SumTo(f, k) = g[k] - g[0]
    BY <1>2, <2>2
  <2>4. SumTo(f, k + 1) = SumTo(f, k) + f[k + 1]
    BY SumStep
  <2>5. g[k + 1] \in Int /\ f[k + 1] = g[k + 1] - g[k]
    BY <2>2
  <2> QED BY <2>3, <2>4, <2>5
<1> HIDE DEF S
<1>3. n \in S
  BY <1>1, <1>2, Induction
<1> QED BY <1>3 DEF S

-----------------------------------------------------------------------------
(* The stage. *)

LEMMA StageFacts ==
  ASSUME stage \in Stages
  PROVE  /\ StageSpec[stage].templates \in {4, 6, 10} /\ Tasks \in {10, 20, 200}
         /\ stage \in {"development", "holdout", "freeze", "canary"}
         /\ stage = "development" =>
              Tasks = 20 /\ Floor = 40 /\ StudyEntry = FALSE
         /\ stage = "holdout" =>
              Tasks = 20 /\ Floor = 50 /\ StudyEntry = FALSE
         /\ stage = "freeze" =>
              /\ Tasks = 200 /\ Floor = 60 /\ StudyEntry = TRUE
              /\ StageSpec[stage].templates = 10
         /\ stage = "canary" =>
              Tasks = 10 /\ Floor = 40 /\ StudyEntry = FALSE
  BY GradingAssumption
     DEF GradingAssumption, StageSpec, Table, Tasks, Floor, StudyEntry

(* The positions of a template among the first n: none of none, and never  *)
(* fewer of more.                                                          *)
LEMMA UptoFacts ==
  ASSUME stage \in Stages, NEW t \in Templates
  PROVE  /\ Upto(t, 0) = 0
         /\ \A n \in Nat : Upto(t, n) \in Nat
         /\ \A n, m \in Nat : n <= m => Upto(t, n) <= Upto(t, m)
         /\ stage = "freeze" => Upto(t, 200) = 20
<1> DEFINE m == StageSpec[stage].templates
<1>1. m \in {4, 6, 10} /\ t \in 1..m
  BY StageFacts DEF Templates
<1>2. stage = "freeze" => m = 10
  BY StageFacts
<1>3. \A n \in Int : Upto(t, n) = (n + m - t) \div m
  BY DEF Upto
<1> HIDE DEF m
<1>4. CASE m = 4
  BY <1>1, <1>2, <1>3, <1>4
<1>5. CASE m = 6
  BY <1>1, <1>2, <1>3, <1>5
<1>6. CASE m = 10
  BY <1>1, <1>2, <1>3, <1>6
<1> QED BY <1>1, <1>4, <1>5, <1>6

-----------------------------------------------------------------------------
(* The rows. *)

(* The blocks follow each other without a gap, from the first position.    *)
Block == [kind : Outcomes, first : Nat, last : Nat]

BlocksOK ==
  /\ stage \in Stages
  /\ blocks \in Seq(Block)
  /\ \A i \in 1..Len(blocks) :
       /\ blocks[i].first = IF i = 1 THEN 1 ELSE blocks[i - 1].last + 1
       /\ blocks[i].first <= blocks[i].last
  /\ Recorded \in 0..Tasks

LEMMA BlockFacts ==
  ASSUME BlocksOK
  PROVE  /\ Len(blocks) \in Nat /\ DOMAIN blocks = 1..Len(blocks)
         /\ Recorded \in Nat
         /\ \A i \in 1..Len(blocks) :
              /\ blocks[i] \in Block /\ blocks[i].kind \in Outcomes
              /\ blocks[i].first \in Nat /\ blocks[i].last \in Nat
              /\ Size(blocks[i]) \in Nat /\ Size(blocks[i]) >= 1
<1>1. Len(blocks) \in Nat /\ DOMAIN blocks = 1..Len(blocks)
  BY DEF BlocksOK
<1>2. Tasks \in Nat
  <2>1. stage \in Stages
    BY DEF BlocksOK
  <2> QED BY <2>1, StageFacts
<1>3. ASSUME NEW i \in 1..Len(blocks)
      PROVE  /\ blocks[i] \in Block /\ blocks[i].kind \in Outcomes
             /\ blocks[i].first \in Nat /\ blocks[i].last \in Nat
             /\ blocks[i].first <= blocks[i].last
  <2>1. blocks[i] \in Block
    BY DEF BlocksOK
  <2>2. blocks[i].first <= blocks[i].last
    BY DEF BlocksOK
  <2> QED BY <2>1, <2>2 DEF Block
<1> QED BY <1>1, <1>2, <1>3 DEF BlocksOK, Size

(* Where the blocks before block i + 1 end. *)
End(i) == IF i = 0 THEN 0 ELSE blocks[i].last

LEMMA EndFacts ==
  ASSUME BlocksOK
  PROVE  /\ End(0) = 0 /\ End(Len(blocks)) = Recorded
         /\ \A i \in 0..Len(blocks) : End(i) \in Nat
         /\ \A i \in 1..Len(blocks) :
              /\ blocks[i].last = End(i) /\ blocks[i].first = End(i - 1) + 1
              /\ End(i - 1) <= End(i)
<1>1. Len(blocks) \in Nat
  BY BlockFacts
<1>2. End(Len(blocks)) = Recorded
  <2>1. CASE blocks = <<>>
    BY <2>1 DEF End, Recorded
  <2>2. CASE blocks # <<>>
    <3>1. Len(blocks) # 0
      BY <2>2 DEF BlocksOK
    <3> QED BY <2>2, <3>1 DEF End, Recorded
  <2> QED BY <2>1, <2>2
<1>3. \A i \in 0..Len(blocks) : End(i) \in Nat
  BY BlockFacts, <1>1 DEF End
<1>4. ASSUME NEW i \in 1..Len(blocks)
      PROVE  /\ blocks[i].last = End(i) /\ blocks[i].first = End(i - 1) + 1
             /\ End(i - 1) <= End(i)
  <2>1. /\ blocks[i].first = IF i = 1 THEN 1 ELSE blocks[i - 1].last + 1
        /\ blocks[i].first <= blocks[i].last
    BY DEF BlocksOK
  <2>2. blocks[i].last = End(i)
    BY DEF End
  <2>3. blocks[i].first = End(i - 1) + 1
    BY <2>1 DEF End
  <2>4. i - 1 \in 0..Len(blocks) /\ i \in 0..Len(blocks)
    BY <1>1
  <2> QED BY <1>3, <2>1, <2>2, <2>3, <2>4
<1> QED BY <1>2, <1>3, <1>4 DEF End

(* Counts are counts, and a wider class holds at least as many. *)
LEMMA RowsMonotone ==
  ASSUME BlocksOK, NEW J, NEW K, J \subseteq K
  PROVE  Rows(J) \in Nat /\ Rows(K) \in Nat /\ Rows(J) <= Rows(K)
<1> DEFINE n == Len(blocks)
           F(C) == [i \in DOMAIN blocks |->
                      IF blocks[i].kind \in C THEN Size(blocks[i]) ELSE 0]
<1>1. n \in Nat /\ DOMAIN blocks = 1..n /\ \A i \in 1..n : Size(blocks[i]) \in Nat
  BY BlockFacts
<1>2. \A i \in 1..n : F(J)[i] \in Nat /\ F(K)[i] \in Nat /\ F(J)[i] <= F(K)[i]
  BY <1>1
<1>3. Rows(J) = SumTo(F(J), n) /\ Rows(K) = SumTo(F(K), n)
  BY DEF Rows
<1> HIDE DEF n, F
<1>4. /\ SumTo(F(J), n) \in Nat /\ SumTo(F(K), n) \in Nat
      /\ SumTo(F(J), n) <= SumTo(F(K), n)
  BY <1>1, <1>2, SumMonotone, ZenonT(30)
<1> QED BY <1>3, <1>4

(* Two classes without a common outcome are counted apart. *)
LEMMA RowsUnion ==
  ASSUME BlocksOK, NEW J, NEW K, J \cap K = {}
  PROVE  Rows(J \cup K) = Rows(J) + Rows(K)
<1> DEFINE n == Len(blocks)
           F(C) == [i \in DOMAIN blocks |->
                      IF blocks[i].kind \in C THEN Size(blocks[i]) ELSE 0]
<1>1. n \in Nat /\ DOMAIN blocks = 1..n /\ \A i \in 1..n : Size(blocks[i]) \in Nat
  BY BlockFacts
<1>2. \A i \in 1..n : /\ F(J)[i] \in Nat /\ F(K)[i] \in Nat
                      /\ F(J \cup K)[i] = F(J)[i] + F(K)[i]
  BY <1>1
<1>3. /\ Rows(J) = SumTo(F(J), n) /\ Rows(K) = SumTo(F(K), n)
      /\ Rows(J \cup K) = SumTo(F(J \cup K), n)
  BY DEF Rows
<1> HIDE DEF n, F
<1>4. SumTo(F(J \cup K), n) = SumTo(F(J), n) + SumTo(F(K), n)
  BY <1>1, <1>2, SumAdd, ZenonT(30)
<1> QED BY <1>3, <1>4

(* The rows of all outcomes are the rows there are. *)
LEMMA RowsOfAll ==
  ASSUME BlocksOK
  PROVE  Rows(Outcomes) = Recorded
<1> DEFINE n == Len(blocks)
           f == [i \in DOMAIN blocks |->
                   IF blocks[i].kind \in Outcomes THEN Size(blocks[i]) ELSE 0]
           g == [i \in 0..n |-> End(i)]
<1>1. n \in Nat /\ DOMAIN blocks = 1..n
  BY BlockFacts
<1>2. /\ g[0] = 0 /\ g[n] = Recorded /\ g[0] \in Int
  BY EndFacts, <1>1
<1>3. \A i \in 1..n : g[i] \in Int /\ f[i] = g[i] - g[i - 1]
  <2> TAKE i \in 1..n
  <2>1. f[i] = Size(blocks[i])
    BY BlockFacts, <1>1
  <2>2. /\ blocks[i].last = End(i) /\ blocks[i].first = End(i - 1) + 1
        /\ End(i) \in Nat /\ End(i - 1) \in Nat
        /\ i \in 0..n /\ i - 1 \in 0..n
    BY EndFacts, <1>1
  <2>3. Size(blocks[i]) = End(i) - End(i - 1)
    BY <2>2 DEF Size
  <2> QED BY <2>1, <2>2, <2>3
<1>4. Rows(Outcomes) = SumTo(f, n)
  BY DEF Rows
<1>5. Recorded \in Nat
  BY BlockFacts
<1> HIDE DEF n, f, g
<1>6. SumTo(f, n) = g[n] - g[0]
  <2>1. n \in Nat /\ g[0] \in Int
    BY <1>1, <1>2
  <2> QED BY <1>3, <2>1, SumTelescope, SMTT(30)
<1> QED BY <1>2, <1>4, <1>5, <1>6

(* The rows of one template.  *)
LEMMA ShareFacts ==
  ASSUME BlocksOK, NEW t \in Templates
  PROVE  \A i \in 1..Len(blocks) :
           /\ Share(blocks[i], t) \in Nat
           /\ Share(blocks[i], t) = Upto(t, End(i)) - Upto(t, End(i - 1))
           /\ Upto(t, End(i)) \in Nat /\ Upto(t, End(i - 1)) \in Nat
<1> TAKE i \in 1..Len(blocks)
<1>1. /\ blocks[i].last = End(i) /\ blocks[i].first - 1 = End(i - 1)
      /\ End(i) \in Nat /\ End(i - 1) \in Nat /\ End(i - 1) <= End(i)
  <2>1. i \in 0..Len(blocks) /\ i - 1 \in 0..Len(blocks)
    BY BlockFacts
  <2>2. End(i) \in Nat /\ End(i - 1) \in Nat
    BY <2>1, EndFacts
  <2>3. /\ blocks[i].last = End(i) /\ blocks[i].first = End(i - 1) + 1
        /\ End(i - 1) <= End(i)
    BY EndFacts
  <2> QED BY <2>2, <2>3
<1>2. stage \in Stages
  BY DEF BlocksOK
<1>3. /\ Upto(t, End(i)) \in Nat /\ Upto(t, End(i - 1)) \in Nat
      /\ Upto(t, End(i - 1)) <= Upto(t, End(i))
  BY <1>1, <1>2, UptoFacts
<1>4. Share(blocks[i], t) = Upto(t, End(i)) - Upto(t, End(i - 1))
  BY <1>1 DEF Share
<1> QED BY <1>3, <1>4

LEMMA RowsOfMonotone ==
  ASSUME BlocksOK, NEW t \in Templates, NEW J, NEW K, J \subseteq K
  PROVE  /\ RowsOf(t, J) \in Nat /\ RowsOf(t, K) \in Nat
         /\ RowsOf(t, J) <= RowsOf(t, K)
<1> DEFINE n == Len(blocks)
           F(C) == [i \in DOMAIN blocks |->
                      IF blocks[i].kind \in C THEN Share(blocks[i], t) ELSE 0]
<1>1. n \in Nat /\ DOMAIN blocks = 1..n
  BY BlockFacts
<1>2. \A i \in 1..n : Share(blocks[i], t) \in Nat
  BY ShareFacts
<1>3. \A i \in 1..n : F(J)[i] \in Nat /\ F(K)[i] \in Nat /\ F(J)[i] <= F(K)[i]
  BY <1>1, <1>2
<1>4. RowsOf(t, J) = SumTo(F(J), n) /\ RowsOf(t, K) = SumTo(F(K), n)
  BY DEF RowsOf
<1> HIDE DEF n, F
<1>5. /\ SumTo(F(J), n) \in Nat /\ SumTo(F(K), n) \in Nat
      /\ SumTo(F(J), n) <= SumTo(F(K), n)
  BY <1>1, <1>3, SumMonotone, ZenonT(30)
<1> QED BY <1>4, <1>5

(* The attempts at a template are its positions in the schedule so far.    *)
LEMMA AttemptsAreScheduled ==
  ASSUME BlocksOK, NEW t \in Templates
  PROVE  AttemptsOf(t) = Upto(t, Recorded)
<1> DEFINE n == Len(blocks)
           f == [i \in DOMAIN blocks |->
                   IF blocks[i].kind \in Outcomes THEN Share(blocks[i], t) ELSE 0]
           g == [i \in 0..n |-> Upto(t, End(i))]
<1>1. n \in Nat /\ DOMAIN blocks = 1..n /\ stage \in Stages
  BY BlockFacts DEF BlocksOK
<1>2. /\ g[0] = 0 /\ g[0] \in Int
      /\ g[n] = Upto(t, Recorded) /\ Upto(t, Recorded) \in Nat
  <2>1. End(0) = 0 /\ End(n) = Recorded /\ Recorded \in Nat
    BY EndFacts, BlockFacts
  <2>2. Upto(t, 0) = 0 /\ Upto(t, Recorded) \in Nat
    BY <1>1, <2>1, UptoFacts
  <2> QED BY <1>1, <2>1, <2>2
<1>3. \A i \in 1..n : g[i] \in Int /\ f[i] = g[i] - g[i - 1]
  <2> TAKE i \in 1..n
  <2>1. i \in 0..n /\ i - 1 \in 0..n
    BY <1>1
  <2>2. f[i] = Share(blocks[i], t)
    BY BlockFacts, <1>1
  <2>3. /\ Share(blocks[i], t) = Upto(t, End(i)) - Upto(t, End(i - 1))
        /\ Upto(t, End(i)) \in Nat
    BY ShareFacts
  <2> QED BY <2>1, <2>2, <2>3
<1>4. AttemptsOf(t) = SumTo(f, n)
  BY DEF AttemptsOf, RowsOf
<1> HIDE DEF n, f, g
<1>5. SumTo(f, n) = g[n] - g[0]
  <2>1. n \in Nat /\ g[0] \in Int
    BY <1>1, <1>2
  <2> QED BY <1>3, <2>1, SumTelescope, SMTT(30)
<1> QED BY <1>2, <1>4, <1>5

-----------------------------------------------------------------------------
(* The counts of the result document. *)

(* What attained its objectives passed.                                    *)
LEMMA AttainingPasses ==
  ASSUME BlocksOK
  PROVE  /\ Passes \in Nat /\ Attaining \in Nat /\ Attaining <= Passes
         /\ \A t \in Templates : PassesOf(t) \in Nat
<1> DEFINE m == StageSpec[stage].templates
           a == [t \in Templates |-> RowsOf(t, WithinSlo(t))]
           p == [t \in Templates |-> PassesOf(t)]
<1>1. m \in Nat /\ Templates = 1..m
  <2>1. stage \in Stages
    BY DEF BlocksOK
  <2> QED BY <2>1, StageFacts DEF Templates
<1>2. ASSUME NEW t \in Templates
      PROVE  /\ RowsOf(t, WithinSlo(t)) \in Nat /\ PassesOf(t) \in Nat
             /\ RowsOf(t, WithinSlo(t)) <= PassesOf(t)
  <2>1. WithinSlo(t) \subseteq Succeeding(t)
    BY DEF WithinSlo
  <2> QED BY <2>1, RowsOfMonotone DEF PassesOf
<1>3. \A t \in 1..m : a[t] \in Nat /\ p[t] \in Nat /\ a[t] <= p[t]
  BY <1>1, <1>2
<1>4. Attaining = SumTo(a, m) /\ Passes = SumTo(p, m)
  BY DEF Attaining, Passes, OverTemplates
<1> HIDE DEF m, a, p
<1>5. /\ SumTo(a, m) \in Nat /\ SumTo(p, m) \in Nat
      /\ SumTo(a, m) <= SumTo(p, m)
  BY <1>1, <1>3, SumMonotone, ZenonT(30)
<1> QED BY <1>2, <1>4, <1>5

(* Every row has one status. *)
LEMMA StatusesAddUp ==
  ASSUME BlocksOK
  PROVE  /\ Rows(Completed) + Rows(Errored) + Rows(TimedOut) = Recorded
         /\ Rows(Completed) \in Nat /\ Rows(Errored) \in Nat /\ Rows(TimedOut) \in Nat
<1>1. Rows(Completed) \in Nat /\ Rows(Errored) \in Nat /\ Rows(TimedOut) \in Nat
  BY RowsMonotone
<1>2. Outcomes = (Completed \cup Errored) \cup TimedOut
  BY GradingAssumption DEF GradingAssumption, Outcome, Completed, Errored, TimedOut
<1>3. Rows((Completed \cup Errored) \cup TimedOut)
        = Rows(Completed \cup Errored) + Rows(TimedOut)
  <2>1. (Completed \cup Errored) \cap TimedOut = {}
    BY DEF Completed, Errored, TimedOut
  <2> QED BY <2>1, RowsUnion
<1>4. Rows(Completed \cup Errored) = Rows(Completed) + Rows(Errored)
  <2>1. Completed \cap Errored = {}
    BY DEF Completed, Errored
  <2> QED BY <2>1, RowsUnion
<1>5. Rows(Outcomes) = Recorded
  BY RowsOfAll
<1> QED BY <1>1, <1>2, <1>3, <1>4, <1>5

LEMMA CategoriesAre ==
  /\ Categories =
       {"endpoint_error", "malformed_tool_call", "invalid_tool_name",
        "invalid_tool_arguments", "no_terminal_recommendation",
        "direct_evidence_required", "workflow_requirements_unmet", "task_timeout",
        "agent_runtime_error"}
  /\ Len(ERROR_TAXONOMY) = 9 /\ DOMAIN ERROR_TAXONOMY = 1..9
  BY DEF Categories, ERROR_TAXONOMY

(* The categories of the taxonomy hold the rows that did not complete.     *)
LEMMA CategoriesAddUp ==
  ASSUME BlocksOK
  PROVE  SumTo([i \in DOMAIN ERROR_TAXONOMY |-> Document.taxonomy[ERROR_TAXONOMY[i]]],
               Len(ERROR_TAXONOMY)) = Rows(Errored) + Rows(TimedOut)
<1> DEFINE f == [i \in DOMAIN ERROR_TAXONOMY |-> Document.taxonomy[ERROR_TAXONOMY[i]]]
           R(c) == Rows(InCategory(c))
<1>1. /\ f[1] = R("endpoint_error") /\ f[2] = R("malformed_tool_call")
      /\ f[3] = R("invalid_tool_name") /\ f[4] = R("invalid_tool_arguments")
      /\ f[5] = R("no_terminal_recommendation") /\ f[6] = R("direct_evidence_required")
      /\ f[7] = R("workflow_requirements_unmet") /\ f[8] = R("task_timeout")
      /\ f[9] = R("agent_runtime_error")
  <2>1. \A c \in Categories : Document.taxonomy[c] = R(c)
    BY DEF Document, Categorised
  <2>2. \A i \in 1..9 : f[i] = Document.taxonomy[ERROR_TAXONOMY[i]]
    BY CategoriesAre
  <2>3. \A i \in 1..9 : f[i] = R(ERROR_TAXONOMY[i])
    BY <2>1, <2>2, CategoriesAre DEF Categories
  <2> HIDE DEF f, R
  <2> QED BY <2>3 DEF ERROR_TAXONOMY
<1>2. /\ R("endpoint_error") \in Nat /\ R("malformed_tool_call") \in Nat
      /\ R("invalid_tool_name") \in Nat /\ R("invalid_tool_arguments") \in Nat
      /\ R("no_terminal_recommendation") \in Nat /\ R("direct_evidence_required") \in Nat
      /\ R("workflow_requirements_unmet") \in Nat /\ R("task_timeout") \in Nat
      /\ R("agent_runtime_error") \in Nat
  BY RowsMonotone
<1> DEFINE S(i) == SumTo(f, i)
<1>3. /\ S(0) = 0 /\ S(1) = S(0) + f[1] /\ S(2) = S(1) + f[2]
      /\ S(3) = S(2) + f[3] /\ S(4) = S(3) + f[4] /\ S(5) = S(4) + f[5]
      /\ S(6) = S(5) + f[6] /\ S(7) = S(6) + f[7] /\ S(8) = S(7) + f[8]
      /\ S(9) = S(8) + f[9]
  <2>1. S(0) = 0 /\ \A n \in Nat : S(n + 1) = S(n) + f[n + 1]
    BY SumStep
  <2> HIDE DEF S
  <2>2. /\ S(0 + 1) = S(0) + f[0 + 1] /\ S(1 + 1) = S(1) + f[1 + 1]
        /\ S(2 + 1) = S(2) + f[2 + 1] /\ S(3 + 1) = S(3) + f[3 + 1]
        /\ S(4 + 1) = S(4) + f[4 + 1] /\ S(5 + 1) = S(5) + f[5 + 1]
        /\ S(6 + 1) = S(6) + f[6 + 1] /\ S(7 + 1) = S(7) + f[7 + 1]
        /\ S(8 + 1) = S(8) + f[8 + 1]
    BY <2>1
  <2> QED BY <2>1, <2>2
<1> DEFINE C1 == InCategory("endpoint_error")
           C2 == C1 \cup InCategory("malformed_tool_call")
           C3 == C2 \cup InCategory("invalid_tool_name")
           C4 == C3 \cup InCategory("invalid_tool_arguments")
           C5 == C4 \cup InCategory("no_terminal_recommendation")
           C6 == C5 \cup InCategory("direct_evidence_required")
           C7 == C6 \cup InCategory("workflow_requirements_unmet")
           C8 == C7 \cup InCategory("task_timeout")
           C9 == C8 \cup InCategory("agent_runtime_error")
<1>4. /\ C1 \cap InCategory("malformed_tool_call") = {}
      /\ C2 \cap InCategory("invalid_tool_name") = {}
      /\ C3 \cap InCategory("invalid_tool_arguments") = {}
      /\ C4 \cap InCategory("no_terminal_recommendation") = {}
      /\ C5 \cap InCategory("direct_evidence_required") = {}
      /\ C6 \cap InCategory("workflow_requirements_unmet") = {}
      /\ C7 \cap InCategory("task_timeout") = {}
      /\ C8 \cap InCategory("agent_runtime_error") = {}
  BY DEF InCategory
<1>5. C9 = Errored \cup TimedOut /\ Errored \cap TimedOut = {}
  BY GradingAssumption, CategoriesAre
     DEF GradingAssumption, Outcome, InCategory, Errored, TimedOut
<1> HIDE DEF C1, C2, C3, C4, C5, C6, C7, C8, C9
<1>6. /\ Rows(C2) = Rows(C1) + R("malformed_tool_call")
      /\ Rows(C3) = Rows(C2) + R("invalid_tool_name")
      /\ Rows(C4) = Rows(C3) + R("invalid_tool_arguments")
      /\ Rows(C5) = Rows(C4) + R("no_terminal_recommendation")
      /\ Rows(C6) = Rows(C5) + R("direct_evidence_required")
      /\ Rows(C7) = Rows(C6) + R("workflow_requirements_unmet")
      /\ Rows(C8) = Rows(C7) + R("task_timeout")
      /\ Rows(C9) = Rows(C8) + R("agent_runtime_error")
  BY <1>4, RowsUnion DEF C2, C3, C4, C5, C6, C7, C8, C9
<1>7. Rows(C1) = R("endpoint_error")
  BY DEF C1
<1>8. Rows(C9) = Rows(Errored) + Rows(TimedOut)
  BY <1>5, RowsUnion
<1>9. S(9) = Rows(Errored) + Rows(TimedOut)
  <2> HIDE DEF S, f, R
  <2> QED BY <1>1, <1>2, <1>3, <1>6, <1>7, <1>8
<1> QED BY <1>9, CategoriesAre

-----------------------------------------------------------------------------
(* The invariant. *)

(* What is judged is the whole schedule. *)
PassInv ==
  /\ at \in {"measuring", "lost", "observed", "stored", "failed", "stopped", "judged"}
  /\ at \notin {"measuring", "lost"} => Recorded = Tasks

(* A result is the document of the rows, and was accepted; a failure was   *)
(* not.                                                                    *)
ResultInv ==
  /\ IF at \in {"stored", "stopped", "judged"}
     THEN result = Document /\ Measurable /\ Accepted(Document)
     ELSE result = None
  /\ at = "failed" => ~(Measurable /\ Accepted(Document))

(* A receipt holds the gates of complete rows. *)
ReceiptInv ==
  /\ IF at = "judged" THEN Complete /\ receipt = Gates ELSE receipt = None
  /\ at = "stopped" => ~(Complete /\ ValidCalls + InvalidCalls >= 1)

(* A replay is refused only where the receipt was negative. *)
ReplayInv ==
  /\ replay \in {"none", "accepted", "refused"}
  /\ replay # "none" => at = "judged"
  /\ replay = "refused" => ~receipt.continue

IInv ==
  /\ BlocksOK /\ catalog \in Catalog
  /\ PassInv /\ ResultInv /\ ReceiptInv /\ ReplayInv

-----------------------------------------------------------------------------
(* The invariant holds. *)

LEMMA Start == Init => IInv
<1> SUFFICES ASSUME Init PROVE IInv
  OBVIOUS
<1>1. BlocksOK
  <2>1. /\ stage \in Stages /\ blocks = <<>>
    BY DEF Init
  <2>2. Recorded = 0 /\ Tasks \in Nat
    BY <2>1, StageFacts DEF Recorded
  <2> QED BY <2>1, <2>2 DEF BlocksOK
<1> QED BY <1>1 DEF Init, IInv, PassInv, ResultInv, ReceiptInv, ReplayInv

(* The blocks stay in place as the schedule is worked through. *)
LEMMA RecordKeepsBlocks ==
  ASSUME BlocksOK, Record
  PROVE  BlocksOK'
<1> DEFINE n == Len(blocks)
<1>1. PICK k \in Outcomes, c \in NextCuts :
        /\ c \in 1..Left
        /\ blocks' = Append(blocks, [kind |-> k, first |-> Recorded + 1, last |-> Recorded + c])
  BY DEF Record
<1> DEFINE b == [kind |-> k, first |-> Recorded + 1, last |-> Recorded + c]
<1>2. /\ stage' = stage /\ stage \in Stages /\ n \in Nat /\ Recorded \in Nat
      /\ Tasks \in Nat /\ Recorded <= Tasks
  <2>1. stage \in Stages
    BY DEF BlocksOK
  <2> QED BY <2>1, StageFacts, BlockFacts DEF Record, BlocksOK
<1>3. c \in Nat /\ 1 <= c /\ Recorded + c <= Tasks
  BY <1>1, <1>2 DEF Left
<1>4. b \in Block
  BY <1>2, <1>3 DEF Block
<1>5. blocks \in Seq(Block) /\ blocks' = Append(blocks, b)
  BY <1>1 DEF BlocksOK
<1> HIDE DEF b
<1>6. /\ blocks' \in Seq(Block) /\ Len(blocks') = n + 1
      /\ \A i \in 1..n : blocks'[i] = blocks[i]
      /\ blocks'[n + 1] = b
  BY <1>4, <1>5
<1>7. b.first = Recorded + 1 /\ b.last = Recorded + c
  BY DEF b
<1>8. Recorded = IF n = 0 THEN 0 ELSE blocks[n].last
  BY EndFacts DEF End
<1>9. ASSUME NEW i \in 1..(n + 1)
      PROVE  /\ blocks'[i].first = IF i = 1 THEN 1 ELSE blocks'[i - 1].last + 1
             /\ blocks'[i].first <= blocks'[i].last
  <2>1. CASE i = n + 1
    <3>1. i # 1 => i - 1 = n /\ n \in 1..n
      BY <2>1, <1>2
    <3>2. i # 1 => blocks'[i - 1].last = Recorded
      BY <3>1, <1>2, <1>6, <1>8
    <3>3. i = 1 => Recorded = 0
      BY <2>1, <1>2, <1>8
    <3> QED BY <2>1, <3>2, <3>3, <1>2, <1>3, <1>6, <1>7
  <2>2. CASE i \in 1..n
    <3>1. /\ blocks[i].first = IF i = 1 THEN 1 ELSE blocks[i - 1].last + 1
          /\ blocks[i].first <= blocks[i].last
      BY <2>2 DEF BlocksOK
    <3>2. i # 1 => i - 1 \in 1..n
      BY <2>2, <1>2
    <3> QED BY <2>2, <3>1, <3>2, <1>6
  <2> QED BY <2>1, <2>2, <1>2
<1>10. Recorded' = Recorded + c
  <2>1. blocks' # <<>>
    BY <1>2, <1>6
  <2>2. Recorded' = blocks'[Len(blocks')].last
    BY <2>1 DEF Recorded
  <2> QED BY <2>2, <1>6, <1>7
<1>11. Tasks' = Tasks
  BY <1>2 DEF Tasks
<1>12. Recorded' \in 0..Tasks'
  BY <1>2, <1>3, <1>10, <1>11
<1> QED BY <1>2, <1>6, <1>9, <1>12 DEF BlocksOK

(* What is said of the rows stays said while the rows stay. *)
LEMMA RowsStand ==
  ASSUME UNCHANGED <<stage, catalog, blocks>>
  PROVE  /\ Document' = Document /\ Gates' = Gates
         /\ BlocksOK' = BlocksOK /\ Recorded' = Recorded /\ Tasks' = Tasks
         /\ Measurable' = Measurable /\ Complete' = Complete
         /\ Accepted(Document)' = Accepted(Document)
         /\ ValidCalls' = ValidCalls /\ InvalidCalls' = InvalidCalls
<1>1. stage' = stage /\ catalog' = catalog /\ blocks' = blocks
  OBVIOUS
<1>2. /\ Recorded' = Recorded /\ Tasks' = Tasks /\ Templates' = Templates
      /\ Floor' = Floor /\ StudyEntry' = StudyEntry
  BY <1>1 DEF Recorded, Tasks, Templates, Floor, StudyEntry
<1>3. \A K : Rows(K)' = Rows(K)
  BY <1>1 DEF Rows
<1>4. \A t, K : RowsOf(t, K)' = RowsOf(t, K)
  BY <1>1 DEF RowsOf, Share, Upto
<1>5. ValidCalls' = ValidCalls /\ InvalidCalls' = InvalidCalls
  BY <1>1, <1>3 DEF ValidCalls, InvalidCalls
<1>6. \A t : PassesOf(t)' = PassesOf(t) /\ AttemptsOf(t)' = AttemptsOf(t)
  BY <1>4 DEF PassesOf, AttemptsOf
<1>7. Passes' = Passes /\ Attaining' = Attaining
  BY <1>1, <1>2, <1>4, <1>6 DEF Passes, Attaining, OverTemplates
<1>8. \A c : Categorised(c)' = Categorised(c)
  BY <1>3 DEF Categorised
<1>9. Document' = Document
  BY <1>2, <1>3, <1>7, <1>8 DEF Document
<1>10. Measurable' = Measurable
  BY <1>2, <1>3 DEF Measurable
<1>11. Complete' = Complete
  BY <1>1, <1>2, <1>6 DEF Complete, Upto
<1>12. Accepted(Document)' = Accepted(Document)
  BY <1>9 DEF Accepted
<1>13. Structural' = Structural
  BY <1>1, <1>2, <1>3, <1>5, <1>8 DEF Structural, Timed, SlowFirstToken
<1>14. \A a, s : QualityLevel(a, s)' = QualityLevel(a, s)
  BY <1>2, <1>6, <1>7, <1>13 DEF QualityLevel
<1>15. Gates' = Gates
  BY <1>1, <1>2, <1>7, <1>14 DEF Gates
<1>16. BlocksOK' = BlocksOK
  BY <1>1, <1>2 DEF BlocksOK
<1> QED BY <1>2, <1>5, <1>9, <1>10, <1>11, <1>12, <1>15, <1>16

LEMMA DocumentStands ==
  /\ Document # None /\ Gates # None
  /\ [met |-> FloorMet] # None
<1>1. \A r : r = None => DOMAIN r = {"none"}
  BY DEF None
<1>2. "attempted" \in DOMAIN Document
  BY DEF Document
<1>3. "continue" \in DOMAIN Gates
  BY DEF Gates
<1>4. "met" \in DOMAIN [met |-> FloorMet]
  OBVIOUS
<1> QED BY <1>1, <1>2, <1>3, <1>4

LEMMA Step == IInv /\ [Next]_vars => IInv'
<1> SUFFICES ASSUME IInv, [Next]_vars PROVE IInv'
  OBVIOUS
<1> USE DEF IInv
<1>1. CASE Record
  <2>1. BlocksOK'
    BY <1>1, RecordKeepsBlocks
  <2>2. /\ at = "measuring" /\ at' = at /\ result' = result /\ receipt' = receipt
        /\ replay' = replay /\ catalog' = catalog
    BY <1>1 DEF Record
  <2>3. PassInv' /\ ResultInv' /\ ReceiptInv' /\ ReplayInv'
    BY <2>2 DEF PassInv, ResultInv, ReceiptInv, ReplayInv
  <2> QED BY <2>1, <2>2, <2>3
<1>2. ASSUME UNCHANGED <<stage, catalog, blocks>>, PassInv', ResultInv',
             ReceiptInv', ReplayInv'
      PROVE  IInv'
  BY <1>2, RowsStand
<1>3. CASE PassEnds
  <2>1. UNCHANGED <<stage, catalog, blocks>>
    BY <1>3 DEF PassEnds
  <2>2. Recorded = Tasks
    <3>1. Recorded \in Nat /\ Tasks \in Nat
      <4>1. stage \in Stages
        BY DEF BlocksOK
      <4> QED BY <4>1, StageFacts, BlockFacts
    <3> QED BY <1>3, <3>1 DEF PassEnds, Left
  <2>3. PassInv'
    BY <1>3, <2>1, <2>2, RowsStand DEF PassEnds, PassInv
  <2>4. ResultInv' /\ ReceiptInv' /\ ReplayInv'
    BY <1>3 DEF PassEnds, ResultInv, ReceiptInv, ReplayInv
  <2> QED BY <1>2, <2>1, <2>3, <2>4
<1>4. CASE PassLost
  <2>1. UNCHANGED <<stage, catalog, blocks>>
    BY <1>4 DEF PassLost
  <2>2. PassInv' /\ ResultInv' /\ ReceiptInv' /\ ReplayInv'
    BY <1>4 DEF PassLost, PassInv, ResultInv, ReceiptInv, ReplayInv
  <2> QED BY <1>2, <2>1, <2>2
<1>5. CASE Build
  <2>1. UNCHANGED <<stage, catalog, blocks, receipt, replay>> /\ at = "observed"
    BY <1>5 DEF Build
  <2>2. Recorded' = Tasks' /\ at' \in {"stored", "failed"}
    BY <1>5, <2>1, RowsStand DEF Build, PassInv
  <2>3. PassInv'
    BY <2>2 DEF PassInv
  <2>4. ResultInv'
    BY <1>5, <2>1, RowsStand DEF Build, ResultInv
  <2>5. ReceiptInv' /\ ReplayInv'
    BY <2>1, <2>2 DEF ReceiptInv, ReplayInv
  <2> QED BY <1>2, <2>1, <2>3, <2>4, <2>5
<1>6. CASE Judge
  <2>1. UNCHANGED <<stage, catalog, blocks, result, replay>> /\ at = "stored"
    BY <1>6 DEF Judge
  <2>2. Recorded' = Tasks' /\ at' \in {"stopped", "judged"}
    BY <1>6, <2>1, RowsStand DEF Judge, PassInv
  <2>3. PassInv'
    BY <2>2 DEF PassInv
  <2>4. ResultInv'
    BY <2>1, <2>2, RowsStand DEF ResultInv
  <2>5. ReceiptInv'
    BY <1>6, <2>1, RowsStand DEF Judge, ReceiptInv
  <2>6. ReplayInv'
    BY <2>1, <2>2 DEF ReplayInv
  <2> QED BY <1>2, <2>1, <2>3, <2>4, <2>5, <2>6
<1>7. CASE Analyze
  <2>1. UNCHANGED <<stage, catalog, blocks, at, result, receipt, replay>>
    BY <1>7 DEF Analyze
  <2>2. PassInv' /\ ResultInv' /\ ReceiptInv' /\ ReplayInv'
    BY <2>1, RowsStand DEF PassInv, ResultInv, ReceiptInv, ReplayInv
  <2> QED BY <1>2, <2>1, <2>2
<1>8. CASE Replay
  <2>1. UNCHANGED <<stage, catalog, blocks, at, result, receipt>> /\ at = "judged"
    BY <1>8 DEF Replay
  <2>2. PassInv' /\ ResultInv' /\ ReceiptInv'
    BY <2>1, RowsStand DEF PassInv, ResultInv, ReceiptInv
  <2>3. Accepted(result) /\ Complete /\ Gates = receipt
    BY <2>1 DEF ResultInv, ReceiptInv
  <2>4. replay' = IF receipt.continue THEN "accepted" ELSE "refused"
    BY <1>8, <2>3 DEF Replay
  <2>5. ReplayInv'
    BY <2>1, <2>4 DEF ReplayInv
  <2> QED BY <1>2, <2>1, <2>2, <2>5
<1>9. CASE UNCHANGED vars
  <2>1. UNCHANGED <<stage, catalog, blocks, at, result, receipt, replay>>
    BY <1>9 DEF vars
  <2>2. PassInv' /\ ResultInv' /\ ReceiptInv' /\ ReplayInv'
    BY <2>1, RowsStand DEF PassInv, ResultInv, ReceiptInv, ReplayInv
  <2> QED BY <1>2, <2>1, <2>2
<1> QED BY <1>1, <1>3, <1>4, <1>5, <1>6, <1>7, <1>8, <1>9 DEF Next

(* The invariant holds of every stage, every set of outcomes and every     *)
(* number of blocks.                                                       *)
THEOREM Inductive == Spec => []IInv
  BY Start, Step, PTL DEF Spec

(* The schedule is worked through in order and never exceeded; a result    *)
(* exists exactly where it was accepted, a receipt exactly where the stage *)
(* was judged (run_real_cell, evaluate_canary).                            *)
THEOREM GradingTyped == Spec => []TypeOK
<1>1. IInv => TypeOK
  <2> SUFFICES ASSUME IInv PROVE TypeOK
    OBVIOUS
  <2>1. stage \in Stages /\ catalog \in Catalog /\ Recorded \in 0..Tasks
    BY DEF IInv, BlocksOK
  <2>2. \A i \in DOMAIN blocks :
          /\ blocks[i].kind \in Outcomes
          /\ blocks[i].first = IF i = 1 THEN 1 ELSE blocks[i - 1].last + 1
          /\ Size(blocks[i]) >= 1
    BY BlockFacts DEF IInv, BlocksOK
  <2>3. result # None <=> at \in {"stored", "stopped", "judged"}
    BY DocumentStands DEF IInv, ResultInv
  <2>4. receipt # None <=> at = "judged"
    BY DocumentStands DEF IInv, ReceiptInv
  <2> QED BY <2>1, <2>2, <2>3, <2>4 DEF IInv, PassInv, ReplayInv, TypeOK
<1> QED BY <1>1, Inductive, PTL

-----------------------------------------------------------------------------
(* Thresholds. *)

LEMMA RankFacts ==
  ASSUME NEW n \in Nat, NEW slow \in Nat
  PROVE  /\ P95Within(n, slow) => n > 0 /\ 20 * slow <= n
         /\ n = 200 /\ 20 * slow <= n => P95Within(n, slow)
         /\ n > 0 /\ 20 * slow <= n => P95Within(n, slow)
  BY DEF P95Within, Rank

LEMMA GatesContinue ==
  Gates.continue = IF StudyEntry THEN QualityLevel(60, 40)
                   ELSE /\ Reaches(Passes, Recorded, Floor)
                        /\ stage = "canary" => Passes >= CANARY_MIN_PASSES
  BY DEF Gates

(* A passing receipt was earned on the schedule it was given for           *)
(* (evaluate_stage_thresholds, evaluate_canary).                           *)
THEOREM VerdictsEarned == Spec => []VerdictIsEarned
<1>1. ASSUME IInv PROVE VerdictIsEarned
  <2> SUFFICES ASSUME at = "judged", receipt.continue
               PROVE  /\ 100 * Passes >= Floor * Tasks
                      /\ result.succeeded = Passes /\ result.attempted = Tasks
                      /\ StudyEntry =>
                           /\ \A t \in Templates : 100 * PassesOf(t) >= 40 * Upto(t, Tasks)
                           /\ result.timed_out = 0
                           /\ result.taxonomy["invalid_tool_name"] = 0
                           /\ Share1(result.taxonomy["invalid_tool_arguments"])
                           /\ Share1(result.taxonomy["endpoint_error"])
                           /\ Share5(Rows(SlowStart)) /\ Share5(Rows(Late))
    BY DEF VerdictIsEarned
  <2>1. BlocksOK /\ stage \in Stages
    BY <1>1 DEF IInv, BlocksOK
  <2>2. Recorded = Tasks /\ Complete /\ result = Document /\ Gates.continue
    BY <1>1 DEF IInv, PassInv, ResultInv, ReceiptInv
  <2>3. Tasks \in {10, 20, 200} /\ (StudyEntry <=> stage = "freeze")
    BY <2>1, StageFacts
  <2>4. Passes \in Nat /\ \A t \in Templates : PassesOf(t) \in Nat
    BY <2>1, AttainingPasses
  <2>5. Reaches(Passes, Recorded, Floor)
    <3>1. CASE StudyEntry
      <4>1. Floor = 60
        BY <2>1, <2>3, <3>1, StageFacts
      <4> QED BY <2>2, <3>1, <4>1, GatesContinue DEF QualityLevel
    <3>2. CASE ~StudyEntry
      BY <2>2, <3>2, GatesContinue
    <3> QED BY <3>1, <3>2
  <2>6. 100 * Passes >= Floor * Tasks
    BY <2>2, <2>3, <2>5 DEF Reaches
  <2>7. /\ result.succeeded = Passes /\ result.attempted = Tasks
        /\ result.timed_out = Rows(TimedOut)
        /\ \A c \in Categories : result.taxonomy[c] = Categorised(c)
    BY <2>2 DEF Document
  <2>8. ASSUME StudyEntry
        PROVE  /\ \A t \in Templates : 100 * PassesOf(t) >= 40 * Upto(t, Tasks)
               /\ result.timed_out = 0
               /\ result.taxonomy["invalid_tool_name"] = 0
               /\ Share1(result.taxonomy["invalid_tool_arguments"])
               /\ Share1(result.taxonomy["endpoint_error"])
               /\ Share5(Rows(SlowStart)) /\ Share5(Rows(Late))
    <3>1. QualityLevel(60, 40) /\ Structural
      BY <2>2, <2>8, GatesContinue DEF QualityLevel
    <3>2. Tasks = 200
      BY <2>1, <2>3, <2>8, StageFacts
    <3>3. ASSUME NEW t \in Templates
          PROVE  100 * PassesOf(t) >= 40 * Upto(t, Tasks)
      <4>1. AttemptsOf(t) = 20 /\ Upto(t, Tasks) = 20
        BY <2>1, <2>2, <2>3, <2>8, <3>2, UptoFacts, AttemptsAreScheduled
      <4>2. Reaches(PassesOf(t), AttemptsOf(t), 40)
        BY <3>1 DEF QualityLevel
      <4> QED BY <2>4, <4>1, <4>2 DEF Reaches
    <3>4. Rows(TimedOut) = 0
      <4>1. TimedOut = InCategory("task_timeout")
        BY GradingAssumption DEF GradingAssumption, TimedOut, InCategory
      <4> QED BY <3>1, <4>1 DEF Structural, Categorised
    <3>5. /\ Categorised("invalid_tool_name") = 0
          /\ 100 * Categorised("invalid_tool_arguments") <= Tasks
          /\ 100 * Categorised("endpoint_error") <= Tasks
      BY <2>2, <3>1 DEF Structural
    <3>6. Share5(Rows(Late))
      <4>1. Rows(Late) \in Nat /\ Recorded \in Nat
        BY <2>1, RowsMonotone, BlockFacts
      <4>2. P95Within(Recorded, Rows(Late))
        BY <3>1 DEF Structural
      <4> QED BY <2>2, <4>1, <4>2, RankFacts DEF Share5
    <3>7. Share5(Rows(SlowStart))
      <4>1. P95Within(Timed, SlowFirstToken)
        BY <3>1 DEF Structural
      <4>2. catalog
        <5>1. Timed # 0
          BY <4>1 DEF P95Within
        <5> QED BY <5>1 DEF Timed
      <4>3. Rows(SlowStart) \in Nat /\ Rows(Streamed) \in Nat /\ Rows(Streamed) <= Tasks
        <5>1. Streamed \subseteq Outcomes
          BY DEF Streamed
        <5> QED BY <2>1, <2>2, <5>1, RowsMonotone, RowsOfAll
      <4>4. 20 * Rows(SlowStart) <= Rows(Streamed)
        BY <4>1, <4>2, <4>3, RankFacts DEF Timed, SlowFirstToken
      <4> QED BY <3>2, <4>3, <4>4 DEF Share5
    <3> QED BY <2>7, <3>3, <3>4, <3>5, <3>6, <3>7, CategoriesAre DEF Share1
  <2> QED BY <2>6, <2>7, <2>8
<1> QED BY <1>1, Inductive, PTL

-----------------------------------------------------------------------------
(* A stage that met its thresholds. *)

(* The document of a stage with a row for every task is accepted.          *)
LEMMA DocumentAccepted ==
  ASSUME BlocksOK, Recorded = Tasks
  PROVE  Accepted(Document)
<1>1. /\ Document.attempted = Recorded /\ Document.succeeded = Passes
      /\ Document.quality_failed = Rows(Completed) - Passes
      /\ Document.errored = Rows(Errored) /\ Document.timed_out = Rows(TimedOut)
      /\ Document.slo_attaining_tasks = Attaining /\ Document.total_attempts = Tasks
  BY DEF Document
<1>2. Tasks \in {10, 20, 200}
  <2>1. stage \in Stages
    BY DEF BlocksOK
  <2> QED BY <2>1, StageFacts
<1>3. Document.attempted = Document.succeeded + Document.quality_failed
                             + Document.errored + Document.timed_out
  BY <1>1, StatusesAddUp, AttainingPasses
<1>4. Document.slo_attaining_tasks <= Document.succeeded
  BY <1>1, AttainingPasses
<1>5. SumTo([i \in DOMAIN ERROR_TAXONOMY |-> Document.taxonomy[ERROR_TAXONOMY[i]]],
            Len(ERROR_TAXONOMY)) = Document.errored + Document.timed_out
  BY <1>1, CategoriesAddUp
<1>6. Document.attempted >= 1 /\ Document.total_attempts = Document.attempted
  BY <1>1, <1>2
<1> QED BY <1>3, <1>4, <1>5, <1>6 DEF Accepted

(* Rows that each made a tool call made that many calls.                   *)
LEMMA CallsOfRows ==
  ASSUME BlocksOK, Rows(Toolless) = 0
  PROVE  ValidCalls \in Nat /\ ValidCalls >= Recorded
<1> DEFINE n == Len(blocks)
           Called == {k \in Outcomes : k.calls # 0}
           f == [i \in DOMAIN blocks |->
                   IF blocks[i].kind \in Called THEN Size(blocks[i]) ELSE 0]
           g == [i \in DOMAIN blocks |-> blocks[i].kind.calls * Size(blocks[i])]
<1>1. n \in Nat /\ DOMAIN blocks = 1..n
  BY BlockFacts
<1>2. \A i \in 1..n : f[i] \in Nat /\ g[i] \in Nat /\ f[i] <= g[i]
  <2> TAKE i \in 1..n
  <2>1. blocks[i].kind \in Outcomes /\ Size(blocks[i]) \in Nat
    BY BlockFacts
  <2>2. blocks[i].kind.calls \in Nat
    BY <2>1, GradingAssumption DEF GradingAssumption, Outcome
  <2>3. \A c, s \in Nat : c * s \in Nat /\ (c # 0 => s <= c * s)
    OBVIOUS
  <2>4. /\ blocks[i].kind.calls * Size(blocks[i]) \in Nat
        /\ blocks[i].kind.calls # 0
             => Size(blocks[i]) <= blocks[i].kind.calls * Size(blocks[i])
    BY <2>1, <2>2, <2>3
  <2>5. g[i] = blocks[i].kind.calls * Size(blocks[i])
    BY <1>1
  <2>6. f[i] = IF blocks[i].kind.calls # 0 THEN Size(blocks[i]) ELSE 0
    BY <1>1, <2>1
  <2> HIDE DEF f, g
  <2> QED BY <2>1, <2>4, <2>5, <2>6
<1>3. Rows(Called) = SumTo(f, n) /\ ValidCalls = SumTo(g, n)
  BY DEF Rows, ValidCalls
<1>4. Rows(Called) + Rows(Toolless) = Recorded
  <2>1. Called \cup Toolless = Outcomes /\ Called \cap Toolless = {}
    BY DEF Toolless
  <2> HIDE DEF Called
  <2>2. Rows(Called \cup Toolless) = Rows(Called) + Rows(Toolless)
    BY <2>1, RowsUnion
  <2>3. Rows(Called \cup Toolless) = Recorded
    BY <2>1, RowsOfAll
  <2> QED BY <2>2, <2>3
<1> HIDE DEF n, Called, f, g
<1>5. /\ SumTo(f, n) \in Nat /\ SumTo(g, n) \in Nat
      /\ SumTo(f, n) <= SumTo(g, n)
  BY <1>1, <1>2, SumMonotone, ZenonT(30)
<1>6. Recorded \in Nat
  BY BlockFacts
<1> QED BY <1>3, <1>4, <1>5, <1>6

LEMMA ScheduleComplete ==
  ASSUME BlocksOK, Recorded = Tasks
  PROVE  Complete
  BY AttemptsAreScheduled DEF Complete

(* A freeze that met its thresholds met them at every place they are       *)
(* compared.                                                               *)
LEMMA FreezeContinues ==
  ASSUME BlocksOK, Merited, StudyEntry
  PROVE  QualityLevel(60, 40) /\ Rows(Streamed) >= 1
<1>1. stage \in Stages
  BY DEF BlocksOK
<1>2. stage = "freeze" /\ Tasks = 200 /\ Floor = 60
  BY <1>1, StageFacts
<1>3. /\ Recorded = 200 /\ 100 * Passes >= 60 * 200 /\ Rows(Toolless) = 0 /\ catalog
      /\ \A t \in Templates : 100 * PassesOf(t) >= 40 * Upto(t, 200)
      /\ InvalidCalls * 100 <= 200 /\ Categorised("invalid_tool_name") = 0
      /\ Categorised("task_timeout") = 0 /\ 100 * Categorised("endpoint_error") <= 200
      /\ Rows(Unstreamed) = 0
      /\ 20 * Rows(SlowStart) <= 200 /\ 20 * Rows(Late) <= 200
  BY <1>2 DEF Merited, Share1, Share5
<1>4. Rows(Streamed) = 200
  <2>1. Streamed \cup Unstreamed = Outcomes /\ Streamed \cap Unstreamed = {}
    BY DEF Streamed, Unstreamed
  <2>2. Rows(Streamed \cup Unstreamed) = Rows(Streamed) + Rows(Unstreamed)
    BY <2>1, RowsUnion
  <2>3. Rows(Streamed) \in Nat
    BY RowsMonotone
  <2>4. Rows(Streamed \cup Unstreamed) = Recorded
    BY <2>1, RowsOfAll
  <2> QED BY <1>3, <2>2, <2>3, <2>4
<1>5. /\ P95Within(Timed, SlowFirstToken)
      /\ P95Within(Recorded, Rows(Late))
  <2>1. Rows(SlowStart) \in Nat /\ Rows(Late) \in Nat
    BY RowsMonotone
  <2> QED BY <1>3, <1>4, <2>1, RankFacts DEF Timed, SlowFirstToken
<1>6. 100 * Categorised("invalid_tool_arguments") <= Recorded
  <2>1. InCategory("invalid_tool_arguments")
          \subseteq {k \in Outcomes : k.category \in STRUCTURAL_TOOL_FAILURES}
    BY DEF InCategory, STRUCTURAL_TOOL_FAILURES
  <2>2. /\ Categorised("invalid_tool_arguments") \in Nat /\ InvalidCalls \in Nat
        /\ Categorised("invalid_tool_arguments") <= InvalidCalls
    BY <2>1, RowsMonotone DEF Categorised, InvalidCalls
  <2> QED BY <1>3, <2>2
<1>7. 100 * ValidCalls >= 99 * (ValidCalls + InvalidCalls)
  <2>1. InvalidCalls \in Nat
    BY RowsMonotone DEF InvalidCalls
  <2>2. ValidCalls \in Nat /\ ValidCalls >= 200
    BY <1>3, CallsOfRows
  <2> QED BY <1>3, <2>1, <2>2
<1>8. Structural
  BY <1>3, <1>5, <1>6, <1>7 DEF Structural
<1>9. Reaches(Passes, Recorded, 60)
  BY <1>3 DEF Reaches
<1>10. ASSUME NEW t \in Templates
       PROVE  Reaches(PassesOf(t), AttemptsOf(t), 40)
  <2>1. AttemptsOf(t) = Upto(t, 200) /\ Upto(t, 200) = 20
    BY <1>1, <1>2, <1>3, AttemptsAreScheduled, UptoFacts
  <2> QED BY <1>3, <2>1 DEF Reaches
<1> QED BY <1>4, <1>8, <1>9, <1>10 DEF QualityLevel

(* What follows of a stage that met its thresholds: it can be measured,    *)
(* its evidence is complete, and its gates let the candidate continue.     *)
LEMMA MeritedFacts ==
  ASSUME BlocksOK, Merited
  PROVE  /\ Measurable /\ Accepted(Document) /\ Complete
         /\ ValidCalls + InvalidCalls >= 1 /\ Gates.continue
<1>1. stage \in Stages
  BY DEF BlocksOK
<1>2. Recorded = Tasks /\ Tasks \in {10, 20, 200} /\ Rows(Toolless) = 0
  BY <1>1, StageFacts DEF Merited
<1>3. Accepted(Document) /\ Complete
  BY <1>2, DocumentAccepted, ScheduleComplete
<1>4. ValidCalls + InvalidCalls >= 1
  <2>1. InvalidCalls \in Nat
    BY RowsMonotone DEF InvalidCalls
  <2>2. ValidCalls \in Nat /\ ValidCalls >= Recorded
    BY <1>2, CallsOfRows
  <2> QED BY <1>2, <2>1, <2>2
<1>5. Passes \in Nat
  BY AttainingPasses
<1>6. CASE StudyEntry
  <2>1. QualityLevel(60, 40) /\ Rows(Streamed) >= 1
    BY <1>6, FreezeContinues
  <2>2. Measurable
    BY <1>2, <2>1 DEF Measurable, Merited
  <2>3. Gates.continue
    BY <1>6, <2>1, GatesContinue
  <2> QED BY <1>3, <1>4, <2>2, <2>3
<1>7. CASE ~StudyEntry
  <2>1. Rows(Streamed) \in Nat
    BY RowsMonotone
  <2>2. Measurable
    BY <1>2, <1>7, <2>1 DEF Measurable, Merited
  <2>3. 100 * Passes >= Floor * Tasks
    BY DEF Merited
  <2>4. Reaches(Passes, Recorded, Floor)
    BY <1>2, <2>3 DEF Reaches
  <2>5. stage = "canary" => Passes >= CANARY_MIN_PASSES
    BY <1>1, <1>5, <2>3, StageFacts DEF CANARY_MIN_PASSES
  <2>6. Gates.continue
    BY <1>7, <2>4, <2>5, GatesContinue
  <2> QED BY <1>3, <1>4, <2>2, <2>6
<1> QED BY <1>6, <1>7

(* A stage that met its thresholds is stopped nowhere on the way from its  *)
(* observations to its verdict, nor at the replay of a freeze              *)
(* (build_real_result, validate_result_semantics,                          *)
(* require_complete_stage_evidence, evaluate_stage_thresholds,             *)
(* authenticate_freeze).                                                   *)
THEOREM MeritContinues == Spec => []MeritedStageContinues
<1>1. ASSUME IInv PROVE MeritedStageContinues
  <2> SUFFICES ASSUME Merited,
                      \/ at \in {"failed", "stopped"}
                      \/ at = "judged" /\ ~receipt.continue
                      \/ replay = "refused" /\ receipt.continue
               PROVE  FALSE
    BY DEF MeritedStageContinues
  <2>1. /\ Measurable /\ Accepted(Document) /\ Complete
        /\ ValidCalls + InvalidCalls >= 1 /\ Gates.continue
    BY <1>1, MeritedFacts DEF IInv
  <2> QED BY <1>1, <2>1 DEF IInv, ResultInv, ReceiptInv, ReplayInv
<1> QED BY <1>1, Inductive, PTL
=============================================================================
