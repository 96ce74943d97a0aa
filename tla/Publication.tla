---------------------------- MODULE Publication ----------------------------
(***************************************************************************)
(* What a run label promises to whoever reads its results later: its       *)
(* repetitions are announced (manifest) and published (result) in order,   *)
(* each once and one at a time, all by the same run, and nothing of it is  *)
(* taken back.  A run that dies leaves a shorter record, which no other    *)
(* run continues.  Cell implements it (src/blackwell_lab/cloud/realbench.py).*)
(***************************************************************************)
EXTENDS Naturals

CONSTANTS Runs, Repetitions

VARIABLES announced, published   \* <<run, repetition>>

Init == announced = {} /\ published = {}

(* The next repetition of the only run, once the last one is published.    *)
Announce(r, k) ==
  /\ published = announced
  /\ announced = {r} \X (1..(k - 1))
  /\ announced' = announced \cup {<<r, k>>}
  /\ UNCHANGED published

Publish == published' = announced /\ UNCHANGED announced

Next == Publish \/ \E r \in Runs, k \in 1..Repetitions : Announce(r, k)

Spec == Init /\ [][Next]_<<announced, published>>
=============================================================================
