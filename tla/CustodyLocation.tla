-------------------------- MODULE CustodyLocation --------------------------
(***************************************************************************)
(* What the custody directory promises: a write-once location.  A set      *)
(* appears in it at once and complete; it may be withdrawn while nobody    *)
(* holds a receipt for it; once the receipt is out the location never      *)
(* changes again.  The promise is void from the moment two import commands *)
(* overlap, which nothing in the code prevents.                            *)
(***************************************************************************)
CONSTANTS Sets, NoSet

VARIABLES published,   \* the set a reader would accept, or NoSet
          receipted,   \* the set a receipt was emitted for, or NoSet
          contended    \* two import commands have overlapped

Init == published = NoSet /\ receipted = NoSet /\ contended = FALSE

Publish ==
  /\ ~contended /\ published = NoSet
  /\ published' \in Sets
  /\ UNCHANGED <<receipted, contended>>

Withdraw ==
  /\ ~contended /\ receipted = NoSet
  /\ published' = NoSet
  /\ UNCHANGED <<receipted, contended>>

EmitReceipt ==
  /\ ~contended /\ published # NoSet /\ receipted = NoSet
  /\ receipted' = published
  /\ UNCHANGED <<published, contended>>

(* Overlapping commands: from here on anything may be found. *)
Overlap == contended' = TRUE /\ published' \in Sets \cup {NoSet}
           /\ receipted' \in Sets \cup {NoSet}

Next == Publish \/ Withdraw \/ EmitReceipt \/ Overlap

Spec == Init /\ [][Next]_<<published, receipted, contended>>
=============================================================================
