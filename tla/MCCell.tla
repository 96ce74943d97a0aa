------------------------------- MODULE MCCell -------------------------------
(***************************************************************************)
(* Small instances of Cell.                                                *)
(***************************************************************************)
EXTENDS Cell, TLC
=============================================================================
