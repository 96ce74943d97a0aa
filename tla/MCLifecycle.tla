----------------------------- MODULE MCLifecycle -----------------------------
(* One run tag, two provider ids, three plans: enough to apply, tear down and  *)
(* apply again, and for an instance and a firewall to share a numeric id.      *)
EXTENDS Lifecycle, TLC

\* Ids are only compared for equality.
IdSymmetry == Permutations(Ids)
=============================================================================
