-------------------------- MODULE MCQualification --------------------------
(***************************************************************************)
(* Small instances of Qualification.                                       *)
(***************************************************************************)
EXTENDS Qualification, TLC

CONSTANTS h1, h2, l1, l2

TheHosts == {h1, h2}
TheLedgers == {l1, l2}

TheResource == (l1 :> h1) @@ (l2 :> h2)

TheJobs ==
  {<<"P1", "development">>, <<"P2C", "development">>,
   <<"W7", "freeze">>, <<"W7", "baseline">>, <<"W7", "canary">>}

Config(c, control) ==
  [pinned |-> TRUE, candidate |-> c, version |-> WorkloadVersion(c),
   controller |-> Controller(c), tasks |-> 0, steering |-> FALSE,
   contract |-> EvidenceContract(c), sealed |-> "absent", control |-> control]

TheConfigs == {Config("P1", FALSE), Config("P2C", TRUE), Config("W7", FALSE)}

Symmetry == Permutations(Terminals) \cup Permutations(Labels)
=============================================================================
