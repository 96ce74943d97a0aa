------------------------------- MODULE MCTask -------------------------------
(* A scenario with two published diagnoses: d1 is supported by a log and a *)
(* health result, another log denies it.                                   *)
EXTENDS Task

Lookup(tool, usable) == [tool |-> tool, usable |-> usable, remediations |-> {},
                         relevant |-> {}, covers |-> {}, denies |-> {}]

MCLookups == {
  [Lookup("search_logs", TRUE) EXCEPT !.relevant = {"d1"}, !.covers = {"a1"}],
  [Lookup("search_logs", TRUE) EXCEPT !.relevant = {"d2"}, !.denies = {"a1"}],
  Lookup("search_logs", FALSE),
  [Lookup("get_service_health", TRUE) EXCEPT !.covers = {"a2"}],
  [Lookup("retrieve_runbook", TRUE) EXCEPT !.remediations = {"r1"}]}

Recommendation(diagnosis, remediation, refs) ==
  [tool |-> Terminal, diagnosis |-> diagnosis, remediation |-> remediation,
   refs |-> refs]

MCRecommendations ==
  {Recommendation("d1", "r1", refs) : refs \in {NoRefs, {1}, {1, 2}}}
  \cup {Recommendation(Malformed, "r1", NoRefs),
        Recommendation("d1", "r2", {1, 2})}

MCPattern == [d \in {"d1", "d2"} |-> IF d = "d1" THEN {"a1", "a2"} ELSE {"a3"}]

MCContracts == {[controller |-> "none", refs |-> FALSE],
                [controller |-> "grounding", refs |-> TRUE],
                [controller |-> "v1", refs |-> FALSE],
                [controller |-> "v2", refs |-> TRUE],
                [controller |-> "v3", refs |-> FALSE],
                [controller |-> "v3", refs |-> TRUE]}
=============================================================================
