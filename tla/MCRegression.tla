---------------------------- MODULE MCRegression ----------------------------
(* Three circuits: the baseline's, one a sample cannot tell from it, and    *)
(* one that differs; baselines exact, sampled, of another case, without an  *)
(* observation, and not run.                                          *)
EXTENDS Regression, TLC

MCCircuits == {"same", "near", "far"}
MCTruth == [c \in MCCircuits |-> CASE c = "same" -> 4 [] c = "near" -> 5 [] c = "far" -> 8]
MCSize  == [c \in MCCircuits |-> IF c = "near" THEN 3 ELSE 2]

Exact   == CHOOSE s \in Captured("case", 0, "same", "exact") : TRUE
Sampled == Captured("case", 0, "same", "sampled")
MCBaselines == {Exact, [Exact EXCEPT !.case = "other"], [Exact EXCEPT !.dist = {}], [Exact EXCEPT !.size = {}],
                NotExecuted("case", "NOT_RUN")} \cup Sampled
MCPolicies == { [axes |-> a, increase |-> i, tolerance |-> t] :
                  a \in {{"source_commit", "circuit"}}, i \in {{}, {0}}, t \in {{2}} }
              \cup { [axes |-> {"source_commit"}, increase |-> {0}, tolerance |-> {}] }
Symmetry == Permutations(Captures) \cup Permutations(Uploads)
=============================================================================
