------------------------ MODULE MCPopulationEvaluation ------------------------
(***************************************************************************)
(* Vectors of one algorithm with one parameter, that and the influence     *)
(* being 0 or 1, on a graph of two nodes.  The runs of a vector are all    *)
(* alike under the first evaluator, differ under the second, and an        *)
(* instability penalty makes every score negative under the third.         *)
(***************************************************************************)
EXTENDS PopulationEvaluation

MCOwn == [a \in {"luby"} |-> {"policy_weight"}]

Influence == <<"vector", "algorithm_influence">>
PolicyWeight == <<"luby", "policy_weight">>

MCLow ==
  [p \in Definitions({"luby"}) |->
     CASE p = <<"vector", "max_iterations">> -> 5 [] OTHER -> 0]

MCHigh ==
  [p \in Definitions({"luby"}) |->
     CASE p \in {Influence, PolicyWeight} -> 1 [] OTHER -> MCLow[p]]

\* The two middle vectors tie where the scores are fixed.
Merit(v) == v.parameters[Influence] + v.parameters[PolicyWeight]

MCEvaluators ==
  {[v \in Vectors |-> {Merit(v)}],
   [v \in Vectors |-> {Merit(v), 2 * v.parameters[Influence]}],
   [v \in Vectors |-> {Merit(v) - 3}]}

=============================================================================
