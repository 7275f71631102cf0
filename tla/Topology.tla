------------------------------ MODULE Topology ------------------------------
(***************************************************************************)
(* The graph a run works on, as one endpoint sees it: src/graph/           *)
(* local_graph.py gives a node its direct neighbours and the weights of    *)
(* its incident edges and nothing else.  Topology and weights are fixed    *)
(* for a run, so they are constants.  Vertex identifiers are the code's    *)
(* integers because ties between equal weights are broken by identifier.   *)
(***************************************************************************)
EXTENDS Naturals

CONSTANTS
  Nodes,   \* the vertex identifiers
  Edges,   \* the edges, each a set of two vertices
  Weight   \* the weight of each edge; only the order of weights matters

ASSUME TopologyAssumption ==
  /\ Nodes \subseteq Nat
  /\ \A e \in Edges : \E u, v \in Nodes : u # v /\ e = {u, v}
  /\ Weight \in [Edges -> Nat]

-----------------------------------------------------------------------------

Neighbors(n) == {m \in Nodes : {n, m} \in Edges}

EdgeWeight(n, m) == Weight[{n, m}]

\* The sort key (weight, -identifier) by which an endpoint ranks neighbours.
PrefersId(n, a, b) ==
  \/ EdgeWeight(n, a) > EdgeWeight(n, b)
  \/ EdgeWeight(n, a) = EdgeWeight(n, b) /\ a < b

\* max(S, key = (weight, -identifier)), as a predicate on the candidate.
IsBest(n, w, S) == w \in S /\ \A s \in S \ {w} : PrefersId(n, w, s)

=============================================================================
