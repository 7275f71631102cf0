------------------------ MODULE MCEndpointProtocol --------------------------
(* Instances of EndpointProtocol small enough for TLC.                     *)
EXTENDS EndpointProtocol, FiniteSets

\* One edge, {0, 1}.
PairEdges == {{0, 1}}
PairWeight == [e \in PairEdges |-> 1]

\* The path 0 - 1 - 2.
PathEdges == {{0, 1}, {1, 2}}
PathWeight == [e \in PathEdges |-> 1]

\* n was withdrawn before the run.
Withdrawn(n) == n \in finished /\ matchedTo[n] = None /\ n \notin terminalUnmatched

\* With 2 withdrawn, and nobody asking it: a pair in every interleaving.
\* With 2 there: the path, one tick after the other, one attempt each.
PairOrPath ==
  IF Withdrawn(2)
  THEN tentative[1].partner # 2
  ELSE /\ Cardinality({n \in Nodes : step[n] # "idle"}) <= 1
       /\ \A n \in Nodes : epoch[n] <= 1

=============================================================================
