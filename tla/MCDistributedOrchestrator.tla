--------------------- MODULE MCDistributedOrchestrator ----------------------
(* Graphs small enough for TLC.                                            *)
EXTENDS DistributedOrchestrator

\* One edge, {0, 1}.
PairEdges == {{0, 1}}
PairWeight == [e \in PairEdges |-> 1]

\* The cycle 0 - 1 - 2 - 3 - 4 - 0 with the chord 1 - 4; the cycle's edges
\* weigh the same, so identifiers break the ties.
HouseEdges == {{0, 1}, {1, 2}, {2, 3}, {3, 4}, {0, 4}, {1, 4}}
HouseWeight == [e \in HouseEdges |-> IF e = {1, 4} THEN 2 ELSE 1]

=============================================================================
