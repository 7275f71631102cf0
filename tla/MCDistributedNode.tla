---------------------------- MODULE MCDistributedNode -----------------------------
(* Graphs small enough for TLC.                                            *)
EXTENDS DistributedNode

\* The cycle 0 - 1 - 2 - 3 - 0.  1 and 2 are each other's heaviest
\* neighbour; the heaviest neighbours of 0 and 3 are 1 and 2, and for 0 all
\* neighbours are upwards, for 3 downwards.
SquareEdges == {{0, 1}, {1, 2}, {2, 3}, {0, 3}}
SquareWeight ==
  [e \in SquareEdges |-> IF e = {1, 2} THEN 3 ELSE IF e = {0, 3} THEN 1 ELSE 2]

EqualPolicyWeight == [p \in Policies |-> 1]

=============================================================================
