------------------------------ MODULE Matching ------------------------------
(***************************************************************************)
(* What a run promises, without nodes, messages or threads: edges are      *)
(* matched one at a time and for good, no vertex twice (docs/              *)
(* ALGORITHM_FLOW.md: valid, symmetric), and the run goes on until no edge *)
(* is left between unmatched vertices (maximal).                           *)
(***************************************************************************)
EXTENDS Topology

VARIABLE matching  \* the matched edges

Covered(v) == \E e \in matching : v \in e

Free(e) == \A v \in e : ~Covered(v)

IsMatching ==
  /\ matching \subseteq Edges
  /\ \A e, f \in matching : e # f => e \cap f = {}

IsMaximal == \A e \in Edges : ~Free(e)

Init == matching = {}

Match(e) == Free(e) /\ matching' = matching \cup {e}

Next == \E e \in Edges : Match(e)

\* What is true of every run: validity, and finality of each match.
Safe == Init /\ [][Next]_matching

\* A run that is never stuck short of a maximal matching.
Spec == Safe /\ WF_matching(Next)

=============================================================================
