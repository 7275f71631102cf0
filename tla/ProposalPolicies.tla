-------------------------- MODULE ProposalPolicies --------------------------
(***************************************************************************)
(* The candidate of a tick: what each configured policy proposes to its    *)
(* node, and the neighbour select_weight_aware_candidate makes of it and   *)
(* of the advice of the node's advisor.  Whoever proposes a neighbour      *)
(* proposes it with the weight of its edge, so that a set of neighbours    *)
(* stands for the dictionary; a policy proposes at most one.               *)
(* Shares are in percent and compared exactly, where the code uses floats. *)
(* Luby's activation is drawn at random; any probability is possible.      *)
(***************************************************************************)
EXTENDS Topology, FiniteSetsExt

CONSTANTS
  Policies,       \* available_algorithms, of those below
  PolicyWeight,   \* get_policy_weight
  MaxRounds,      \* max_rounds: the proposal horizon
  TimeoutRounds,  \* Itai's timeout_rounds
  Influence,      \* algorithm_influence, in percent
  Gap             \* material_weight_gap, in percent

LocalPolicyNames == {"greedy", "itai", "luby"}

\* The algorithm with an endpoint protocol, from which advice comes.
Advisory == "wattenhofer_graph"

ASSUME PoliciesAssumption ==
  /\ Policies \subseteq LocalPolicyNames \cup {Advisory}
  /\ PolicyWeight \in [Policies -> Nat]
  /\ MaxRounds \in Nat /\ TimeoutRounds \in Nat \ {0}
  /\ Influence \in 0..30 /\ Gap \in 0..50
  /\ \A e \in Edges : Weight[e] > 0

-----------------------------------------------------------------------------
(* propose_to_neighbors                                                    *)

Heaviest(n, S) == {m \in S : IsBest(n, m, S)}

GreedyProposals(n, round) ==
  IF round < MaxRounds THEN Heaviest(n, Neighbors(n)) ELSE {}

\* Downwards by identifier, then upwards, in turns of TimeoutRounds rounds.
OrientDownward(round) == (round \div TimeoutRounds) % 2 = 0

ItaiProposals(n, round) ==
  IF round < MaxRounds
  THEN Heaviest(n, {m \in Neighbors(n) : (m < n) <=> OrientDownward(round)})
  ELSE {}

\* What a policy may propose.
Proposals(policy, n, round) ==
  CASE policy = "greedy" -> {GreedyProposals(n, round)}
    [] policy = "itai" -> {ItaiProposals(n, round)}
    [] policy = "luby" -> {{}, GreedyProposals(n, round)}

-----------------------------------------------------------------------------
(* RegisteredProposalPolicy.propose and select_weight_aware_candidate      *)

LocalPolicies == Policies \ {Advisory}

\* What the local policies may propose, if they are asked at all.
LocalProposals(n, round) ==
  {f \in [LocalPolicies -> UNION {Proposals(p, n, round) : p \in LocalPolicies}] :
     \A p \in LocalPolicies : f[p] \in Proposals(p, n, round)}

\* proposals_per_algorithm: each policy's proposals, the eligible ones, and
\* the advice.
ProposalsPerAlgorithm(n, round, eligible, advice, asked) ==
  {[p \in Policies |-> IF p = Advisory THEN advice
                       ELSE IF asked THEN chosen[p] \cap eligible ELSE {}] :
     chosen \in LocalProposals(n, round)}

\* The largest weight that an advisor with several candidates proposes: its
\* scores are shares of it.
Scale(n, proposals) ==
  LET advice == UNION {proposals[p] : p \in Policies \cap {Advisory}}
  IN IF advice = {} THEN 1 ELSE Max({EdgeWeight(n, m) : m \in advice})

\* preference, times the scale.
Preference(n, proposals, m) ==
  MapThenSumSet(LAMBDA p : PolicyWeight[p] * (IF p = Advisory THEN EdgeWeight(n, m)
                                              ELSE Scale(n, proposals)),
                {p \in Policies : m \in proposals[p]})

\* The neighbours within the relative gap of the heaviest one proposed.
CloseCandidates(n, candidates) ==
  {m \in candidates : \A k \in candidates :
     100 * EdgeWeight(n, m) >= (100 - Gap) * EdgeWeight(n, k)}

\* The weight's share and the policies' share, over a common denominator.
Score(n, m, proposals) ==
  LET candidates == UNION {proposals[p] : p \in Policies}
      maxWeight == Max({EdgeWeight(n, k) : k \in candidates})
      maxPreference == Max({Preference(n, proposals, k) : k \in candidates})
  IN IF maxPreference = 0
     THEN EdgeWeight(n, m)
     ELSE (100 - Influence) * EdgeWeight(n, m) * maxPreference
          + Influence * Preference(n, proposals, m) * maxWeight

\* The candidate, as a set of at most one neighbour.
Candidate(n, proposals) ==
  LET close == CloseCandidates(n, UNION {proposals[p] : p \in Policies})
  IN {m \in close : \A k \in close \ {m} :
        LET a == Score(n, m, proposals)
            b == Score(n, k, proposals)
        IN a > b \/ (a = b /\ PrefersId(n, m, k))}

\* The candidates the policies and the advice may come up with.
Candidates(n, round, eligible, advice, asked) ==
  {Candidate(n, proposals) :
     proposals \in ProposalsPerAlgorithm(n, round, eligible, advice, asked)}

=============================================================================
