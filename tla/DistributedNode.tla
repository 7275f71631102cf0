--------------------------- MODULE DistributedNode ---------------------------
(***************************************************************************)
(* A run of whole nodes: DistributedOrchestrator with the other parts of   *)
(* a DistributedNode between the steps of its endpoint.  A tick drains one *)
(* mailbox for all parts; after the endpoint has handled its messages and  *)
(* its deadline the advisor is told who is matched and ticked; then the    *)
(* candidate to propose to, which the endpoint leaves open, is made by     *)
(* ProposalPolicies from what the node knows; and the node votes.          *)
(*                                                                         *)
(* The mailbox is kept apart by the part that reads the messages: each     *)
(* ignores those of the others, so their order among each other is lost    *)
(* on nobody.                                                              *)
(***************************************************************************)
EXTENDS DistributedOrchestrator, ProposalPolicies, LocalConvergence

CONSTANTS MaxPhases, RoundsPerPhase, ValidThreshold, ThresholdDecay, MayPass

ASSUME NodeAssumption ==
  /\ MaxPhases \in Nat \ {0} /\ RoundsPerPhase \in Nat \ {0}
  /\ ValidThreshold \in 10..100 /\ ThresholdDecay \in 0..25
  /\ MayPass \in BOOLEAN

VARIABLES
  round,           \* round_number of each node
  advisorMail, advisorBatch, advisorOutbox, advisorStep, advisor,
  advisorsReady    \* nodes whose _advisors_ready is set

advisorVars == <<advisorMail, advisorBatch, advisorOutbox, advisorStep, advisor>>
partVars == <<advisorVars, voteVars, round, advisorsReady>>
nodeVars == <<runVars, partVars>>

Advisors == INSTANCE WattenhoferProtocol
  WITH mailbox <- advisorMail, batch <- advisorBatch, outbox <- advisorOutbox,
       step <- advisorStep, Committers <- {}

\* build_endpoint_protocols: the ensemble has an advisor.
HasAdvisor == Advisory \in Policies

NodeInit ==
  /\ RunInit
  /\ Advisors!AdvisorInit
  /\ VotesInit
  /\ round = [n \in Nodes |-> 0]
  /\ advisorsReady = {}

-----------------------------------------------------------------------------
(* The parts of execute_distributed_round                                  *)

\* receive_messages, for all parts.  The neighbours that have announced a
\* match are marked here, where nothing has looked at the advisor yet.
Drain(n) ==
  /\ Receive(n)
  /\ HearVotes(n)
  /\ IF HasAdvisor
     THEN LET announced == {mailbox[n][i].from : i \in
                  {j \in DOMAIN mailbox[n] : mailbox[n][j].type = "MATCHED"}}
          IN /\ Advisors!TakeMail(n)
             /\ Advisors!Become(n, Advisors!MarkUnavailable(advisor[n], announced), {})
             /\ Advisors!GoTo(n, "retire")
     ELSE UNCHANGED advisorVars
  /\ UNCHANGED <<schedulerVars, round, advisorsReady>>

EndpointStep(n) ==
  /\ Send(n) \/ Handle(n) \/ Resolve(n) \/ Expire(n)
  /\ UNCHANGED <<schedulerVars, partVars>>

\* The advisor's turn, once the endpoint's deadline is dealt with.
AdvisorStep(n) ==
  /\ At(n, "propose")
  /\ \/ Advisors!Send(n) \/ Advisors!Retire(n) \/ Advisors!Start(n)
     \/ Advisors!Handle(n) \/ Advisors!Settle(n)
  /\ UNCHANGED <<runVars, voteVars, round, advisorsReady>>

AdvisorDone(n) == Advisors!At(n, "idle")

Advice(n) == IF HasAdvisor THEN Advisors!Recommendations(n) ELSE {}

\* Mutant: the policies wait for advice in every tick.
NowAdvised(n) == Advice(n) # {}

\* advisors_are_ready: there has been advice, or there will be none.
Asked(n) ==
  \/ n \in advisorsReady \/ Advice(n) # {}
  \/ ~HasAdvisor \/ advisor[n].terminal

MayCandidates(n) == Candidates(n, round[n], Eligible(n), Advice(n), Asked(n))

\* select_proposal: the candidate is proposed to, if start_proposal lets it.
ProposesCandidate(n) ==
  \E c \in MayCandidates(n) :
    IF \E m \in c : MayPropose(n, m)
    THEN tentative'[n].partner \in c
    ELSE tentative' = tentative

SelectProposal(n) ==
  /\ AdvisorDone(n)
  /\ Propose(n)
  /\ ProposesCandidate(n)
  /\ advisorsReady' = IF Advice(n) # {} THEN advisorsReady \cup {n} ELSE advisorsReady
  /\ UNCHANGED <<schedulerVars, advisorVars, voteVars, round>>

CastVote(n) ==
  /\ At(n, "finish")
  /\ Vote(n, round[n])
  /\ UNCHANGED <<runVars, advisorVars, round, advisorsReady>>

\* _finish_if_terminal, or the next round.
NodeEndTick(n) ==
  /\ n \in hasVoted
  /\ EndTick(n)
  /\ round' = [round EXCEPT ![n] = IF n \in finished' THEN @ ELSE @ + 1]
  /\ hasVoted' = hasVoted \ {n}
  /\ UNCHANGED <<advisorVars, tallyVars, advisorsReady>>

NodeStepOf(n) ==
  /\ n \in Executor!Running
  /\ \/ Drain(n) \/ EndpointStep(n) \/ AdvisorStep(n) \/ SelectProposal(n)
     \/ CastVote(n) \/ NodeEndTick(n)

NodeNext ==
  \/ (Schedule \/ Ended) /\ UNCHANGED partVars
  \/ \E n \in Nodes : NodeStepOf(n)

NodeSpec == NodeInit /\ [][NodeNext]_nodeVars

-----------------------------------------------------------------------------
(* Properties                                                              *)

\* docs/ALGORITHM_FLOW.md: the final matching is maximal, no unmatched edge
\* has both endpoints unmatched.
ReturnsMaximal == phase = "ended" => Abstract!IsMaximal

\* No policy waits for the advisors' conclusion: the candidates an advisor
\* starts with count as advice, so that whoever has a neighbour to propose to
\* has asked its policies by then, and asks them in every tick.
AdviceIsNotAwaited ==
  \A n \in Nodes : At(n, "propose") /\ AdvisorDone(n) /\ n \in Executor!Running =>
    Asked(n) \/ Eligible(n) = {}

=============================================================================
