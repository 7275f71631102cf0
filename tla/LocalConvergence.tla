-------------------------- MODULE LocalConvergence --------------------------
(***************************************************************************)
(* The votes on stopping: each tick a node decides on a vote, tells up to  *)
(* Fanout of its neighbours, and keeps the latest vote it has heard from   *)
(* each.  Nothing reads a vote: a run ends without them.  A gossip's sends *)
(* go to different mailboxes and meet no other kind of message there that  *)
(* looks at them, so all are one step.                                     *)
(***************************************************************************)
EXTENDS Topology, Sequences, FiniteSets, FiniteSetsExt

CONSTANTS
  StopThreshold,   \* convergence_threshold, in percent; 0 is run as 5
  QuorumThreshold  \* quorum_threshold, in percent

ASSUME ConvergenceAssumption ==
  StopThreshold \in Nat \ {0} /\ QuorumThreshold \in 0..100

VARIABLES
  voteMail,      \* the votes in each node's mailbox
  vote,          \* vote; FALSE when there is none yet, as gossip sends it
  knownVotes,    \* known_votes and known_vote_rounds, by neighbour
  lastWeight,    \* last_matching_weight
  matchedEdges,  \* state["matched_edges"], a key that nothing writes
  hasVoted       \* nodes that have voted in the running tick

tallyVars == <<voteMail, vote, knownVotes, lastWeight, matchedEdges>>
voteVars == <<tallyVars, hasVoted>>

VotesInit ==
  /\ voteMail = [n \in Nodes |-> <<>>]
  /\ vote = [n \in Nodes |-> FALSE]
  /\ knownVotes = [n \in Nodes |-> [m \in {} |-> FALSE]]
  /\ lastWeight = [n \in Nodes |-> 0]
  /\ matchedEdges = [n \in Nodes |-> {}]
  /\ hasVoted = {}

Fanout == 3

\* process_messages: what is known of a neighbour is its latest vote.  A node
\* votes once in a round, so that there is only one.
Latest(votes) == CHOOSE v \in votes : \A w \in votes : w.round <= v.round

\* The votes of k among messages; the sender of a vote is a neighbour.
VotesOf(k, mail) ==
  {[round |-> mail[i].round, vote |-> mail[i].vote] :
     i \in {j \in DOMAIN mail : mail[j].from = k}}

HearVotes(n) ==
  LET known == knownVotes[n]
      mail == voteMail[n]
  IN
  /\ knownVotes' = [knownVotes EXCEPT ![n] =
       [k \in DOMAIN known \cup {mail[i].from : i \in DOMAIN mail} |->
          Latest({known[j] : j \in {k} \cap DOMAIN known} \cup VotesOf(k, mail))]]
  /\ voteMail' = [voteMail EXCEPT ![n] = <<>>]
  /\ UNCHANGED <<vote, lastWeight, matchedEdges, hasVoted>>

CurrentWeight(n) == MapThenSumSet(LAMBDA e : Weight[e], matchedEdges[n])

\* decide: the improvement on the last weight, if there is one, or else all
\* or nothing, is below the threshold.
Stagnates(n) ==
  LET last == lastWeight[n]
      current == CurrentWeight(n)
  IN
  IF last > 0
  THEN 100 * (current - last) < StopThreshold * last
  ELSE (IF current > 0 THEN 100 ELSE 0) < StopThreshold

\* decide and gossip; the weight and the flags gossiped with it are not read.
Vote(n, round) ==
  LET ballot == round # 0 /\ Stagnates(n)
      fanout == Min({Fanout, Cardinality(Neighbors(n))})
  IN
  /\ n \notin hasVoted
  /\ vote' = [vote EXCEPT ![n] = ballot]
  /\ \E sample \in kSubset(fanout, Neighbors(n)) :
       voteMail' = [m \in Nodes |->
         IF m \in sample
         THEN Append(voteMail[m], [from |-> n, round |-> round, vote |-> ballot])
         ELSE voteMail[m]]
  /\ lastWeight' =
       [lastWeight EXCEPT ![n] = IF round = 0 THEN @ ELSE CurrentWeight(n)]
  /\ hasVoted' = hasVoted \cup {n}
  /\ UNCHANGED <<knownVotes, matchedEdges>>

\* should_stop, which no caller asks for.
ShouldStop(n, negotiating) ==
  LET known == knownVotes[n] IN
  /\ ~negotiating /\ DOMAIN known # {}
  /\ 100 * Cardinality({m \in DOMAIN known : known[m].vote})
       > QuorumThreshold * Cardinality(DOMAIN known)

=============================================================================
