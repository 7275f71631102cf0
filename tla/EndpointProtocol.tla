-------------------------- MODULE EndpointProtocol --------------------------
(***************************************************************************)
(* The endpoints of a matching run and the mailboxes between them.         *)
(*                                                                         *)
(* Every vertex is a DistributedNode that owns an EndpointProtocol and a   *)
(* NodeState.  A worker thread repeatedly runs execute_distributed_round:  *)
(* it drains the node's mailbox, handles the messages one by one, answers  *)
(* the proposals among them together, gives up a negotiation past its      *)
(* deadline, may open a negotiation with the neighbour its policies        *)
(* selected, and finishes or advances its clock.  A match takes three      *)
(* messages and an acknowledgement:                                        *)
(*                                                                         *)
(*      proposer  --PROPOSE-->  acceptor                                   *)
(*      proposer  <--ACCEPT---  acceptor                                   *)
(*      proposer  --CONFIRM-->  acceptor    (acceptor commits)             *)
(*      proposer  <-CONFIRM_ACK acceptor    (proposer commits)             *)
(*                                                                         *)
(* Threads share nothing but the mailboxes, so a step below is one drain,  *)
(* one local handler, or the delivery of one message.  A handler puts what *)
(* it sends into outbox[n], and the thread does nothing else until it is   *)
(* empty: another thread may run between any two of a handler's sends.     *)
(* Nothing restricts which thread runs, as when the pool has a worker for  *)
(* every node; DistributedOrchestrator adds the executor.                  *)
(*                                                                         *)
(* Left out: edge weights in messages (always the graph's), round numbers  *)
(* and metrics (never read), and convergence votes, which share the        *)
(* mailboxes but are neither read nor written by the protocol.             *)
(***************************************************************************)
EXTENDS Topology, Sequences

CONSTANTS
  None,             \* no partner
  ProposalTimeout,  \* ticks before an unanswered negotiation is cancelled
  MaxEpoch,         \* bound of the model: attempts a node numbers
  MaySkip,          \* whether the policies may select nobody
  PreMatched        \* nodes the caller may withdraw before the run starts

ASSUME EndpointAssumption ==
  /\ None \notin Nodes
  /\ ProposalTimeout \in Nat \ {0}
  /\ MaxEpoch \in Nat \ {0}
  /\ MaySkip \in BOOLEAN
  /\ PreMatched \subseteq Nodes

VARIABLES
  mailbox,           \* InMemoryTransport._queues, one queue per recipient
  batch,             \* the drained messages a tick still has to handle
  offers,            \* proposals: the attempt offered by each sender, or 0
  outbox,            \* what the current handler still has to send
  step,              \* where the node is in execute_distributed_round
  tentative,         \* TENTATIVE_PARTNER, PROPOSAL_*; left = deadline - time
  epoch,             \* NEGOTIATION_EPOCH
  matchedTo,         \* "matched_to"
  unavailable,       \* UNAVAILABLE_NEIGHBORS
  finished,          \* nodes whose finished flag is set
  terminalUnmatched  \* nodes whose TERMINAL_UNMATCHED flag is set

negotiation == <<tentative, epoch>>
knowledge == <<matchedTo, unavailable>>
lifecycle == <<finished, terminalUnmatched>>
local == <<offers, outbox, tentative, epoch, matchedTo, unavailable,
           finished, terminalUnmatched>>
vars == <<mailbox, batch, offers, outbox, step, tentative, epoch, matchedTo,
          unavailable, finished, terminalUnmatched>>

-----------------------------------------------------------------------------
(* Messages and local state                                                *)

MessageType ==
  {"PROPOSE", "ACCEPT", "REJECT", "REJECT_MATCHED", "CONFIRM", "CONFIRM_ACK",
   "CANCEL", "MATCHED"}

\* REJECT_MATCHED is a REJECT whose reason is "matched"; CONFIRM_ACK is a
\* CONFIRM whose acknowledgement is set.
Message ==
  [type : MessageType, from : Nodes, to : Nodes, attempt : 1..MaxEpoch]

Msg(type, from, to, attempt) ==
  [type |-> type, from |-> from, to |-> to, attempt |-> attempt]

Step == {"idle", "handle", "expire", "propose", "finish"}

NoNegotiation ==
  [partner |-> None, attempt |-> 0, pending |-> FALSE, left |-> 0]

Negotiation ==
  [partner : Nodes, attempt : 1..MaxEpoch, pending : BOOLEAN,
   left : 0..ProposalTimeout]

NoOffers == [s \in Nodes |-> 0]

\* Mutant: is_matched tests matched_to for truth, and vertex 0 is false.
IsMatchedIfTruthy(n) == matchedTo[n] \notin {None, 0}

IsMatched(n) == matchedTo[n] # None

IsNegotiating(n) == tentative[n].partner # None

\* Mutant: the attempt is not compared.
HoldsAnyAttempt(n, s, attempt) == tentative[n].partner = s

Holds(n, s, attempt) ==
  tentative[n].partner = s /\ tentative[n].attempt = attempt

Eligible(n) == Neighbors(n) \ unavailable[n]

Offerers(n) == {s \in Nodes : offers[n][s] # 0}

TypeOK ==
  /\ mailbox \in [Nodes -> Seq(Message)]
  /\ batch \in [Nodes -> Seq(Message)]
  /\ offers \in [Nodes -> [Nodes -> 0..MaxEpoch]]
  /\ outbox \in [Nodes -> SUBSET Message]
  /\ step \in [Nodes -> Step]
  /\ tentative \in [Nodes -> Negotiation \cup {NoNegotiation}]
  /\ epoch \in [Nodes -> 0..MaxEpoch]
  /\ matchedTo \in [Nodes -> Nodes \cup {None}]
  /\ unavailable \in [Nodes -> SUBSET Nodes]
  /\ finished \subseteq Nodes
  /\ terminalUnmatched \subseteq Nodes

Init ==
  /\ mailbox = [n \in Nodes |-> <<>>]
  /\ batch = [n \in Nodes |-> <<>>]
  /\ offers = [n \in Nodes |-> NoOffers]
  /\ outbox = [n \in Nodes |-> {}]
  /\ step = [n \in Nodes |-> "idle"]
  /\ tentative = [n \in Nodes |-> NoNegotiation]
  /\ epoch = [n \in Nodes |-> 0]
  /\ matchedTo = [n \in Nodes |-> None]
  /\ unavailable = [n \in Nodes |-> {}]
  /\ finished \in SUBSET PreMatched
  /\ terminalUnmatched = {}

-----------------------------------------------------------------------------
(* NodeState.begin_tentative_match, clear_tentative_match,                 *)
(* mark_neighbor_unavailable, and EndpointProtocol._send                   *)

Begin(n, partner, attempt, proposing) ==
  /\ tentative' = [tentative EXCEPT ![n] =
       [partner |-> partner, attempt |-> attempt, pending |-> proposing,
        left |-> ProposalTimeout]]
  /\ epoch' = [epoch EXCEPT ![n] = IF attempt > @ THEN attempt ELSE @]

Clear(n) ==
  /\ tentative' = [tentative EXCEPT ![n] = NoNegotiation]
  /\ UNCHANGED epoch

MarkUnavailable(n, s) ==
  unavailable' = [unavailable EXCEPT ![n] = @ \cup {s}]

Queue(n, messages) == outbox' = [outbox EXCEPT ![n] = messages]

\* The thread of n is at a step and everything it had to send is sent.
At(n, s) == step[n] = s /\ outbox[n] = {}

GoTo(n, s) == step' = [step EXCEPT ![n] = s]

\* The sends of one handler go out one at a time.  _receive_confirm sends
\* its acknowledgement after every announcement; the order of the others is
\* that of a neighbour list or a dict, and left open.
Send(n) ==
  /\ \E m \in outbox[n] :
       /\ m.type = "CONFIRM_ACK" => outbox[n] = {m}
       /\ mailbox' = [mailbox EXCEPT ![m.to] = Append(@, m)]
       /\ Queue(n, outbox[n] \ {m})
  /\ UNCHANGED <<batch, offers, step, negotiation, knowledge, lifecycle>>

-----------------------------------------------------------------------------
(* A tick: drain the mailbox, then EndpointProtocol.process_messages       *)

\* The executor submits a node only while it is active; receive() empties
\* the node's queue under the transport's lock.
Receive(n) ==
  /\ n \notin finished
  /\ At(n, "idle")
  /\ batch' = [batch EXCEPT ![n] = mailbox[n]]
  /\ mailbox' = [mailbox EXCEPT ![n] = <<>>]
  /\ GoTo(n, "handle")
  /\ UNCHANGED local

\* The next message of the batch is of one of these types.
Handling(n, types) ==
  /\ At(n, "handle")
  /\ batch[n] # <<>>
  /\ Head(batch[n]).type \in types

Consume(n) ==
  /\ batch' = [batch EXCEPT ![n] = Tail(@)]
  /\ UNCHANGED <<mailbox, step, finished, terminalUnmatched>>

\* Proposals are kept until the batch is empty, the latest of each sender.
ReceivePropose(n) ==
  LET m == Head(batch[n]) IN
  /\ Handling(n, {"PROPOSE"})
  /\ offers' = [offers EXCEPT ![n][m.from] =
       IF m.attempt > @ THEN m.attempt ELSE @]
  /\ Consume(n)
  /\ UNCHANGED <<outbox, negotiation, knowledge>>

\* _receive_accept's early return, negated.
AnswersProposal(n, m) ==
  Holds(n, m.from, m.attempt) /\ tentative[n].pending

\* Mutant: the acknowledgement flag is set.
ConfirmationAsAck(n, m) == Msg("CONFIRM_ACK", n, m.from, m.attempt)

Confirmation(n, m) == Msg("CONFIRM", n, m.from, m.attempt)

ReceiveAccept(n) ==
  LET m == Head(batch[n]) IN
  /\ Handling(n, {"ACCEPT"})
  /\ \/ /\ AnswersProposal(n, m)
        /\ Begin(n, m.from, m.attempt, FALSE)
        /\ Queue(n, {Confirmation(n, m)})
     \/ /\ ~AnswersProposal(n, m)
        /\ UNCHANGED <<outbox, negotiation>>
  /\ Consume(n)
  /\ UNCHANGED <<offers, knowledge>>

\* A refusal ends the negotiation it names; only one with reason "matched"
\* says anything lasting about its sender.
ReceiveReject(n) ==
  LET m == Head(batch[n]) IN
  /\ Handling(n, {"REJECT", "REJECT_MATCHED"})
  /\ IF Holds(n, m.from, m.attempt) THEN Clear(n) ELSE UNCHANGED negotiation
  /\ IF m.type = "REJECT_MATCHED"
     THEN MarkUnavailable(n, m.from)
     ELSE UNCHANGED unavailable
  /\ Consume(n)
  /\ UNCHANGED <<offers, outbox, matchedTo>>

\* _announce_final_match
Announcements(n, partner, attempt) ==
  {Msg("MATCHED", n, m, attempt) : m \in Neighbors(n) \ {partner}}

\* Mutant: the proposer is not told.
NoAcknowledgement(n, m) == {}

\* Mutant: the proposer is told like any other neighbour.
AcknowledgementAsMatched(n, m) ==
  IF m.type = "CONFIRM"
  THEN {Msg("MATCHED", n, m.from, m.attempt)}
  ELSE {}

Acknowledgement(n, m) ==
  IF m.type = "CONFIRM"
  THEN {Msg("CONFIRM_ACK", n, m.from, m.attempt)}
  ELSE {}

\* The only place that writes a final match, for both roles.
ReceiveConfirm(n) ==
  LET m == Head(batch[n]) IN
  /\ Handling(n, {"CONFIRM", "CONFIRM_ACK"})
  /\ \/ /\ Holds(n, m.from, m.attempt)
        /\ matchedTo' = [matchedTo EXCEPT ![n] = m.from]
        /\ Clear(n)
        /\ Queue(n, Announcements(n, m.from, m.attempt)
                    \cup Acknowledgement(n, m))
     \/ /\ ~Holds(n, m.from, m.attempt)
        /\ UNCHANGED <<outbox, negotiation, matchedTo>>
  /\ Consume(n)
  /\ UNCHANGED <<offers, unavailable>>

ReceiveCancel(n) ==
  LET m == Head(batch[n]) IN
  /\ Handling(n, {"CANCEL"})
  /\ IF Holds(n, m.from, m.attempt) THEN Clear(n) ELSE UNCHANGED negotiation
  /\ Consume(n)
  /\ UNCHANGED <<offers, outbox, knowledge>>

ReceiveMatched(n) ==
  LET m == Head(batch[n]) IN
  /\ Handling(n, {"MATCHED"})
  /\ MarkUnavailable(n, m.from)
  /\ Consume(n)
  /\ UNCHANGED <<offers, outbox, negotiation, matchedTo>>

-----------------------------------------------------------------------------
(* The proposals of the batch, answered together                           *)

Resolving(n) == At(n, "handle") /\ batch[n] = <<>>

EndResolution(n) ==
  /\ offers' = [offers EXCEPT ![n] = NoOffers]
  /\ GoTo(n, "expire")
  /\ UNCHANGED <<mailbox, batch, knowledge, lifecycle>>

\* One answer to every sender that offered; answer[s] is its type.
Reply(n, answer) ==
  Queue(n, {Msg(answer[s], n, s, offers[n][s]) : s \in Offerers(n)})

ResolveMatched(n) ==
  /\ Resolving(n)
  /\ IsMatched(n)
  /\ Reply(n, [s \in Nodes |-> "REJECT_MATCHED"])
  /\ EndResolution(n)
  /\ UNCHANGED negotiation

\* Mutant: every refusal has the reason "matched".
BusyAnswerAsMatched(n, s) ==
  IF Holds(n, s, offers[n][s]) /\ ~tentative[n].pending
  THEN "ACCEPT" ELSE "REJECT_MATCHED"

\* A negotiating node refuses everybody, but repeats the ACCEPT of a
\* proposal it has already accepted.
BusyAnswer(n, s) ==
  IF Holds(n, s, offers[n][s]) /\ ~tentative[n].pending
  THEN "ACCEPT" ELSE "REJECT"

ResolveBusy(n) ==
  /\ Resolving(n)
  /\ ~IsMatched(n)
  /\ IsNegotiating(n)
  /\ Reply(n, [s \in Nodes |-> BusyAnswer(n, s)])
  /\ EndResolution(n)
  /\ UNCHANGED negotiation

ResolveFree(n) ==
  /\ Resolving(n)
  /\ ~IsMatched(n)
  /\ ~IsNegotiating(n)
  /\ \/ /\ Offerers(n) = {}
        /\ UNCHANGED <<outbox, negotiation>>
     \/ \E winner \in Offerers(n) :
          /\ IsBest(n, winner, Offerers(n))
          /\ Begin(n, winner, offers[n][winner], FALSE)
          /\ Reply(n, [s \in Nodes |->
               IF s = winner THEN "ACCEPT" ELSE "REJECT"])
  /\ EndResolution(n)

-----------------------------------------------------------------------------
(* The rest of the tick                                                    *)

\* Mutant: the deadline itself is not late enough.
ExpireDueLate(n) == IsNegotiating(n) /\ tentative[n].left < 0

\* expire_if_needed's early return, negated.
ExpireDue(n) == IsNegotiating(n) /\ tentative[n].left <= 0

Expire(n) ==
  /\ At(n, "expire")
  /\ \/ /\ ExpireDue(n)
        /\ Clear(n)
        /\ Queue(n, {Msg("CANCEL", n, tentative[n].partner,
                         tentative[n].attempt)})
     \/ /\ ~ExpireDue(n)
        /\ UNCHANGED <<outbox, negotiation>>
  /\ GoTo(n, "propose")
  /\ UNCHANGED <<mailbox, batch, offers, knowledge, lifecycle>>

\* Mutant: a committed node proposes.
MayProposeMatched(n, m) ==
  m \in Eligible(n) /\ ~IsNegotiating(n) /\ epoch[n] < MaxEpoch

\* Mutant: a node proposes while it negotiates.
MayProposeBusy(n, m) ==
  ~IsMatched(n) /\ m \in Eligible(n) /\ epoch[n] < MaxEpoch

\* Mutant: a node that was refused does not propose again.
MayProposeOnce(n, m) ==
  ~IsMatched(n) /\ m \in Eligible(n) /\ ~IsNegotiating(n) /\ epoch[n] = 0

\* start_proposal's early return, negated, and the model's bound.
MayPropose(n, m) ==
  /\ ~IsMatched(n)
  /\ m \in Eligible(n)
  /\ ~IsNegotiating(n)
  /\ epoch[n] < MaxEpoch

\* conflict_solution.  The candidate is whichever eligible neighbour the
\* policies selected; MaySkip lets them select none.
Propose(n) ==
  /\ At(n, "propose")
  /\ \/ \E m \in Neighbors(n) :
          /\ MayPropose(n, m)
          /\ Begin(n, m, epoch[n] + 1, TRUE)
          /\ Queue(n, {Msg("PROPOSE", n, m, epoch[n] + 1)})
     \/ /\ MaySkip \/ \A m \in Neighbors(n) : ~MayPropose(n, m)
        /\ UNCHANGED <<outbox, negotiation>>
  /\ GoTo(n, "finish")
  /\ UNCHANGED <<mailbox, batch, offers, knowledge, lifecycle>>

\* Mutant: a node stops as soon as it has nothing under way.
CanQuiesceEagerly(n) == ~IsNegotiating(n)

CanQuiesce(n) == ~IsNegotiating(n) /\ Eligible(n) = {}

\* _finish_if_terminal; a node that does not finish advances its clock.
Finish(n) ==
  /\ At(n, "finish")
  /\ IsMatched(n) \/ CanQuiesce(n)
  /\ finished' = finished \cup {n}
  /\ terminalUnmatched' =
       IF IsMatched(n) THEN terminalUnmatched ELSE terminalUnmatched \cup {n}
  /\ GoTo(n, "idle")
  /\ UNCHANGED <<mailbox, batch, offers, outbox, negotiation, knowledge>>

\* Mutant: the local clock stands still.
StopClock(n) == tentative' = tentative

AdvanceClock(n) ==
  tentative' = [tentative EXCEPT ![n].left =
    IF IsNegotiating(n) THEN @ - 1 ELSE @]

Continue(n) ==
  /\ At(n, "finish")
  /\ ~IsMatched(n) /\ ~CanQuiesce(n)
  /\ AdvanceClock(n)
  /\ GoTo(n, "idle")
  /\ UNCHANGED <<mailbox, batch, offers, outbox, epoch, knowledge, lifecycle>>

-----------------------------------------------------------------------------
Handle(n) ==
  \/ ReceivePropose(n) \/ ReceiveAccept(n) \/ ReceiveReject(n)
  \/ ReceiveConfirm(n) \/ ReceiveCancel(n) \/ ReceiveMatched(n)

Resolve(n) == ResolveMatched(n) \/ ResolveBusy(n) \/ ResolveFree(n)

\* What the thread running n's tick may do next.
NodeStep(n) ==
  \/ Receive(n) \/ Send(n) \/ Handle(n) \/ Resolve(n)
  \/ Expire(n) \/ Propose(n) \/ Finish(n) \/ Continue(n)

Terminated == finished = Nodes /\ UNCHANGED vars

Next == (\E n \in Nodes : NodeStep(n)) \/ Terminated

\* Ticks are finite, and the executor resubmits every active node from a
\* FIFO queue, so no active node is passed over for ever.
Fairness == \A n \in Nodes : WF_vars(NodeStep(n))

Spec == Init /\ [][Next]_vars /\ Fairness

-----------------------------------------------------------------------------
(* What the endpoints have agreed on                                       *)

\* The pairs that both nodes report, which is all that _collect_results
\* returns of a run.
ReportedMatching ==
  {e \in Edges : \A n \in e : matchedTo[n] \in e \ {n}}

Abstract == INSTANCE Matching WITH matching <- ReportedMatching

\* The endpoints implement the abstract matching: they add one free edge at
\* a time to what is reported, and never take one back, although either
\* endpoint may believe in a match that the other has given up.
ImplementsMatching == Abstract!Safe

-----------------------------------------------------------------------------
(* Safety                                                                  *)

\* A node never writes off a neighbour that is still free.  Eligibility is
\* learnt from MATCHED and REJECT_MATCHED messages that may be arbitrarily
\* old, so this needs matches to be final.
UnavailableIsMatched ==
  \A n \in Nodes : \A m \in unavailable[n] : IsMatched(m)

\* A node finishes as terminal_unmatched only when nobody is left for it,
\* which makes the finished flag safe to set for good.
TerminalUnmatchedIsIsolated ==
  \A n \in terminalUnmatched : \A m \in Neighbors(n) : IsMatched(m)

\* The node that accepted commits first and tells its partner: whenever a
\* CONFIRM_ACK is under way its sender is matched to the recipient, so that
\* the match the proposer then makes is mutual.
AckIsFromPartner ==
  \A n \in Nodes : \A i \in 1..Len(mailbox[n]) :
    LET m == mailbox[n][i] IN
    m.type = "CONFIRM_ACK" => matchedTo[m.from] = n

\* A matched node holds no negotiation: it can neither commit again nor
\* cancel anything, and can_quiesce never sees it half way.
MatchedHasNoNegotiation ==
  \A n \in Nodes : IsMatched(n) => ~IsNegotiating(n)

\* The documented guarantee of the two-phase commit: A<->B only if both
\* confirmed.  The acceptor commits first, so its partner must be committed
\* to it too or still be waiting for the acknowledgement.
OnlyIfBothConfirmed ==
  \A n, m \in Nodes :
    matchedTo[n] = m =>
      \/ matchedTo[m] = n
      \/ tentative[m].partner = n /\ ~tentative[m].pending

-----------------------------------------------------------------------------
(* What a step may never do                                                *)

\* matched_to is written once: nothing rematches or unmatches an endpoint,
\* however late or out of order the messages of its old negotiations are.
MatchIsFinal ==
  [][\A n \in Nodes :
       matchedTo[n] # None => matchedTo'[n] = matchedTo[n]]_vars

\* _receive_confirm does not look at PROPOSAL_PENDING, and attempt numbers
\* of crossing proposals coincide; still, no endpoint commits to a proposal
\* of its own that nobody has accepted.
CommitsOnlyWhenAnswered ==
  [][\A n \in Nodes :
       matchedTo'[n] # matchedTo[n] => ~tentative[n].pending]_vars

\* When a proposer's partner has committed to it, the proposer commits too
\* unless its own clock runs out first: no REJECT or CANCEL, of whatever
\* negotiation, and no proposal of its own takes it out of the match.
OnlyExpiryAbandonsAPartner ==
  [][\A n, m \in Nodes :
       /\ matchedTo[m] = n
       /\ tentative[n].partner = m
       /\ ~tentative[n].pending
       /\ tentative'[n].attempt # tentative[n].attempt
       => matchedTo'[n] = m \/ tentative[n].left = 0]_vars

-----------------------------------------------------------------------------
(* Liveness                                                                *)

\* No negotiation lasts: whatever happened to the partner, the endpoint
\* commits, is refused, or gives up at its deadline.
NegotiationsEnd ==
  \A n \in Nodes : IsNegotiating(n) ~> ~IsNegotiating(n)

=============================================================================
