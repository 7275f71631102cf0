----------------------- MODULE EndpointProtocolProofs -----------------------
(***************************************************************************)
(* Proofs about EndpointProtocol, for every graph, every weight function   *)
(* and every value of the bounds.                                          *)
(***************************************************************************)
EXTENDS EndpointProtocol, SequenceTheorems, TLAPS

USE EndpointAssumption

-----------------------------------------------------------------------------
(* Type correctness                                                        *)

\* The clock cannot pass a deadline unnoticed: after the expiry check of a
\* tick, whatever negotiation the node holds has time left.  Without this
\* AdvanceClock could take the countdown below zero.
DeadlineAhead ==
  \A n \in Nodes :
    step[n] \in {"propose", "finish"} /\ IsNegotiating(n) =>
      tentative[n].left > 0

TypeInv == TypeOK /\ DeadlineAhead

\* A node that negotiates has a well-formed negotiation record.
LEMMA NegotiationType ==
  ASSUME TypeOK, NEW n \in Nodes
  PROVE  /\ IsNegotiating(n) => tentative[n] \in Negotiation
         /\ ~IsNegotiating(n) => tentative[n] = NoNegotiation
BY DEF TypeOK, IsNegotiating, Negotiation, NoNegotiation

\* begin_tentative_match records a well-formed negotiation.
LEMMA BeginType ==
  ASSUME TypeOK, NEW n \in Nodes, NEW p \in Nodes, NEW k \in 1..MaxEpoch,
         NEW b \in BOOLEAN, Begin(n, p, k, b)
  PROVE  /\ tentative' \in [Nodes -> Negotiation \cup {NoNegotiation}]
         /\ epoch' \in [Nodes -> 0..MaxEpoch]
         /\ tentative'[n].left > 0
         /\ tentative'[n].partner = p
         /\ \A o \in Nodes \ {n} : tentative'[o] = tentative[o]
<1>1. [partner |-> p, attempt |-> k, pending |-> b,
       left |-> ProposalTimeout] \in Negotiation
  BY DEF Negotiation
<1>2. tentative' \in [Nodes -> Negotiation \cup {NoNegotiation}]
  BY <1>1 DEF TypeOK, Begin
<1>3. epoch' \in [Nodes -> 0..MaxEpoch]
  BY DEF TypeOK, Begin
<1>4. QED
  BY <1>2, <1>3 DEF TypeOK, Begin

\* clear_tentative_match leaves no negotiation.
LEMMA ClearType ==
  ASSUME TypeOK, NEW n \in Nodes, Clear(n)
  PROVE  /\ tentative' \in [Nodes -> Negotiation \cup {NoNegotiation}]
         /\ epoch' \in [Nodes -> 0..MaxEpoch]
         /\ tentative'[n] = NoNegotiation
         /\ \A o \in Nodes \ {n} : tentative'[o] = tentative[o]
BY DEF TypeOK, Clear

\* Queue replaces the outbox of one node.
LEMMA QueueType ==
  ASSUME TypeOK, NEW n \in Nodes, NEW M \in SUBSET Message, Queue(n, M)
  PROVE  outbox' \in [Nodes -> SUBSET Message]
BY DEF TypeOK, Queue

LEMMA MsgType ==
  ASSUME NEW t \in MessageType, NEW n \in Nodes, NEW m \in Nodes,
         NEW k \in 1..MaxEpoch
  PROVE  Msg(t, n, m, k) \in Message
BY DEF Msg, Message

\* Taking the next message off a batch.
LEMMA ConsumeType ==
  ASSUME TypeOK, NEW n \in Nodes, batch[n] # <<>>
  PROVE  /\ Head(batch[n]) \in Message
         /\ Tail(batch[n]) \in Seq(Message)
<1>1. batch[n] \in Seq(Message)
  BY DEF TypeOK
<1>2. QED
  BY <1>1, HeadTailProperties

\* An answer to every offer is a set of messages.
LEMMA ReplyType ==
  ASSUME TypeOK, NEW n \in Nodes, NEW answer \in [Nodes -> MessageType],
         Reply(n, answer)
  PROVE  outbox' \in [Nodes -> SUBSET Message]
<1> DEFINE M == {Msg(answer[s], n, s, offers[n][s]) : s \in Offerers(n)}
<1>1. \A s \in Offerers(n) : Msg(answer[s], n, s, offers[n][s]) \in Message
  <2> TAKE s \in Offerers(n)
  <2>1. s \in Nodes /\ offers[n][s] \in 1..MaxEpoch
    BY DEF Offerers, TypeOK
  <2>2. QED
    BY <2>1, MsgType
<1>2. M \in SUBSET Message
  BY <1>1
<1>3. QED
  BY <1>2, QueueType DEF Reply

\* Every endpoint step keeps the type invariant.
LEMMA TypeStep ==
  ASSUME TypeInv, NEW n \in Nodes, NodeStep(n)
  PROVE  TypeInv'
<1> USE DEF TypeInv
<1>1. CASE Receive(n)
  BY <1>1 DEF Receive, local, GoTo, At, TypeOK, Step, DeadlineAhead,
              IsNegotiating
<1>2. CASE Send(n)
  <2>1. PICK m \in outbox[n] :
          /\ mailbox' = [mailbox EXCEPT ![m.to] = Append(@, m)]
          /\ Queue(n, outbox[n] \ {m})
    BY <1>2 DEF Send
  <2>2. m \in Message /\ m.to \in Nodes
    BY DEF TypeOK, Message
  <2>3. mailbox' \in [Nodes -> Seq(Message)]
    BY <2>1, <2>2 DEF TypeOK
  <2>4. outbox' \in [Nodes -> SUBSET Message]
    BY <2>1, QueueType DEF TypeOK
  <2>5. QED
    BY <1>2, <2>3, <2>4 DEF Send, negotiation, knowledge, lifecycle, TypeOK,
                            DeadlineAhead, IsNegotiating
<1>3. CASE ReceivePropose(n)
  <2> DEFINE m == Head(batch[n])
  <2>1. m \in Message /\ Tail(batch[n]) \in Seq(Message)
    BY <1>3, ConsumeType DEF ReceivePropose, Handling
  <2>2. m.from \in Nodes /\ m.attempt \in 0..MaxEpoch
    BY <2>1 DEF Message
  <2>3. offers' \in [Nodes -> [Nodes -> 0..MaxEpoch]]
    BY <1>3, <2>2 DEF ReceivePropose, TypeOK
  <2>4. batch' \in [Nodes -> Seq(Message)]
    BY <1>3, <2>1 DEF ReceivePropose, Consume, TypeOK
  <2>5. QED
    BY <1>3, <2>3, <2>4 DEF ReceivePropose, Consume, negotiation, knowledge,
                            TypeOK, DeadlineAhead, IsNegotiating
<1>4. CASE ReceiveAccept(n)
  <2> DEFINE m == Head(batch[n])
  <2>1. m \in Message /\ Tail(batch[n]) \in Seq(Message)
    BY <1>4, ConsumeType DEF ReceiveAccept, Handling
  <2>2. m.from \in Nodes /\ m.attempt \in 1..MaxEpoch
    BY <2>1 DEF Message
  <2>3. batch' \in [Nodes -> Seq(Message)]
    BY <1>4, <2>1 DEF ReceiveAccept, Consume, TypeOK
  <2>4. CASE /\ Begin(n, m.from, m.attempt, FALSE)
             /\ Queue(n, {Confirmation(n, m)})
    <3>1. outbox' \in [Nodes -> SUBSET Message]
      BY <2>2, <2>4, MsgType, QueueType DEF MessageType, Confirmation
    <3>2. QED
      BY <1>4, <2>2, <2>3, <2>4, <3>1, BeginType
         DEF ReceiveAccept, Handling, At, Consume, knowledge, TypeOK,
             DeadlineAhead, IsNegotiating
  <2>5. CASE UNCHANGED <<outbox, negotiation>>
    BY <1>4, <2>3, <2>5 DEF ReceiveAccept, Consume, negotiation, knowledge,
                            TypeOK, DeadlineAhead, IsNegotiating
  <2>6. QED
    BY <1>4, <2>4, <2>5 DEF ReceiveAccept
<1>5. CASE ReceiveReject(n)
  <2> DEFINE m == Head(batch[n])
  <2>1. m \in Message /\ Tail(batch[n]) \in Seq(Message)
    BY <1>5, ConsumeType DEF ReceiveReject, Handling
  <2>2. m.from \in Nodes
    BY <2>1 DEF Message
  <2>3. batch' \in [Nodes -> Seq(Message)]
    BY <1>5, <2>1 DEF ReceiveReject, Consume, TypeOK
  <2>4. unavailable' \in [Nodes -> SUBSET Nodes]
    <3>1. MarkUnavailable(n, m.from) \/ UNCHANGED unavailable
      BY <1>5 DEF ReceiveReject
    <3>2. CASE MarkUnavailable(n, m.from)
      BY <2>2, <3>2 DEF MarkUnavailable, TypeOK
    <3>3. CASE UNCHANGED unavailable
      BY <3>3 DEF TypeOK
    <3>4. QED
      BY <3>1, <3>2, <3>3
  <2>5. Clear(n) \/ UNCHANGED negotiation
    BY <1>5 DEF ReceiveReject
  <2>6. QED
    BY <1>5, <2>3, <2>4, <2>5, ClearType
       DEF ReceiveReject, Handling, At, Consume, negotiation, TypeOK,
           DeadlineAhead, IsNegotiating, NoNegotiation
<1>6. CASE ReceiveConfirm(n)
  <2> DEFINE m == Head(batch[n])
  <2>1. m \in Message /\ Tail(batch[n]) \in Seq(Message)
    BY <1>6, ConsumeType DEF ReceiveConfirm, Handling
  <2>2. m.from \in Nodes /\ m.attempt \in 1..MaxEpoch
    BY <2>1 DEF Message
  <2>3. batch' \in [Nodes -> Seq(Message)]
    BY <1>6, <2>1 DEF ReceiveConfirm, Consume, TypeOK
  <2>4. CASE /\ matchedTo' = [matchedTo EXCEPT ![n] = m.from]
             /\ Clear(n)
             /\ Queue(n, Announcements(n, m.from, m.attempt)
                         \cup Acknowledgement(n, m))
    <3>1. Announcements(n, m.from, m.attempt) \in SUBSET Message
      <4>1. \A o \in Neighbors(n) : Msg("MATCHED", n, o, m.attempt) \in Message
        BY <2>2, MsgType DEF MessageType, Neighbors
      <4>2. QED
        BY <4>1 DEF Announcements
    <3>2. Acknowledgement(n, m) \in SUBSET Message
      <4>1. Msg("CONFIRM_ACK", n, m.from, m.attempt) \in Message
        BY <2>2, MsgType DEF MessageType
      <4>2. QED
        BY <4>1 DEF Acknowledgement
    <3>3. outbox' \in [Nodes -> SUBSET Message]
      BY <2>4, <3>1, <3>2, QueueType
    <3>4. matchedTo' \in [Nodes -> Nodes \cup {None}]
      BY <2>2, <2>4 DEF TypeOK
    <3>5. step' = step
      BY <1>6 DEF ReceiveConfirm, Consume
    <3>6. DeadlineAhead'
      BY <2>4, <3>5, ClearType DEF DeadlineAhead, IsNegotiating, NoNegotiation
    <3>7. TypeOK'
      BY <1>6, <2>3, <2>4, <3>3, <3>4, ClearType
         DEF ReceiveConfirm, Consume, TypeOK
    <3>8. QED
      BY <3>6, <3>7
  <2>5. CASE UNCHANGED <<outbox, negotiation, matchedTo>>
    BY <1>6, <2>3, <2>5 DEF ReceiveConfirm, Consume, negotiation, TypeOK,
                            DeadlineAhead, IsNegotiating
  <2>6. QED
    BY <1>6, <2>4, <2>5 DEF ReceiveConfirm
<1>7. CASE ReceiveCancel(n)
  <2>1. Tail(batch[n]) \in Seq(Message)
    BY <1>7, ConsumeType DEF ReceiveCancel, Handling
  <2>2. batch' \in [Nodes -> Seq(Message)]
    BY <1>7, <2>1 DEF ReceiveCancel, Consume, TypeOK
  <2>3. Clear(n) \/ UNCHANGED negotiation
    BY <1>7 DEF ReceiveCancel
  <2>4. QED
    BY <1>7, <2>2, <2>3, ClearType
       DEF ReceiveCancel, Handling, At, Consume, negotiation, knowledge,
           TypeOK, DeadlineAhead, IsNegotiating, NoNegotiation
<1>8. CASE ReceiveMatched(n)
  <2> DEFINE m == Head(batch[n])
  <2>1. m \in Message /\ Tail(batch[n]) \in Seq(Message)
    BY <1>8, ConsumeType DEF ReceiveMatched, Handling
  <2>2. m.from \in Nodes
    BY <2>1 DEF Message
  <2>3. batch' \in [Nodes -> Seq(Message)]
    BY <1>8, <2>1 DEF ReceiveMatched, Consume, TypeOK
  <2>4. unavailable' \in [Nodes -> SUBSET Nodes]
    BY <1>8, <2>2 DEF ReceiveMatched, MarkUnavailable, TypeOK
  <2>5. QED
    BY <1>8, <2>3, <2>4 DEF ReceiveMatched, Consume, negotiation, TypeOK,
                            DeadlineAhead, IsNegotiating
<1>9. CASE Resolve(n)
  <2>1. ASSUME EndResolution(n), At(n, "handle")
        PROVE  /\ offers' \in [Nodes -> [Nodes -> 0..MaxEpoch]]
               /\ step' = [step EXCEPT ![n] = "expire"]
               /\ UNCHANGED <<mailbox, batch, matchedTo, unavailable,
                              finished, terminalUnmatched>>
    <3>1. NoOffers \in [Nodes -> 0..MaxEpoch]
      BY DEF NoOffers
    <3>2. QED
      BY <2>1, <3>1 DEF EndResolution, GoTo, knowledge, lifecycle, TypeOK
  <2>2. ASSUME outbox' \in [Nodes -> SUBSET Message], UNCHANGED negotiation,
               EndResolution(n), At(n, "handle")
        PROVE  TypeInv'
    <3>1. TypeOK'
      BY <2>1, <2>2 DEF negotiation, TypeOK, Step
    <3>2. DeadlineAhead'
      BY <2>1, <2>2 DEF negotiation, TypeOK, DeadlineAhead, IsNegotiating
    <3>3. QED
      BY <3>1, <3>2
  <2>3. CASE ResolveMatched(n)
    <3>1. [s \in Nodes |-> "REJECT_MATCHED"] \in [Nodes -> MessageType]
      BY DEF MessageType
    <3>2. outbox' \in [Nodes -> SUBSET Message]
      BY <2>3, <3>1, ReplyType DEF ResolveMatched
    <3>3. QED
      BY <2>2, <2>3, <3>2 DEF ResolveMatched, Resolving
  <2>4. CASE ResolveBusy(n)
    <3>1. [s \in Nodes |-> BusyAnswer(n, s)] \in [Nodes -> MessageType]
      BY DEF MessageType, BusyAnswer
    <3>2. outbox' \in [Nodes -> SUBSET Message]
      BY <2>4, <3>1, ReplyType DEF ResolveBusy
    <3>3. QED
      BY <2>2, <2>4, <3>2 DEF ResolveBusy, Resolving
  <2>5. CASE ResolveFree(n)
    <3>1. CASE UNCHANGED <<outbox, negotiation>>
      <4>1. outbox' \in [Nodes -> SUBSET Message]
        BY <3>1 DEF TypeOK
      <4>2. QED
        BY <2>2, <2>5, <3>1, <4>1 DEF ResolveFree, Resolving
    <3>2. CASE \E w \in Offerers(n) :
                 /\ Begin(n, w, offers[n][w], FALSE)
                 /\ Reply(n, [s \in Nodes |->
                      IF s = w THEN "ACCEPT" ELSE "REJECT"])
      <4>1. PICK w \in Offerers(n) :
                 /\ Begin(n, w, offers[n][w], FALSE)
                 /\ Reply(n, [s \in Nodes |->
                      IF s = w THEN "ACCEPT" ELSE "REJECT"])
        BY <3>2
      <4>2. w \in Nodes /\ offers[n][w] \in 1..MaxEpoch
        BY DEF Offerers, TypeOK
      <4>3. [s \in Nodes |-> IF s = w THEN "ACCEPT" ELSE "REJECT"]
              \in [Nodes -> MessageType]
        BY DEF MessageType
      <4>4. outbox' \in [Nodes -> SUBSET Message]
        BY <4>1, <4>3, ReplyType
      <4>5. EndResolution(n) /\ At(n, "handle")
        BY <2>5 DEF ResolveFree, Resolving
      <4>6. /\ tentative' \in [Nodes -> Negotiation \cup {NoNegotiation}]
            /\ epoch' \in [Nodes -> 0..MaxEpoch]
            /\ \A o \in Nodes \ {n} : tentative'[o] = tentative[o]
        BY <4>1, <4>2, BeginType
      <4>7. TypeOK'
        BY <2>1, <4>4, <4>5, <4>6 DEF TypeOK, Step
      <4>8. DeadlineAhead'
        BY <2>1, <4>5, <4>6 DEF TypeOK, DeadlineAhead, IsNegotiating
      <4>9. QED
        BY <4>7, <4>8
    <3>3. QED
      BY <2>5, <3>1, <3>2 DEF ResolveFree
  <2>6. QED
    BY <1>9, <2>3, <2>4, <2>5 DEF Resolve
<1>10. CASE Expire(n)
  <2>1. CASE /\ ExpireDue(n)
             /\ Clear(n)
             /\ Queue(n, {Msg("CANCEL", n, tentative[n].partner,
                              tentative[n].attempt)})
    <3>1. tentative[n].partner \in Nodes /\ tentative[n].attempt \in 1..MaxEpoch
      BY <2>1, NegotiationType DEF ExpireDue, Negotiation
    <3>2. outbox' \in [Nodes -> SUBSET Message]
      BY <2>1, <3>1, MsgType, QueueType DEF MessageType
    <3>3. step' = [step EXCEPT ![n] = "propose"]
      BY <1>10 DEF Expire, GoTo
    <3>4. TypeOK'
      BY <1>10, <2>1, <3>2, <3>3, ClearType
         DEF Expire, knowledge, lifecycle, TypeOK, Step
    <3>5. DeadlineAhead'
      BY <2>1, <3>3, ClearType
         DEF TypeOK, DeadlineAhead, IsNegotiating, NoNegotiation
    <3>6. QED
      BY <3>4, <3>5
  <2>2. CASE ~ExpireDue(n) /\ UNCHANGED <<outbox, negotiation>>
    <3>1. IsNegotiating(n) => tentative[n].left > 0
      BY <2>2, NegotiationType DEF ExpireDue, Negotiation
    <3>2. QED
      BY <1>10, <2>2, <3>1
         DEF Expire, GoTo, negotiation, knowledge, lifecycle, TypeOK, Step,
             DeadlineAhead, IsNegotiating
  <2>3. QED
    BY <1>10, <2>1, <2>2 DEF Expire
<1>11. CASE Propose(n)
  <2>1. CASE \E m \in Neighbors(n) :
               /\ MayPropose(n, m)
               /\ Begin(n, m, epoch[n] + 1, TRUE)
               /\ Queue(n, {Msg("PROPOSE", n, m, epoch[n] + 1)})
    <3>1. PICK m \in Neighbors(n) :
               /\ MayPropose(n, m)
               /\ Begin(n, m, epoch[n] + 1, TRUE)
               /\ Queue(n, {Msg("PROPOSE", n, m, epoch[n] + 1)})
      BY <2>1
    <3>2. m \in Nodes /\ epoch[n] + 1 \in 1..MaxEpoch
      BY <3>1 DEF Neighbors, MayPropose, TypeOK
    <3>3. outbox' \in [Nodes -> SUBSET Message]
      BY <3>1, <3>2, MsgType, QueueType DEF MessageType
    <3>4. QED
      BY <1>11, <3>1, <3>2, <3>3, BeginType
         DEF Propose, GoTo, knowledge, lifecycle, TypeOK, Step, DeadlineAhead,
             IsNegotiating
  <2>2. CASE UNCHANGED <<outbox, negotiation>>
    BY <1>11, <2>2 DEF Propose, At, GoTo, negotiation, knowledge, lifecycle,
                       TypeOK, Step, DeadlineAhead, IsNegotiating
  <2>3. QED
    BY <1>11, <2>1, <2>2 DEF Propose
<1>12. CASE Finish(n)
  BY <1>12 DEF Finish, GoTo, negotiation, knowledge, TypeOK, Step,
               DeadlineAhead, IsNegotiating
<1>13. CASE Continue(n)
  <2>1. IsNegotiating(n) => /\ tentative[n] \in Negotiation
                            /\ tentative[n].left > 0
    BY <1>13, NegotiationType DEF Continue, At, DeadlineAhead
  <2>2. tentative' \in [Nodes -> Negotiation \cup {NoNegotiation}]
    <3> DEFINE t == [tentative[n] EXCEPT !.left =
                       IF IsNegotiating(n) THEN @ - 1 ELSE @]
    <3>1. t \in Negotiation \cup {NoNegotiation}
      <4>1. CASE IsNegotiating(n)
        BY <2>1, <4>1 DEF Negotiation
      <4>2. CASE ~IsNegotiating(n)
        BY <4>2, NegotiationType DEF NoNegotiation
      <4>3. QED
        BY <4>1, <4>2
    <3>2. tentative' = [tentative EXCEPT ![n] = t]
      BY <1>13 DEF Continue, AdvanceClock
    <3>3. QED
      BY <3>1, <3>2 DEF TypeOK
  <2>3. QED
    BY <1>13, <2>2 DEF Continue, AdvanceClock, GoTo, knowledge, lifecycle,
                       TypeOK, Step, DeadlineAhead, IsNegotiating
<1>14. QED
  BY <1>1, <1>2, <1>3, <1>4, <1>5, <1>6, <1>7, <1>8, <1>9, <1>10, <1>11,
     <1>12, <1>13 DEF NodeStep, Handle

\* Every variable keeps its type: in particular no countdown passes zero, no
\* attempt number leaves its range, and every queued message is well formed.
THEOREM TypeCorrect == Spec => []TypeOK
<1>1. Init => TypeInv
  <2>1. NoOffers \in [Nodes -> 0..MaxEpoch]
    BY DEF NoOffers
  <2>2. QED
    BY <2>1 DEF Init, TypeInv, TypeOK, Step, DeadlineAhead
<1>2. TypeInv /\ [Next]_vars => TypeInv'
  <2>1. TypeInv /\ UNCHANGED vars => TypeInv'
    BY DEF TypeInv, TypeOK, DeadlineAhead, IsNegotiating, vars
  <2>2. QED
    BY <2>1, TypeStep DEF Next, Terminated
<1>3. TypeInv => TypeOK
  BY DEF TypeInv
<1>4. QED
  BY <1>1, <1>2, <1>3, PTL DEF Spec

-----------------------------------------------------------------------------
(* The inductive invariant                                                 *)

\* The messages that may be on their way to n: they come over an edge, and
\* what they say of their sender's match is so.
SoundFor(n) ==
  {m \in Message :
     /\ m.to = n
     /\ n \in Neighbors(m.from)
     /\ m.type \in {"MATCHED", "REJECT_MATCHED"} => IsMatched(m.from)
     /\ m.type = "CONFIRM_ACK" => matchedTo[m.from] = n}

\* Queued, drained and still to be sent, every message is sound.
InFlightSound ==
  \A n \in Nodes :
    /\ mailbox[n] \in Seq(SoundFor(n))
    /\ batch[n] \in Seq(SoundFor(n))
    /\ \A m \in outbox[n] : m.from = n /\ m \in SoundFor(m.to)

\* A node negotiates, and collects offers, only along its edges.
AlongEdges ==
  \A n \in Nodes :
    /\ IsNegotiating(n) => tentative[n].partner \in Neighbors(n)
    /\ Offerers(n) \subseteq Neighbors(n)

IInv ==
  /\ TypeInv
  /\ MatchedHasNoNegotiation
  /\ InFlightSound
  /\ AlongEdges
  /\ UnavailableIsMatched
  /\ TerminalUnmatchedIsIsolated

\* The step in which a node commits.
Commit(n) ==
  LET m == Head(batch[n]) IN
  /\ Handling(n, {"CONFIRM", "CONFIRM_ACK"})
  /\ Holds(n, m.from, m.attempt)
  /\ matchedTo' = [matchedTo EXCEPT ![n] = m.from]
  /\ Clear(n)
  /\ Queue(n, Announcements(n, m.from, m.attempt) \cup Acknowledgement(n, m))

\* Edges have no direction.
LEMMA NeighborsSymmetric ==
  ASSUME NEW n \in Nodes, NEW m \in Neighbors(n)
  PROVE  m \in Nodes /\ n \in Neighbors(m)
<1>1. {n, m} = {m, n}
  OBVIOUS
<1>2. QED
  BY <1>1 DEF Neighbors

\* matched_to is written by _receive_confirm alone.
LEMMA OnlyCommitMatches ==
  ASSUME NEW n \in Nodes, NodeStep(n)
  PROVE  UNCHANGED matchedTo \/ Commit(n)
<1>1. CASE ReceiveConfirm(n)
  BY <1>1 DEF ReceiveConfirm, Commit
<1>2. CASE Resolve(n)
  BY <1>2 DEF Resolve, ResolveMatched, ResolveBusy, ResolveFree,
              EndResolution, knowledge
<1>3. CASE Receive(n) \/ Send(n) \/ Expire(n) \/ Propose(n) \/ Finish(n)
             \/ Continue(n)
  BY <1>3 DEF Receive, Send, Expire, Propose, Finish, Continue, local,
              knowledge
<1>4. CASE ReceivePropose(n) \/ ReceiveAccept(n) \/ ReceiveReject(n)
             \/ ReceiveCancel(n) \/ ReceiveMatched(n)
  BY <1>4 DEF ReceivePropose, ReceiveAccept, ReceiveReject, ReceiveCancel,
              ReceiveMatched, knowledge
<1>5. QED
  BY <1>1, <1>2, <1>3, <1>4 DEF NodeStep, Handle

\* A node commits only while it negotiates, and so never a second time.
LEMMA MatchFinalStep ==
  ASSUME TypeInv, MatchedHasNoNegotiation, NEW n \in Nodes, NodeStep(n)
  PROVE  \A o \in Nodes : IsMatched(o) => matchedTo'[o] = matchedTo[o]
<1>1. CASE UNCHANGED matchedTo
  BY <1>1
<1>2. CASE Commit(n)
  <2>1. Head(batch[n]) \in Message
    BY <1>2, ConsumeType DEF Commit, Handling, TypeInv
  <2>2. IsNegotiating(n)
    BY <1>2, <2>1 DEF Commit, Holds, IsNegotiating, Message
  <2>3. ~IsMatched(n)
    BY <2>2 DEF MatchedHasNoNegotiation
  <2>4. \A o \in Nodes \ {n} : matchedTo'[o] = matchedTo[o]
    BY <1>2 DEF Commit, TypeInv, TypeOK
  <2>5. QED
    BY <2>3, <2>4
<1>3. QED
  BY <1>1, <1>2, OnlyCommitMatches

\* So a sound message stays sound, however long it is on its way.
LEMMA SoundForever ==
  ASSUME TypeInv, NEW n \in Nodes,
         \A o \in Nodes : IsMatched(o) => matchedTo'[o] = matchedTo[o]
  PROVE  SoundFor(n) \subseteq SoundFor(n)'
<1> SUFFICES ASSUME NEW m \in SoundFor(n) PROVE m \in SoundFor(n)'
  OBVIOUS
<1>1. m \in Message /\ m.from \in Nodes
  BY DEF SoundFor, Message
<1>2. IsMatched(m.from) => IsMatched(m.from)'
  BY <1>1 DEF IsMatched
<1>3. m.type = "CONFIRM_ACK" => matchedTo'[m.from] = n
  BY <1>1 DEF SoundFor, IsMatched
<1>4. QED
  BY <1>1, <1>2, <1>3 DEF SoundFor

\* A mailbox only gains messages from an outbox, and is drained whole.
LEMMA MailboxStep ==
  ASSUME IInv, NEW n \in Nodes, NodeStep(n), NEW o \in Nodes
  PROVE  mailbox'[o] \in Seq(SoundFor(o)')
<1> USE DEF IInv
<1>1. SoundFor(o) \subseteq SoundFor(o)'
  BY MatchFinalStep, SoundForever
<1>2. SUFFICES mailbox'[o] \in Seq(SoundFor(o))
  BY <1>1, SeqMonotonic
<1>3. mailbox[o] \in Seq(SoundFor(o)) /\ mailbox \in [Nodes -> Seq(Message)]
  BY DEF InFlightSound, TypeInv, TypeOK
<1>4. CASE Receive(n)
  BY <1>3, <1>4 DEF Receive
<1>5. CASE Send(n)
  <2>1. PICK m \in outbox[n] : mailbox' = [mailbox EXCEPT ![m.to] = Append(@, m)]
    BY <1>5 DEF Send
  <2>2. m \in SoundFor(m.to)
    BY DEF InFlightSound
  <2>3. QED
    BY <1>3, <2>1, <2>2
<1>6. CASE Handle(n)
  BY <1>3, <1>6 DEF Handle, ReceivePropose, ReceiveAccept, ReceiveReject,
                    ReceiveConfirm, ReceiveCancel, ReceiveMatched, Consume
<1>7. CASE Resolve(n)
  BY <1>3, <1>7 DEF Resolve, ResolveMatched, ResolveBusy, ResolveFree,
                    EndResolution
<1>8. CASE Expire(n) \/ Propose(n) \/ Finish(n) \/ Continue(n)
  BY <1>3, <1>8 DEF Expire, Propose, Finish, Continue
<1>9. QED
  BY <1>4, <1>5, <1>6, <1>7, <1>8 DEF NodeStep

\* A batch is a drained mailbox, or what is left of one.
LEMMA BatchStep ==
  ASSUME IInv, NEW n \in Nodes, NodeStep(n), NEW o \in Nodes
  PROVE  batch'[o] \in Seq(SoundFor(o)')
<1> USE DEF IInv
<1>1. SoundFor(o) \subseteq SoundFor(o)'
  BY MatchFinalStep, SoundForever
<1>2. SUFFICES batch'[o] \in Seq(SoundFor(o))
  BY <1>1, SeqMonotonic
<1>3. /\ mailbox[o] \in Seq(SoundFor(o))
      /\ batch[o] \in Seq(SoundFor(o))
      /\ batch \in [Nodes -> Seq(Message)]
  BY DEF InFlightSound, TypeInv, TypeOK
<1>4. CASE Receive(n)
  BY <1>3, <1>4 DEF Receive
<1>5. CASE Handle(n)
  <2>1. batch[n] # <<>> /\ batch' = [batch EXCEPT ![n] = Tail(@)]
    BY <1>5 DEF Handle, ReceivePropose, ReceiveAccept, ReceiveReject,
                ReceiveConfirm, ReceiveCancel, ReceiveMatched, Handling, Consume
  <2>2. batch[o] # <<>> => Tail(batch[o]) \in Seq(SoundFor(o))
    BY <1>3, HeadTailProperties
  <2>3. QED
    BY <1>3, <2>1, <2>2
<1>6. CASE Resolve(n)
  BY <1>3, <1>6 DEF Resolve, ResolveMatched, ResolveBusy, ResolveFree,
                    EndResolution
<1>7. CASE Send(n) \/ Expire(n) \/ Propose(n) \/ Finish(n) \/ Continue(n)
  BY <1>3, <1>7 DEF Send, Expire, Propose, Finish, Continue
<1>8. QED
  BY <1>4, <1>5, <1>6, <1>7 DEF NodeStep

\* The next message of a batch is sound and comes from a neighbour.
LEMMA HeadSound ==
  ASSUME IInv, NEW n \in Nodes, batch[n] # <<>>
  PROVE  /\ Head(batch[n]) \in SoundFor(n)
         /\ Head(batch[n]) \in Message
         /\ Head(batch[n]).from \in Neighbors(n)
<1>1. Head(batch[n]) \in SoundFor(n)
  BY HeadTailProperties DEF IInv, InFlightSound
<1>2. Head(batch[n]) \in Message /\ Head(batch[n]).from \in Nodes
  BY <1>1 DEF SoundFor, Message
<1>3. n \in Neighbors(Head(batch[n]).from)
  BY <1>1 DEF SoundFor
<1>4. QED
  BY <1>1, <1>2, <1>3, NeighborsSymmetric

\* Negotiations and offers follow edges.
LEMMA AlongEdgesStep ==
  ASSUME IInv, NEW n \in Nodes, NodeStep(n)
  PROVE  AlongEdges'
<1> USE DEF IInv
<1>1. ASSUME NEW o \in Nodes
      PROVE  IsNegotiating(o)' => tentative'[o].partner \in Neighbors(o)
  <2>1. IsNegotiating(o) => tentative[o].partner \in Neighbors(o)
    BY DEF AlongEdges
  <2>2. CASE UNCHANGED tentative
    BY <2>1, <2>2 DEF IsNegotiating
  <2>3. CASE Clear(n)
    BY <2>1, <2>3, ClearType DEF TypeInv, IsNegotiating, NoNegotiation
  <2>4. CASE \E p \in Neighbors(n), k \in 1..MaxEpoch, b \in BOOLEAN :
               Begin(n, p, k, b)
    <3>1. PICK p \in Neighbors(n), k \in 1..MaxEpoch, b \in BOOLEAN :
            Begin(n, p, k, b)
      BY <2>4
    <3>2. /\ tentative'[n].partner = p
          /\ o # n => tentative'[o] = tentative[o]
      BY <3>1, BeginType DEF TypeInv, Neighbors
    <3>3. QED
      BY <2>1, <3>2 DEF IsNegotiating
  <2>5. CASE AdvanceClock(n)
    <3>1. tentative'[o].partner = tentative[o].partner
      <4>1. tentative[n] \in Negotiation \cup {NoNegotiation}
        BY DEF TypeInv, TypeOK
      <4>2. CASE o = n
        BY <2>5, <4>1, <4>2
           DEF TypeInv, TypeOK, AdvanceClock, Negotiation, NoNegotiation
      <4>3. CASE o # n
        BY <2>5, <4>3 DEF TypeInv, TypeOK, AdvanceClock
      <4>4. QED
        BY <4>2, <4>3
    <3>2. QED
      BY <2>1, <3>1 DEF IsNegotiating
  <2>6. CASE Receive(n) \/ Send(n) \/ Finish(n) \/ Continue(n)
    BY <2>2, <2>5, <2>6 DEF Receive, Send, Finish, Continue, local, negotiation
  <2>7. CASE Handle(n)
    <3>1. CASE ReceiveAccept(n)
      <4> DEFINE m == Head(batch[n])
      <4>1. m.from \in Neighbors(n) /\ m.attempt \in 1..MaxEpoch
        BY <3>1, HeadSound DEF ReceiveAccept, Handling, Message
      <4>2. Begin(n, m.from, m.attempt, FALSE) \/ UNCHANGED tentative
        BY <3>1 DEF ReceiveAccept, negotiation
      <4>3. QED
        BY <2>2, <2>4, <4>1, <4>2
    <3>2. CASE ReceivePropose(n) \/ ReceiveMatched(n)
      BY <2>2, <3>2 DEF ReceivePropose, ReceiveMatched, negotiation
    <3>3. CASE ReceiveReject(n) \/ ReceiveConfirm(n) \/ ReceiveCancel(n)
      BY <2>2, <2>3, <3>3 DEF ReceiveReject, ReceiveConfirm, ReceiveCancel,
                              negotiation
    <3>4. QED
      BY <2>7, <3>1, <3>2, <3>3 DEF Handle
  <2>8. CASE Resolve(n)
    <3>1. CASE ResolveFree(n) /\ ~UNCHANGED tentative
      <4>1. PICK w \in Offerers(n) : Begin(n, w, offers[n][w], FALSE)
        BY <3>1 DEF ResolveFree, negotiation
      <4>2. w \in Neighbors(n) /\ offers[n][w] \in 1..MaxEpoch
        BY SMTT(60) DEF AlongEdges, Offerers, TypeInv, TypeOK
      <4>3. QED
        BY <2>4, <4>1, <4>2
    <3>2. QED
      BY <2>2, <2>8, <3>1 DEF Resolve, ResolveMatched, ResolveBusy, negotiation
  <2>9. CASE Expire(n)
    BY <2>2, <2>3, <2>9 DEF Expire, negotiation
  <2>10. CASE Propose(n)
    <3>1. CASE UNCHANGED tentative
      BY <2>2, <3>1
    <3>2. CASE \E m \in Neighbors(n) : /\ MayPropose(n, m)
                                       /\ Begin(n, m, epoch[n] + 1, TRUE)
      <4>1. PICK m \in Neighbors(n) : /\ MayPropose(n, m)
                                      /\ Begin(n, m, epoch[n] + 1, TRUE)
        BY <3>2
      <4>2. epoch[n] + 1 \in 1..MaxEpoch
        BY <4>1 DEF MayPropose, TypeInv, TypeOK
      <4>3. QED
        BY <2>4, <4>1, <4>2
    <3>3. QED
      BY <2>10, <3>1, <3>2 DEF Propose, negotiation
  <2>11. QED
    BY <2>6, <2>7, <2>8, <2>9, <2>10 DEF NodeStep
<1>2. ASSUME NEW o \in Nodes
      PROVE  Offerers(o)' \subseteq Neighbors(o)
  <2>1. Offerers(o) \subseteq Neighbors(o)
    BY DEF AlongEdges
  <2>2. CASE UNCHANGED offers
    BY <2>1, <2>2 DEF Offerers
  <2>3. CASE ReceivePropose(n)
    <3> DEFINE m == Head(batch[n])
    <3>1. m.from \in Neighbors(n)
      BY <2>3, HeadSound DEF ReceivePropose, Handling
    <3>2. \A s \in Nodes : s # m.from => offers'[o][s] = offers[o][s]
      BY <2>3, <3>1 DEF ReceivePropose, TypeInv, TypeOK, Neighbors
    <3>3. o # n => offers'[o] = offers[o]
      BY <2>3 DEF ReceivePropose, TypeInv, TypeOK
    <3>4. QED
      BY <2>1, <3>1, <3>2, <3>3 DEF Offerers
  <2>4. CASE Resolve(n)
    <3>1. offers' = [offers EXCEPT ![n] = NoOffers]
      BY <2>4 DEF Resolve, ResolveMatched, ResolveBusy, ResolveFree,
                  EndResolution
    <3>2. QED
      BY <2>1, <3>1 DEF Offerers, NoOffers, TypeInv, TypeOK
  <2>5. CASE ReceiveAccept(n) \/ ReceiveReject(n) \/ ReceiveConfirm(n)
               \/ ReceiveCancel(n) \/ ReceiveMatched(n)
    BY <2>2, <2>5 DEF ReceiveAccept, ReceiveReject, ReceiveConfirm,
                      ReceiveCancel, ReceiveMatched
  <2>6. CASE Receive(n) \/ Send(n) \/ Expire(n) \/ Propose(n) \/ Finish(n)
               \/ Continue(n)
    BY <2>2, <2>6 DEF Receive, Send, Expire, Propose, Finish, Continue, local
  <2>7. QED
    BY <2>3, <2>4, <2>5, <2>6 DEF NodeStep, Handle
<1>3. QED
  BY <1>1, <1>2 DEF AlongEdges

\* What a handler may put into its outbox.
Sendable(n, M) ==
  \A m \in M :
    /\ m.from = n
    /\ m.to \in Neighbors(n)
    /\ m.type \in {"MATCHED", "REJECT_MATCHED"} => matchedTo'[n] # None
    /\ m.type = "CONFIRM_ACK" => matchedTo'[n] = m.to

OutboxSound ==
  \A o \in Nodes : \A m \in outbox[o] : m.from = o /\ m \in SoundFor(m.to)

LEMMA QueueSound ==
  ASSUME IInv, TypeInv', NEW n \in Nodes, NodeStep(n), NEW M, Queue(n, M),
         Sendable(n, M)
  PROVE  OutboxSound'
<1> SUFFICES ASSUME NEW o \in Nodes, NEW m \in outbox'[o]
             PROVE  m.from = o /\ m \in SoundFor(m.to)'
  BY DEF OutboxSound
<1>1. m \in Message
  BY DEF TypeInv, TypeOK
<1>2. CASE o = n
  <2>1. m \in M
    BY <1>2 DEF Queue, IInv, TypeInv, TypeOK
  <2>2. n \in Neighbors(m.to) /\ m.to \in Neighbors(m.from)
    BY <2>1, NeighborsSymmetric DEF Sendable
  <2>3. QED
    BY <1>1, <1>2, <2>1, <2>2 DEF Sendable, SoundFor, IsMatched
<1>3. CASE o # n
  <2>1. m \in outbox[o]
    BY <1>3 DEF Queue, IInv, TypeInv, TypeOK
  <2>2. m.from = o /\ m \in SoundFor(m.to) /\ m.to \in Nodes
    BY <1>1, <2>1 DEF IInv, InFlightSound, Message
  <2>3. SoundFor(m.to) \subseteq SoundFor(m.to)'
    BY <2>2, MatchFinalStep, SoundForever DEF IInv
  <2>4. QED
    BY <2>2, <2>3
<1>4. QED
  BY <1>2, <1>3

\* An answer to the offers goes to neighbours.
LEMMA ReplySendable ==
  ASSUME IInv, NEW n \in Nodes, NEW answer,
         \A s \in Nodes : \/ answer[s] \in {"ACCEPT", "REJECT"}
                          \/ answer[s] = "REJECT_MATCHED" /\ IsMatched(n),
         UNCHANGED matchedTo
  PROVE  Sendable(n, {Msg(answer[s], n, s, offers[n][s]) : s \in Offerers(n)})
<1> SUFFICES ASSUME NEW s \in Offerers(n)
             PROVE  Sendable(n, {Msg(answer[s], n, s, offers[n][s])})
  BY DEF Sendable
<1>1. s \in Nodes /\ s \in Neighbors(n)
  BY DEF Offerers, IInv, AlongEdges
<1>2. QED
  BY <1>1 DEF Sendable, Msg, IsMatched

\* Whatever is to be sent is sound.
LEMMA OutboxStep ==
  ASSUME IInv, NEW n \in Nodes, NodeStep(n)
  PROVE  OutboxSound'
<1> USE DEF IInv
<1>1. TypeInv'
  BY TypeStep
<1>2. ASSUME \A o \in Nodes : outbox'[o] \subseteq outbox[o]
      PROVE  OutboxSound'
  <2> SUFFICES ASSUME NEW o \in Nodes, NEW m \in outbox'[o]
               PROVE  m.from = o /\ m \in SoundFor(m.to)'
    BY DEF OutboxSound
  <2>1. m \in Message /\ m.from = o /\ m \in SoundFor(m.to)
    BY <1>2 DEF InFlightSound, TypeInv, TypeOK
  <2>2. SoundFor(m.to) \subseteq SoundFor(m.to)'
    BY <2>1, MatchFinalStep, SoundForever DEF Message
  <2>3. QED
    BY <2>1, <2>2
<1>3. CASE UNCHANGED outbox
  BY <1>2, <1>3
<1>4. CASE Send(n)
  BY <1>2, <1>4 DEF Send, Queue, TypeInv, TypeOK
<1>5. CASE ReceiveAccept(n)
  <2> DEFINE m == Head(batch[n])
  <2>1. m.from \in Neighbors(n)
    BY <1>5, HeadSound DEF ReceiveAccept, Handling
  <2>2. Sendable(n, {Confirmation(n, m)})
    BY <2>1 DEF Sendable, Confirmation, Msg
  <2>3. \/ Queue(n, {Confirmation(n, m)})
        \/ UNCHANGED outbox
    BY <1>5 DEF ReceiveAccept
  <2>4. QED
    BY <1>1, <1>3, <2>2, <2>3, QueueSound
<1>6. CASE ReceiveConfirm(n) /\ ~UNCHANGED outbox
  <2> DEFINE m == Head(batch[n])
             A == Announcements(n, m.from, m.attempt)
             K == Acknowledgement(n, m)
  <2>1. /\ batch[n] # <<>>
        /\ matchedTo' = [matchedTo EXCEPT ![n] = m.from]
        /\ Queue(n, A \cup K)
    BY <1>6 DEF ReceiveConfirm, Handling
  <2>2. m.from \in Neighbors(n) /\ m.from \in Nodes
    BY <2>1, HeadSound DEF Neighbors
  <2>3. matchedTo'[n] = m.from /\ m.from # None
    BY <2>1, <2>2 DEF TypeInv, TypeOK
  <2>4. Sendable(n, A)
    BY <2>3 DEF Sendable, Announcements, Msg
  <2>5. Sendable(n, K)
    BY <2>2, <2>3 DEF Sendable, Acknowledgement, Msg
  <2>6. Sendable(n, A \cup K)
    BY <2>4, <2>5 DEF Sendable
  <2>7. QED
    BY <1>1, <2>1, <2>6, QueueSound
<1>7. CASE Resolve(n)
  <2>1. UNCHANGED matchedTo
    BY <1>7 DEF Resolve, ResolveMatched, ResolveBusy, ResolveFree,
                EndResolution, knowledge
  <2>2. ASSUME NEW answer, Reply(n, answer),
               \A s \in Nodes :
                 \/ answer[s] \in {"ACCEPT", "REJECT"}
                 \/ answer[s] = "REJECT_MATCHED" /\ IsMatched(n)
        PROVE  OutboxSound'
    BY <1>1, <2>1, <2>2, ReplySendable, QueueSound DEF Reply
  <2>3. CASE ResolveMatched(n)
    <3> DEFINE answer == [s \in Nodes |-> "REJECT_MATCHED"]
    <3>1. Reply(n, answer) /\ IsMatched(n)
      BY <2>3 DEF ResolveMatched
    <3>2. \A s \in Nodes : answer[s] = "REJECT_MATCHED"
      OBVIOUS
    <3> HIDE DEF answer
    <3>3. QED
      BY <2>2, <3>1, <3>2
  <2>4. CASE ResolveBusy(n)
    <3> DEFINE answer == [s \in Nodes |-> BusyAnswer(n, s)]
    <3>1. Reply(n, answer)
      BY <2>4 DEF ResolveBusy
    <3>2. \A s \in Nodes : answer[s] \in {"ACCEPT", "REJECT"}
      BY DEF BusyAnswer
    <3> HIDE DEF answer
    <3>3. QED
      BY <2>2, <3>1, <3>2
  <2>5. CASE ResolveFree(n) /\ ~UNCHANGED outbox
    <3>1. PICK w \in Offerers(n) :
            Reply(n, [s \in Nodes |-> IF s = w THEN "ACCEPT" ELSE "REJECT"])
      BY <2>5 DEF ResolveFree
    <3> DEFINE answer == [s \in Nodes |-> IF s = w THEN "ACCEPT" ELSE "REJECT"]
    <3>2. Reply(n, answer)
      BY <3>1
    <3>3. \A s \in Nodes : answer[s] \in {"ACCEPT", "REJECT"}
      OBVIOUS
    <3> HIDE DEF answer
    <3>4. QED
      BY <2>2, <3>2, <3>3
  <2>6. QED
    BY <1>3, <1>7, <2>3, <2>4, <2>5 DEF Resolve
<1>8. CASE Expire(n) /\ ~UNCHANGED outbox
  <2> DEFINE M == {Msg("CANCEL", n, tentative[n].partner, tentative[n].attempt)}
  <2>1. Queue(n, M) /\ IsNegotiating(n)
    BY <1>8 DEF Expire, ExpireDue
  <2>2. Sendable(n, M)
    BY <2>1 DEF Sendable, Msg, AlongEdges
  <2>3. QED
    BY <1>1, <2>1, <2>2, QueueSound
<1>9. CASE Propose(n) /\ ~UNCHANGED outbox
  <2>1. PICK p \in Neighbors(n) :
          Queue(n, {Msg("PROPOSE", n, p, epoch[n] + 1)})
    BY <1>9 DEF Propose
  <2>2. Sendable(n, {Msg("PROPOSE", n, p, epoch[n] + 1)})
    BY DEF Sendable, Msg
  <2>3. QED
    BY <1>1, <2>1, <2>2, QueueSound
<1>10. CASE Receive(n) \/ ReceivePropose(n) \/ ReceiveReject(n)
              \/ ReceiveCancel(n) \/ ReceiveMatched(n) \/ Finish(n)
              \/ Continue(n)
  BY <1>3, <1>10 DEF Receive, ReceivePropose, ReceiveReject, ReceiveCancel,
                     ReceiveMatched, Finish, Continue, local
<1>11. QED
  BY <1>3, <1>4, <1>5, <1>6, <1>7, <1>8, <1>9, <1>10 DEF NodeStep, Handle

\* The negotiation of a committed node never starts anew.
LEMMA MatchedDoesNotBegin ==
  ASSUME IInv, NEW n \in Nodes, NodeStep(n), IsMatched(n)
  PROVE  UNCHANGED tentative \/ Clear(n) \/ AdvanceClock(n)
<1>1. CASE ReceiveAccept(n)
  <2>1. Head(batch[n]).from \in Nodes
    BY <1>1, HeadSound DEF ReceiveAccept, Handling, Neighbors
  <2>2. ~AnswersProposal(n, Head(batch[n]))
    BY <2>1 DEF AnswersProposal, Holds, IInv, MatchedHasNoNegotiation,
                IsNegotiating
  <2>3. QED
    BY <1>1, <2>2 DEF ReceiveAccept, negotiation
<1>2. CASE Handle(n) /\ ~ReceiveAccept(n)
  BY <1>2 DEF Handle, ReceivePropose, ReceiveReject, ReceiveConfirm,
              ReceiveCancel, ReceiveMatched, negotiation
<1>3. CASE Resolve(n)
  BY <1>3 DEF Resolve, ResolveMatched, ResolveBusy, ResolveFree, negotiation
<1>4. CASE Expire(n) \/ Propose(n)
  BY <1>4 DEF Expire, Propose, MayPropose, negotiation
<1>5. CASE Receive(n) \/ Send(n) \/ Finish(n) \/ Continue(n)
  BY <1>5 DEF Receive, Send, Finish, Continue, local, negotiation
<1>6. QED
  BY <1>1, <1>2, <1>3, <1>4, <1>5 DEF NodeStep

\* A node touches only its own negotiation.
LEMMA TentativeFrame ==
  ASSUME TypeInv, NEW n \in Nodes, NodeStep(n), NEW o \in Nodes \ {n}
  PROVE  tentative'[o] = tentative[o]
<1>1. CASE Handle(n)
  BY <1>1 DEF Handle, ReceivePropose, ReceiveAccept, ReceiveReject,
              ReceiveConfirm, ReceiveCancel, ReceiveMatched, negotiation,
              Begin, Clear, TypeInv, TypeOK
<1>2. CASE Resolve(n)
  BY <1>2 DEF Resolve, ResolveMatched, ResolveBusy, ResolveFree, negotiation,
              Begin, TypeInv, TypeOK
<1>3. CASE Expire(n) \/ Propose(n) \/ Continue(n)
  BY <1>3 DEF Expire, Propose, Continue, AdvanceClock, negotiation, Begin,
              Clear, TypeInv, TypeOK
<1>4. CASE Receive(n) \/ Send(n) \/ Finish(n)
  BY <1>4 DEF Receive, Send, Finish, local, negotiation
<1>5. QED
  BY <1>1, <1>2, <1>3, <1>4 DEF NodeStep

\* A node that commits gives its negotiation up in the same step.
LEMMA MatchedHasNoNegotiationStep ==
  ASSUME IInv, NEW n \in Nodes, NodeStep(n)
  PROVE  MatchedHasNoNegotiation'
<1> USE DEF IInv
<1> SUFFICES ASSUME NEW o \in Nodes, IsMatched(o)'
             PROVE  ~IsNegotiating(o)'
  BY DEF MatchedHasNoNegotiation
<1>1. CASE o # n
  <2>1. tentative'[o] = tentative[o]
    BY <1>1, TentativeFrame
  <2>2. matchedTo'[o] = matchedTo[o]
    <3>1. CASE Commit(n)
      BY <1>1, <3>1 DEF Commit, TypeInv, TypeOK
    <3>2. QED
      BY <3>1, OnlyCommitMatches
  <2>3. QED
    BY <2>1, <2>2 DEF MatchedHasNoNegotiation, IsMatched, IsNegotiating
<1>2. CASE o = n /\ Commit(n)
  BY <1>2, ClearType DEF Commit, TypeInv, IsNegotiating, NoNegotiation
<1>3. CASE o = n /\ UNCHANGED matchedTo
  <2>1. IsMatched(n) /\ ~IsNegotiating(n)
    BY <1>3 DEF MatchedHasNoNegotiation, IsMatched
  <2>2. CASE UNCHANGED tentative
    BY <1>3, <2>1, <2>2 DEF IsNegotiating
  <2>3. CASE Clear(n)
    BY <1>3, <2>3, ClearType DEF TypeInv, IsNegotiating, NoNegotiation
  <2>4. CASE AdvanceClock(n)
    <3>1. tentative[n] = NoNegotiation
      BY <2>1, NegotiationType DEF TypeInv
    <3>2. QED
      BY <1>3, <2>1, <2>4, <3>1
         DEF AdvanceClock, IsNegotiating, NoNegotiation, TypeInv, TypeOK
  <2>5. QED
    BY <2>1, <2>2, <2>3, <2>4, MatchedDoesNotBegin
<1>4. QED
  BY <1>1, <1>2, <1>3, OnlyCommitMatches

\* Eligibility is lost only on the word of a matched neighbour.
LEMMA UnavailableStep ==
  ASSUME IInv, NEW n \in Nodes, NodeStep(n)
  PROVE  UnavailableIsMatched'
<1> USE DEF IInv
<1> DEFINE m == Head(batch[n])
<1>1. \A o \in Nodes : IsMatched(o) => IsMatched(o)'
  BY MatchFinalStep DEF IsMatched
<1>2. CASE UNCHANGED unavailable
  BY <1>1, <1>2 DEF UnavailableIsMatched, TypeInv, TypeOK
<1>3. CASE MarkUnavailable(n, m.from) /\ batch[n] # <<>>
             /\ m.type \in {"MATCHED", "REJECT_MATCHED"}
  <2>1. IsMatched(m.from) /\ m.from \in Nodes
    BY <1>3, HeadSound DEF SoundFor, Neighbors
  <2>2. \A o \in Nodes : unavailable'[o] \subseteq unavailable[o] \cup {m.from}
    BY <1>3 DEF MarkUnavailable, TypeInv, TypeOK
  <2>3. \A o \in Nodes : unavailable[o] \subseteq Nodes
    BY DEF TypeInv, TypeOK
  <2>4. QED
    BY <1>1, <2>1, <2>2, <2>3 DEF UnavailableIsMatched
<1>4. CASE ReceiveReject(n) \/ ReceiveMatched(n)
  BY <1>2, <1>3, <1>4 DEF ReceiveReject, ReceiveMatched, Handling
<1>5. CASE ReceivePropose(n) \/ ReceiveAccept(n) \/ ReceiveConfirm(n)
             \/ ReceiveCancel(n)
  BY <1>2, <1>5 DEF ReceivePropose, ReceiveAccept, ReceiveConfirm,
                    ReceiveCancel, knowledge
<1>6. CASE Resolve(n)
  BY <1>2, <1>6 DEF Resolve, ResolveMatched, ResolveBusy, ResolveFree,
                    EndResolution, knowledge
<1>7. CASE Receive(n) \/ Send(n) \/ Expire(n) \/ Propose(n) \/ Finish(n)
             \/ Continue(n)
  BY <1>2, <1>7 DEF Receive, Send, Expire, Propose, Finish, Continue, local,
                    knowledge
<1>8. QED
  BY <1>4, <1>5, <1>6, <1>7 DEF NodeStep, Handle

\* A node finishes unmatched only when every neighbour is unavailable.
LEMMA TerminalUnmatchedStep ==
  ASSUME IInv, NEW n \in Nodes, NodeStep(n)
  PROVE  TerminalUnmatchedIsIsolated'
<1> USE DEF IInv
<1>1. \A o \in Nodes : IsMatched(o) => IsMatched(o)'
  BY MatchFinalStep DEF IsMatched
<1>2. CASE UNCHANGED terminalUnmatched
  BY <1>1, <1>2 DEF TerminalUnmatchedIsIsolated, Neighbors
<1>3. CASE Finish(n) /\ ~IsMatched(n)
  <2>1. Neighbors(n) \subseteq unavailable[n]
    BY <1>3 DEF Finish, CanQuiesce, Eligible
  <2>2. \A o \in Neighbors(n) : IsMatched(o)
    BY <2>1 DEF UnavailableIsMatched
  <2>3. terminalUnmatched' = terminalUnmatched \cup {n}
    BY <1>3 DEF Finish
  <2>4. QED
    BY <1>1, <2>2, <2>3 DEF TerminalUnmatchedIsIsolated, Neighbors
<1>4. CASE Finish(n) /\ IsMatched(n)
  BY <1>2, <1>4 DEF Finish
<1>5. CASE Handle(n)
  BY <1>2, <1>5 DEF Handle, ReceivePropose, ReceiveAccept, ReceiveReject,
                    ReceiveConfirm, ReceiveCancel, ReceiveMatched, Consume
<1>6. CASE Resolve(n)
  BY <1>2, <1>6 DEF Resolve, ResolveMatched, ResolveBusy, ResolveFree,
                    EndResolution, lifecycle
<1>7. CASE Receive(n) \/ Send(n) \/ Expire(n) \/ Propose(n) \/ Continue(n)
  BY <1>2, <1>7 DEF Receive, Send, Expire, Propose, Continue, local, lifecycle
<1>8. QED
  BY <1>3, <1>4, <1>5, <1>6, <1>7 DEF NodeStep

\* The invariant is inductive.
LEMMA IInvStep ==
  ASSUME IInv, [Next]_vars
  PROVE  IInv'
<1>1. CASE \E n \in Nodes : NodeStep(n)
  <2>1. PICK n \in Nodes : NodeStep(n)
    BY <1>1
  <2>2. InFlightSound'
    BY <2>1, MailboxStep, BatchStep, OutboxStep DEF InFlightSound, OutboxSound
  <2>3. QED
    BY <2>1, <2>2, TypeStep, MatchedHasNoNegotiationStep, AlongEdgesStep,
       UnavailableStep, TerminalUnmatchedStep DEF IInv
<1>2. CASE UNCHANGED vars
  BY <1>2 DEF vars, IInv, TypeInv, TypeOK, DeadlineAhead, IsNegotiating,
              MatchedHasNoNegotiation, IsMatched, InFlightSound, SoundFor,
              AlongEdges, Offerers, UnavailableIsMatched,
              TerminalUnmatchedIsIsolated
<1>3. QED
  BY <1>1, <1>2 DEF Next, Terminated

LEMMA IInvInit == Init => IInv
<1> SUFFICES ASSUME Init PROVE IInv
  OBVIOUS
<1>1. NoOffers \in [Nodes -> 0..MaxEpoch]
  BY DEF NoOffers
<1>2. TypeInv
  BY <1>1 DEF Init, TypeInv, TypeOK, Step, DeadlineAhead
<1>3. InFlightSound
  <2>1. \A n \in Nodes : <<>> \in Seq(SoundFor(n))
    BY EmptySeq
  <2>2. QED
    BY <2>1 DEF Init, InFlightSound
<1>4. AlongEdges
  BY DEF Init, AlongEdges, IsNegotiating, NoNegotiation, Offerers, NoOffers
<1>5. QED
  BY <1>2, <1>3, <1>4 DEF Init, IInv, MatchedHasNoNegotiation, IsMatched,
                         UnavailableIsMatched, TerminalUnmatchedIsIsolated

LEMMA Inductive == Spec => []IInv
BY IInvInit, IInvStep, PTL DEF Spec

-----------------------------------------------------------------------------
(* What follows                                                            *)

\* No endpoint writes off a neighbour that is still free.
THEOREM UnavailableCorrect == Spec => []UnavailableIsMatched
<1>1. IInv => UnavailableIsMatched
  BY DEF IInv
<1>2. QED
  BY <1>1, Inductive, PTL

\* No endpoint finishes unmatched while a neighbour is unmatched.
THEOREM TerminalUnmatchedCorrect == Spec => []TerminalUnmatchedIsIsolated
<1>1. IInv => TerminalUnmatchedIsIsolated
  BY DEF IInv
<1>2. QED
  BY <1>1, Inductive, PTL

\* No endpoint that has committed holds a negotiation.
THEOREM MatchedHasNoNegotiationCorrect == Spec => []MatchedHasNoNegotiation
<1>1. IInv => MatchedHasNoNegotiation
  BY DEF IInv
<1>2. QED
  BY <1>1, Inductive, PTL

\* An acknowledgement in a mailbox comes from the recipient's partner.
THEOREM AckCorrect == Spec => []AckIsFromPartner
<1>1. IInv => AckIsFromPartner
  <2> SUFFICES ASSUME IInv, NEW n \in Nodes, NEW i \in 1..Len(mailbox[n])
               PROVE  mailbox[n][i].type = "CONFIRM_ACK" =>
                        matchedTo[mailbox[n][i].from] = n
    BY DEF AckIsFromPartner
  <2>1. mailbox[n] \in Seq(SoundFor(n))
    BY DEF IInv, InFlightSound
  <2>2. mailbox[n][i] \in SoundFor(n)
    BY <2>1, ElementOfSeq
  <2>3. QED
    BY <2>2 DEF SoundFor
<1>2. QED
  BY <1>1, Inductive, PTL

\* A match is never undone or replaced.
THEOREM MatchIsFinalCorrect == Spec => MatchIsFinal
<1>1. IInv /\ [Next]_vars =>
        [\A n \in Nodes :
           matchedTo[n] # None => matchedTo'[n] = matchedTo[n]]_vars
  <2> SUFFICES ASSUME IInv, Next
               PROVE  [\A n \in Nodes :
                         matchedTo[n] # None =>
                           matchedTo'[n] = matchedTo[n]]_vars
    OBVIOUS
  <2>1. CASE \E n \in Nodes : NodeStep(n)
    BY <2>1, MatchFinalStep DEF IInv, IsMatched
  <2>2. QED
    BY <2>1 DEF Next, Terminated
<1>2. QED
  BY <1>1, Inductive, PTL DEF Spec, MatchIsFinal

-----------------------------------------------------------------------------
(* The endpoints implement the abstract matching                           *)

\* An edge has two ends, and both are nodes.
LEMMA EdgeEnds ==
  ASSUME NEW e \in Edges
  PROVE  \E u, v \in Nodes : u # v /\ e = {u, v}
BY TopologyAssumption

\* Both ends of a reported edge are matched, to each other.
LEMMA ReportedEnds ==
  ASSUME NEW e \in ReportedMatching, NEW n \in e
  PROVE  n \in Nodes /\ matchedTo[n] \in e \ {n} /\ IsMatched(n)
<1>1. e \in Edges /\ matchedTo[n] \in e \ {n}
  BY DEF ReportedMatching
<1>2. PICK u, v \in Nodes : u # v /\ e = {u, v}
  BY <1>1, EdgeEnds
<1>3. QED
  BY <1>1, <1>2 DEF IsMatched

\* A commit reports at most the edge to the node's new partner, and that
\* edge was free.
LEMMA CommitStep ==
  ASSUME IInv, NEW n \in Nodes, NodeStep(n), Commit(n)
  PROVE  UNCHANGED ReportedMatching \/ Abstract!Next
<1> DEFINE p == Head(batch[n]).from
           new == {n, p}
<1>1. p \in Neighbors(n) /\ p \in Nodes /\ new \in Edges
  BY HeadSound DEF Commit, Handling, Neighbors
<1>2. matchedTo'[n] = p /\ \A o \in Nodes \ {n} : matchedTo'[o] = matchedTo[o]
  BY DEF Commit, IInv, TypeInv, TypeOK
<1>3. ~IsMatched(n)
  <2>1. IsNegotiating(n)
    BY <1>1 DEF Commit, Holds, IsNegotiating
  <2>2. QED
    BY <2>1 DEF IInv, MatchedHasNoNegotiation
<1> HIDE DEF p
<1>4. \A f \in ReportedMatching : n \notin f
  BY <1>3, ReportedEnds
<1>5. ReportedMatching \subseteq ReportedMatching'
  <2> SUFFICES ASSUME NEW f \in ReportedMatching, NEW o \in f
               PROVE  f \in Edges /\ matchedTo'[o] \in f \ {o}
    BY DEF ReportedMatching
  <2>1. o \in Nodes \ {n} /\ matchedTo[o] \in f \ {o} /\ f \in Edges
    BY <1>4, ReportedEnds DEF ReportedMatching
  <2>2. QED
    BY <1>2, <2>1
<1>6. ASSUME NEW f \in ReportedMatching', f \notin ReportedMatching
      PROVE  f = new
  <2>1. f \in Edges /\ \A o \in f : matchedTo'[o] \in f \ {o}
    BY DEF ReportedMatching
  <2>2. PICK u, v \in Nodes : u # v /\ f = {u, v}
    BY <2>1, EdgeEnds
  <2>3. n \in f
    BY <1>2, <1>6, <2>1, <2>2 DEF ReportedMatching
  <2>4. p \in f \ {n}
    BY <1>2, <2>1, <2>3
  <2>5. QED
    BY <2>2, <2>3, <2>4
<1>7. CASE new \in ReportedMatching' /\ new \notin ReportedMatching
  <2>1. matchedTo[p] = n /\ p # n
    <3>1. matchedTo'[p] \in new \ {p} /\ matchedTo'[n] \in new \ {n}
      BY <1>7 DEF ReportedMatching
    <3>2. QED
      BY <1>1, <1>2, <3>1
  <2>2. \A f \in ReportedMatching : p \notin f
    <3> SUFFICES ASSUME NEW f \in ReportedMatching, p \in f PROVE FALSE
      OBVIOUS
    <3>1. n \in f
      BY <2>1, ReportedEnds
    <3>2. QED
      BY <1>4, <3>1
  <2>3. Abstract!Free(new)
    BY <1>4, <2>2 DEF Abstract!Free, Abstract!Covered
  <2>4. ReportedMatching' = ReportedMatching \cup {new}
    BY <1>5, <1>6, <1>7
  <2>5. QED
    BY <1>1, <2>3, <2>4 DEF Abstract!Next, Abstract!Match
<1>8. CASE new \notin ReportedMatching' \/ new \in ReportedMatching
  BY <1>5, <1>6, <1>8
<1>9. QED
  BY <1>7, <1>8

LEMMA AbstractInit == Init => Abstract!Init
<1> SUFFICES ASSUME Init, NEW e \in ReportedMatching PROVE FALSE
  BY DEF Abstract!Init
<1>1. PICK u, v \in Nodes : u # v /\ e = {u, v}
  BY EdgeEnds DEF ReportedMatching
<1>2. IsMatched(u)
  BY <1>1, ReportedEnds
<1>3. QED
  BY <1>1, <1>2 DEF Init, IsMatched

LEMMA AbstractStep ==
  ASSUME IInv, [Next]_vars
  PROVE  [Abstract!Next]_ReportedMatching
<1>1. CASE UNCHANGED matchedTo
  BY <1>1 DEF ReportedMatching
<1>2. CASE \E n \in Nodes : NodeStep(n)
  BY <1>1, <1>2, OnlyCommitMatches, CommitStep
<1>3. QED
  BY <1>1, <1>2 DEF Next, Terminated, vars

\* Refinement: whatever the threads do, what a run reports is built up edge
\* by edge, is a matching at every moment, and is never taken back.
THEOREM ImplementsMatchingCorrect == Spec => ImplementsMatching
BY AbstractInit, AbstractStep, Inductive, PTL
DEF Spec, ImplementsMatching, Abstract!Safe

\* Matching one free edge at a time, and nothing else, never covers a vertex
\* twice.
LEMMA AlwaysMatching == Abstract!Safe => []Abstract!IsMatching
<1>1. Abstract!Init => Abstract!IsMatching
  BY DEF Abstract!Init, Abstract!IsMatching
<1>2. Abstract!IsMatching /\ [Abstract!Next]_ReportedMatching
        => Abstract!IsMatching'
  <2> SUFFICES ASSUME Abstract!IsMatching, [Abstract!Next]_ReportedMatching
               PROVE  Abstract!IsMatching'
    OBVIOUS
  <2>1. CASE Abstract!Next
    <3>1. PICK e \in Edges : Abstract!Match(e)
      BY <2>1 DEF Abstract!Next
    <3>2. \A f \in ReportedMatching : f \cap e = {}
      BY <3>1 DEF Abstract!Match, Abstract!Free, Abstract!Covered
    <3>3. QED
      BY <3>1, <3>2 DEF Abstract!Match, Abstract!IsMatching
  <2>2. CASE UNCHANGED ReportedMatching
    BY <2>2 DEF Abstract!IsMatching
  <2>3. QED
    BY <2>1, <2>2
<1>3. QED
  BY <1>1, <1>2, PTL DEF Abstract!Safe

\* What _collect_results would return is a matching of the graph at every
\* moment: edges of the graph, no vertex twice.
THEOREM ReportedIsMatching == Spec => []Abstract!IsMatching
BY AlwaysMatching, ImplementsMatchingCorrect DEF ImplementsMatching

-----------------------------------------------------------------------------
(* Negotiations.  No endpoint commits to a proposal of its own that nobody *)
(* has accepted, and none leaves a partner that has committed to it but by *)
(* its own clock.                                                          *)
(*                                                                         *)
(* Both are about the messages that two endpoints still have for each      *)
(* other.  The messages for a node form one queue, what its tick has       *)
(* drained and then what its mailbox has received: a tick that drains the  *)
(* mailbox does not change it, a handler takes the first message, a send   *)
(* appends one.  What is in the sender's outbox comes behind all of them.  *)

-----------------------------------------------------------------------------
(* The messages on their way                                               *)

\* What n has still to handle, in the order in which it will.
Way(n) == batch[n] \o mailbox[n]

Travels(x) == \E i \in 1..Len(Way(x.to)) : Way(x.to)[i] = x

\* x has been queued by its sender and not handled by its recipient.
OnWay(x) == x \in outbox[x.from] \/ Travels(x)

\* y is handled after x, which has the same sender and recipient.
Behind(x, y) ==
  /\ x.to = y.to /\ x.from = y.from
  /\ \/ \E i, j \in 1..Len(Way(x.to)) :
          i < j /\ Way(x.to)[i] = x /\ Way(x.to)[j] = y
     \/ Travels(x) /\ y \in outbox[y.from]

\* Only a tick that handles messages has drained ones and offers; a handler
\* sends at most one message to each neighbour, so that the order in which
\* its messages go out is never that of two to the same node.
WayShape ==
  /\ \A n \in Nodes : step[n] # "handle" => batch[n] = <<>> /\ offers[n] = NoOffers
  /\ \A n \in Nodes : \A x, y \in outbox[n] : x.to = y.to => x = y

\* No node is its own neighbour.
LEMMA NotOwnNeighbor ==
  ASSUME NEW n \in Nodes
  PROVE  n \notin Neighbors(n)
<1> SUFFICES ASSUME {n, n} \in Edges PROVE FALSE
  BY DEF Neighbors
<1>1. PICK u, v \in Nodes : u # v /\ {n, n} = {u, v}
  BY EdgeEnds
<1>2. u \in {n, n} /\ v \in {n, n}
  BY <1>1
<1>3. QED
  BY <1>1, <1>2

\* Taking the head off a queue takes it off what is appended to the queue.
LEMMA ConcatTail ==
  ASSUME NEW S, NEW b \in Seq(S), NEW q \in Seq(S), b # <<>>
  PROVE  /\ b \o q \in Seq(S)
         /\ b \o q # <<>>
         /\ Head(b \o q) = Head(b)
         /\ Tail(b) \o q = Tail(b \o q)
<1>1. /\ Len(b \o q) = Len(b) + Len(q) /\ b \o q \in Seq(S)
      /\ \A i \in 1..Len(b \o q) : (b \o q)[i] = IF i <= Len(b) THEN b[i] ELSE q[i - Len(b)]
  BY ConcatProperties
<1>2. Len(b) > 0 /\ Len(b) \in Nat /\ Len(q) \in Nat
  BY EmptySeq, LenProperties
<1>3. b \o q # <<>>
  BY <1>1, <1>2
<1>4. Head(b \o q) = Head(b)
  BY <1>1, <1>2, <1>3, HeadTailProperties
<1>5. /\ Tail(b) \in Seq(S) /\ Len(Tail(b)) = Len(b) - 1
      /\ \A i \in 1..Len(Tail(b)) : Tail(b)[i] = b[i + 1]
  BY HeadTailProperties
<1>6. /\ Tail(b \o q) \in Seq(S) /\ Len(Tail(b \o q)) = Len(b) + Len(q) - 1
      /\ \A i \in 1..Len(Tail(b \o q)) : Tail(b \o q)[i] = (b \o q)[i + 1]
  BY <1>1, <1>3, HeadTailProperties
<1>7. /\ Tail(b) \o q \in Seq(S) /\ Len(Tail(b) \o q) = Len(b) - 1 + Len(q)
      /\ \A i \in 1..Len(Tail(b) \o q) :
           (Tail(b) \o q)[i] = IF i <= Len(b) - 1 THEN Tail(b)[i] ELSE q[i - (Len(b) - 1)]
  BY <1>5, ConcatProperties
<1>8. \A i \in 1..Len(Tail(b) \o q) : (Tail(b) \o q)[i] = Tail(b \o q)[i]
  BY <1>1, <1>2, <1>5, <1>6, <1>7
<1>9. Tail(b) \o q = Tail(b \o q)
  BY <1>6, <1>7, <1>8, SeqEqual
<1>10. QED
  BY <1>1, <1>3, <1>4, <1>9

\* Appending to the second of two queues appends to both.
LEMMA ConcatAppend ==
  ASSUME NEW S, NEW b \in Seq(S), NEW q \in Seq(S), NEW x \in S
  PROVE  b \o Append(q, x) = Append(b \o q, x)
<1>1. Append(q, x) = q \o <<x>> /\ <<x>> \in Seq(S)
  BY AppendIsConcat
<1>2. b \o (q \o <<x>>) = (b \o q) \o <<x>>
  BY <1>1, ConcatAssociative
<1>3. b \o q \in Seq(S)
  BY ConcatProperties
<1>4. QED
  BY <1>1, <1>2, <1>3, AppendIsConcat

USE DEF IInv

\* The way to a node is a queue of messages.
LEMMA WayType ==
  ASSUME IInv, NEW n \in Nodes
  PROVE  /\ batch[n] \in Seq(Message) /\ mailbox[n] \in Seq(Message)
         /\ Way(n) \in Seq(Message) /\ Len(Way(n)) \in Nat
         /\ \A i \in 1..Len(Way(n)) : Way(n)[i] \in Message
<1>1. batch[n] \in Seq(Message) /\ mailbox[n] \in Seq(Message)
  BY DEF TypeInv, TypeOK
<1>2. Way(n) \in Seq(Message)
  BY <1>1, ConcatProperties DEF Way
<1>3. QED
  BY <1>1, <1>2, LenProperties, ElementOfSeq

\* A message handler takes the first message off the way to n.
LEMMA WayHandle ==
  ASSUME IInv, NEW n \in Nodes, Handle(n)
  PROVE  /\ batch[n] # <<>> /\ Way(n) # <<>>
         /\ Head(Way(n)) = Head(batch[n])
         /\ Way(n)' = Tail(Way(n))
         /\ \A r \in Nodes \ {n} : Way(r)' = Way(r)
         /\ ~Send(n)
<1>1. /\ batch[n] # <<>> /\ outbox[n] = {}
      /\ batch' = [batch EXCEPT ![n] = Tail(@)]
      /\ mailbox' = mailbox
  BY DEF Handle, ReceivePropose, ReceiveAccept, ReceiveReject,
         ReceiveConfirm, ReceiveCancel, ReceiveMatched, Handling, At, Consume
<1>2. /\ batch'[n] = Tail(batch[n])
      /\ \A r \in Nodes \ {n} : batch'[r] = batch[r]
  BY <1>1 DEF TypeInv, TypeOK
<1>3. /\ batch[n] \o mailbox[n] # <<>>
      /\ Head(batch[n] \o mailbox[n]) = Head(batch[n])
      /\ Tail(batch[n]) \o mailbox[n] = Tail(batch[n] \o mailbox[n])
  <2>1. \A b, q \in Seq(Message) : b # <<>> =>
          /\ b \o q # <<>>
          /\ Head(b \o q) = Head(b)
          /\ Tail(b) \o q = Tail(b \o q)
    BY ConcatTail
  <2>2. QED
    BY <1>1, <2>1, WayType
<1>4. QED
  BY <1>1, <1>2, <1>3 DEF Way, Send

\* A send puts one message at the end of the way to its recipient.
LEMMA WaySend ==
  ASSUME IInv, NEW n \in Nodes, Send(n)
  PROVE  \E m \in outbox[n] :
           /\ m \in Message
           /\ outbox' = [outbox EXCEPT ![n] = @ \ {m}]
           /\ Way(m.to)' = Append(Way(m.to), m)
           /\ \A r \in Nodes \ {m.to} : Way(r)' = Way(r)
<1>1. PICK m \in outbox[n] :
        /\ mailbox' = [mailbox EXCEPT ![m.to] = Append(@, m)]
        /\ outbox' = [outbox EXCEPT ![n] = @ \ {m}]
        /\ batch' = batch
  BY DEF Send, Queue, TypeInv, TypeOK
<1>2. m \in Message /\ m.to \in Nodes
  BY DEF TypeInv, TypeOK, Message
<1>3. /\ mailbox'[m.to] = Append(mailbox[m.to], m)
      /\ \A r \in Nodes \ {m.to} : mailbox'[r] = mailbox[r]
  BY <1>1, <1>2 DEF TypeInv, TypeOK
<1>4. Way(m.to)' = Append(Way(m.to), m)
  <2>1. batch[m.to] \o Append(mailbox[m.to], m)
          = Append(batch[m.to] \o mailbox[m.to], m)
    <3>1. batch[m.to] \in Seq(Message) /\ mailbox[m.to] \in Seq(Message)
      BY <1>2, WayType
    <3>2. \A b, q \in Seq(Message) : b \o Append(q, m) = Append(b \o q, m)
      BY <1>2, ConcatAppend
    <3>3. QED
      BY <3>1, <3>2, Zenon
  <2>2. QED
    BY <1>1, <1>3, <2>1 DEF Way
<1>5. QED
  BY <1>1, <1>2, <1>3, <1>4 DEF Way

\* No other step moves a message.
LEMMA WayElse ==
  ASSUME IInv, WayShape, NEW n \in Nodes, NodeStep(n), ~Handle(n), ~Send(n),
         NEW r \in Nodes
  PROVE  Way(r)' = Way(r)
<1>1. CASE Receive(n)
  <2>1. /\ batch' = [batch EXCEPT ![n] = mailbox[n]]
        /\ mailbox' = [mailbox EXCEPT ![n] = <<>>]
        /\ batch[n] = <<>>
    BY <1>1 DEF Receive, At, WayShape
  <2>2. CASE r = n
    BY <2>1, <2>2, WayType, ConcatEmptySeq DEF Way, TypeInv, TypeOK
  <2>3. CASE r # n
    BY <2>1, <2>3 DEF Way, TypeInv, TypeOK
  <2>4. QED
    BY <2>2, <2>3
<1>2. CASE Resolve(n)
  BY <1>2 DEF Resolve, ResolveMatched, ResolveBusy, ResolveFree,
              EndResolution, Way
<1>3. CASE Expire(n) \/ Propose(n) \/ Finish(n) \/ Continue(n)
  BY <1>3 DEF Expire, Propose, Finish, Continue, Way
<1>4. QED
  BY <1>1, <1>2, <1>3 DEF NodeStep

\* What is in an outbox after a step was queued by it, unless it was a send.
LEMMA OutboxFrame ==
  ASSUME IInv, NEW n \in Nodes, NodeStep(n)
  PROVE  /\ \A o \in Nodes \ {n} : outbox'[o] = outbox[o]
         /\ ~Send(n) => outbox[n] = {}
<1>1. CASE Handle(n)
  BY <1>1 DEF Handle, ReceivePropose, ReceiveAccept, ReceiveReject,
              ReceiveConfirm, ReceiveCancel, ReceiveMatched, Handling, At,
              Queue, TypeInv, TypeOK
<1>2. CASE Resolve(n)
  BY <1>2 DEF Resolve, ResolveMatched, ResolveBusy, ResolveFree, Resolving,
              At, Reply, Queue, TypeInv, TypeOK
<1>3. CASE Expire(n) \/ Propose(n) \/ Continue(n) \/ Finish(n) \/ Receive(n)
  BY <1>3 DEF Expire, Propose, Continue, Finish, Receive, local, At, Queue,
              TypeInv, TypeOK
<1>4. CASE Send(n)
  BY <1>4 DEF Send, Queue, TypeInv, TypeOK
<1>5. QED
  BY <1>1, <1>2, <1>3, <1>4 DEF NodeStep

\* A message on its way was so before, unless the step queued it.
LEMMA OnWayStep ==
  ASSUME IInv, WayShape, NEW n \in Nodes, NodeStep(n), NEW x \in Message,
         OnWay(x)'
  PROVE  OnWay(x) \/ (x \in outbox'[n] /\ ~Send(n) /\ x.from = n)
<1> USE DEF OnWay
<1>0. x.to \in Nodes /\ x.from \in Nodes
  BY DEF Message
<1>1. CASE Handle(n)
  <2>1. Travels(x)' => Travels(x)
    <3> SUFFICES ASSUME Travels(x)', x.to = n PROVE Travels(x)
      BY <1>0, <1>1, WayHandle DEF Travels
    <3>1. Way(n)' = Tail(Way(n)) /\ Way(n) # <<>> /\ Way(n) \in Seq(Message)
      BY <1>1, WayHandle, WayType
    <3>2. PICK i \in 1..Len(Tail(Way(n))) : Tail(Way(n))[i] = x
      BY <3>1 DEF Travels
    <3>3. Way(n)[i + 1] = x /\ i + 1 \in 1..Len(Way(n))
      BY <3>1, <3>2, HeadTailProperties, LenProperties
    <3>4. QED
      BY <3>3 DEF Travels
  <2>2. QED
    BY <1>0, <1>1, <2>1, WayHandle, OutboxFrame
<1>2. CASE Send(n)
  <2>1. PICK m \in outbox[n] :
           /\ m \in Message
           /\ outbox' = [outbox EXCEPT ![n] = @ \ {m}]
           /\ Way(m.to)' = Append(Way(m.to), m)
           /\ \A r \in Nodes \ {m.to} : Way(r)' = Way(r)
    BY <1>2, WaySend
  <2>2. x \in outbox'[x.from] => x \in outbox[x.from]
    BY <1>0, <2>1 DEF TypeInv, TypeOK
  <2>3. Travels(x)' => Travels(x) \/ x = m
    <3> SUFFICES ASSUME Travels(x)', x.to = m.to, x # m PROVE Travels(x)
      BY <1>0, <2>1 DEF Travels
    <3>1. Way(m.to)' = Append(Way(m.to), m) /\ Way(m.to) \in Seq(Message)
      BY <1>0, <2>1, WayType
    <3>2. PICK i \in 1..Len(Append(Way(m.to), m)) : Append(Way(m.to), m)[i] = x
      BY <3>1 DEF Travels
    <3>3. Way(m.to)[i] = x /\ i \in 1..Len(Way(m.to))
      BY <2>1, <3>1, <3>2, AppendProperties, LenProperties
    <3>4. QED
      BY <3>3 DEF Travels
  <2>4. m.from = n
    BY DEF InFlightSound
  <2>5. QED
    BY <2>2, <2>3, <2>4
<1>3. CASE ~Handle(n) /\ ~Send(n)
  BY <1>0, <1>3, WayElse, OutboxFrame DEF Travels
<1>4. QED
  BY <1>1, <1>2, <1>3

\* Messages do not overtake each other: y is behind x since before, or the
\* step queued y while x was on its way.
LEMMA BehindStep ==
  ASSUME IInv, WayShape, NEW n \in Nodes, NodeStep(n),
         NEW x \in Message, NEW y \in Message, Behind(x, y)'
  PROVE  \/ Behind(x, y)
         \/ /\ OnWay(x) /\ y \in outbox'[n] /\ ~Send(n)
            /\ x.from = n /\ y.from = n /\ x.to = y.to
<1>0. x.to \in Nodes /\ x.from \in Nodes /\ y.from \in Nodes
  BY DEF Message
<1>1. CASE Handle(n)
  <2>1. ASSUME NEW i \in 1..Len(Tail(Way(n)))
        PROVE  i + 1 \in 1..Len(Way(n)) /\ Way(n)[i + 1] = Tail(Way(n))[i]
    BY <1>1, <2>1, WayHandle, WayType, HeadTailProperties, LenProperties
  <2>2. CASE Travels(x)' /\ y \in outbox'[y.from]
    <3>1. Travels(x)
      <4>1. CASE x.to = n
        <5>1. PICK i \in 1..Len(Tail(Way(n))) : Tail(Way(n))[i] = x
          BY <1>1, <2>2, <4>1, WayHandle DEF Travels
        <5>2. QED
          BY <2>1, <4>1, <5>1 DEF Travels
      <4>2. CASE x.to # n
        BY <1>0, <1>1, <2>2, <4>2, WayHandle DEF Travels
      <4>3. QED
        BY <4>1, <4>2
    <3>2. x.to = y.to /\ x.from = y.from
      BY DEF Behind
    <3>3. CASE y.from # n
      BY <1>0, <2>2, <3>1, <3>2, <3>3, OutboxFrame DEF Behind
    <3>4. QED
      BY <1>1, <2>2, <3>1, <3>2, <3>3, WayHandle DEF OnWay
  <2>3. CASE /\ x.to = y.to /\ x.from = y.from
             /\ \E i, j \in 1..Len(Way(x.to)') :
                  i < j /\ Way(x.to)'[i] = x /\ Way(x.to)'[j] = y
    <3>1. CASE x.to = n
      <4>1. PICK i, j \in 1..Len(Tail(Way(n))) :
              i < j /\ Tail(Way(n))[i] = x /\ Tail(Way(n))[j] = y
        BY <1>1, <2>3, <3>1, WayHandle
      <4>2. i + 1 < j + 1
        BY <4>1
      <4>3. QED
        BY <2>1, <2>3, <3>1, <4>1, <4>2 DEF Behind
    <3>2. CASE x.to # n
      BY <1>0, <1>1, <2>3, <3>2, WayHandle DEF Behind
    <3>3. QED
      BY <3>1, <3>2
  <2>4. QED
    BY <2>2, <2>3 DEF Behind
<1>2. CASE Send(n)
  <2>1. PICK m \in outbox[n] :
           /\ m \in Message
           /\ outbox' = [outbox EXCEPT ![n] = @ \ {m}]
           /\ Way(m.to)' = Append(Way(m.to), m)
           /\ \A r \in Nodes \ {m.to} : Way(r)' = Way(r)
    BY <1>2, WaySend
  <2>2. m.from = n /\ m.to \in Nodes
    BY <2>1 DEF InFlightSound, Message
  <2>3. \A z \in Message : z \in outbox'[z.from] => z \in outbox[z.from] /\ z # m
    BY <2>1, <2>2 DEF TypeInv, TypeOK, Message
  <2>4. ASSUME NEW i \in 1..Len(Way(m.to)')
        PROVE  \/ i \in 1..Len(Way(m.to)) /\ Way(m.to)'[i] = Way(m.to)[i]
               \/ i = Len(Way(m.to)) + 1 /\ Way(m.to)'[i] = m
    <3>1. Way(m.to) \in Seq(Message) /\ Len(Way(m.to)) \in Nat
      BY <2>2, WayType
    <3>2. QED
      BY <2>1, <2>4, <3>1, AppendProperties
  <2>5. CASE Travels(x)' /\ y \in outbox'[y.from]
    <3>1. x.to = y.to /\ x.from = y.from /\ y \in outbox[y.from] /\ y # m
      BY <2>3, <2>5 DEF Behind
    <3>2. x # m
      BY <2>1, <2>2, <3>1 DEF WayShape
    <3>3. Travels(x)
      BY <1>0, <2>1, <2>4, <2>5, <3>2 DEF Travels
    <3>4. QED
      BY <3>1, <3>3 DEF Behind
  <2>6. CASE /\ x.to = y.to /\ x.from = y.from
             /\ \E i, j \in 1..Len(Way(x.to)') :
                  i < j /\ Way(x.to)'[i] = x /\ Way(x.to)'[j] = y
    <3>1. CASE x.to = m.to
      <4>1. PICK i, j \in 1..Len(Way(m.to)') :
              i < j /\ Way(m.to)'[i] = x /\ Way(m.to)'[j] = y
        BY <2>6, <3>1
      <4>2. Len(Way(m.to)) \in Nat /\ Len(Way(m.to)') = Len(Way(m.to)) + 1
        BY <2>1, <2>2, WayType, AppendProperties
      <4>3. i \in 1..Len(Way(m.to)) /\ Way(m.to)[i] = x
        BY <2>4, <4>1, <4>2
      <4>4. CASE j \in 1..Len(Way(m.to)) /\ Way(m.to)'[j] = Way(m.to)[j]
        BY <2>6, <3>1, <4>1, <4>3, <4>4 DEF Behind
      <4>5. CASE y = m
        BY <2>2, <2>6, <3>1, <4>3, <4>5 DEF Behind, Travels
      <4>6. QED
        BY <2>4, <4>1, <4>4, <4>5
    <3>2. CASE x.to # m.to
      BY <1>0, <2>1, <2>6, <3>2 DEF Behind
    <3>3. QED
      BY <3>1, <3>2
  <2>7. QED
    BY <2>5, <2>6 DEF Behind
<1>3. CASE ~Handle(n) /\ ~Send(n)
  <2>1. \A r \in Nodes : Way(r)' = Way(r)
    BY <1>3, WayElse
  <2>2. Travels(x)' = Travels(x)
    BY <1>0, <2>1 DEF Travels
  <2>3. CASE y.from # n
    BY <1>0, <2>1, <2>2, <2>3, OutboxFrame DEF Behind
  <2>4. CASE y.from = n
    BY <1>0, <1>3, <2>1, <2>2, <2>4 DEF Behind, OnWay
  <2>5. QED
    BY <2>3, <2>4
<1>4. QED
  BY <1>1, <1>2, <1>3

\* The message handled was on its way, and what is still on its way from the
\* same sender is behind it.
LEMMA Handled ==
  ASSUME IInv, WayShape, NEW n \in Nodes, Handle(n)
  PROVE  /\ OnWay(Head(batch[n]))
         /\ \A y \in Message :
              OnWay(y)' /\ y.to = n /\ y.from = Head(batch[n]).from
                => Behind(Head(batch[n]), y)
<1> DEFINE h == Head(batch[n])
<1>1. /\ batch[n] # <<>> /\ Way(n) # <<>> /\ Way(n) \in Seq(Message)
      /\ h = Head(Way(n)) /\ Way(n)' = Tail(Way(n))
  BY WayHandle, WayType
<1>2. h \in Message /\ h.to = n /\ h.from \in Neighbors(n) /\ h.from \in Nodes
  BY <1>1, HeadSound DEF SoundFor, Neighbors
<1>3. h.from # n
  BY <1>2, NotOwnNeighbor
<1>4. 1 \in 1..Len(Way(n)) /\ Way(n)[1] = h
  BY <1>1, EmptySeq, LenProperties
<1>5. Travels(h)
  BY <1>2, <1>4 DEF Travels
<1>6. ASSUME NEW y \in Message, OnWay(y)', y.to = n, y.from = h.from
      PROVE  Behind(h, y)
  <2>1. CASE y \in outbox'[y.from]
    <3>1. y \in outbox[y.from]
      BY <1>2, <1>3, <1>6, <2>1, OutboxFrame DEF NodeStep
    <3>2. QED
      BY <1>2, <1>5, <1>6, <3>1 DEF Behind
  <2>2. CASE Travels(y)'
    <3>1. PICK i \in 1..Len(Tail(Way(n))) : Tail(Way(n))[i] = y
      BY <1>1, <1>6, <2>2 DEF Travels
    <3>2. i + 1 \in 1..Len(Way(n)) /\ Way(n)[i + 1] = y /\ 1 < i + 1
      BY <1>1, <3>1, HeadTailProperties, LenProperties
    <3>3. QED
      BY <1>2, <1>4, <1>6, <3>2 DEF Behind
  <2>3. QED
    BY <1>6, <2>1, <2>2 DEF OnWay
<1>7. QED
  BY <1>5, <1>6 DEF OnWay

-----------------------------------------------------------------------------
(* What a step may do                                                      *)

\* A proposer that waits for an answer; an endpoint that waits for a commitment.
Asks(n, m, k) == Holds(n, m, k) /\ tentative[n].pending
Waits(n, m, k) == Holds(n, m, k) /\ ~tentative[n].pending

\* A thread writes nobody else's local state.
LEMMA LocalFrame ==
  ASSUME IInv, NEW n \in Nodes, NodeStep(n), NEW o \in Nodes \ {n}
  PROVE  /\ tentative'[o] = tentative[o] /\ epoch'[o] = epoch[o]
         /\ offers'[o] = offers[o] /\ matchedTo'[o] = matchedTo[o]
         /\ step'[o] = step[o] /\ batch'[o] = batch[o]
<1>1. tentative'[o] = tentative[o]
  BY TentativeFrame
<1>2. matchedTo'[o] = matchedTo[o]
  <2>1. CASE Commit(n)
    BY <2>1 DEF Commit, TypeInv, TypeOK
  <2>2. QED
    BY <2>1, OnlyCommitMatches
<1>3. epoch'[o] = epoch[o] /\ offers'[o] = offers[o]
  <2>1. CASE Handle(n)
    BY <2>1 DEF Handle, ReceivePropose, ReceiveAccept, ReceiveReject,
                ReceiveConfirm, ReceiveCancel, ReceiveMatched, negotiation,
                Begin, Clear, TypeInv, TypeOK
  <2>2. CASE Resolve(n)
    BY <2>2 DEF Resolve, ResolveMatched, ResolveBusy, ResolveFree, negotiation,
                EndResolution, Begin, TypeInv, TypeOK
  <2>3. CASE Expire(n) \/ Propose(n) \/ Continue(n)
    BY <2>3 DEF Expire, Propose, Continue, negotiation, Begin, Clear, TypeInv,
                TypeOK
  <2>4. CASE Receive(n) \/ Send(n) \/ Finish(n)
    BY <2>4 DEF Receive, Send, Finish, local, negotiation
  <2>5. QED
    BY <2>1, <2>2, <2>3, <2>4 DEF NodeStep
<1>4. step'[o] = step[o] /\ batch'[o] = batch[o]
  <2>1. CASE Handle(n)
    BY <2>1 DEF Handle, ReceivePropose, ReceiveAccept, ReceiveReject,
                ReceiveConfirm, ReceiveCancel, ReceiveMatched, Consume,
                TypeInv, TypeOK
  <2>2. CASE Resolve(n)
    BY <2>2 DEF Resolve, ResolveMatched, ResolveBusy, ResolveFree,
                EndResolution, GoTo, TypeInv, TypeOK
  <2>3. CASE Expire(n) \/ Propose(n) \/ Continue(n) \/ Receive(n) \/ Send(n)
               \/ Finish(n)
    BY <2>3 DEF Expire, Propose, Continue, Receive, Send, Finish, GoTo,
                TypeInv, TypeOK
  <2>4. QED
    BY <2>1, <2>2, <2>3 DEF NodeStep
<1>5. QED
  BY <1>1, <1>2, <1>3, <1>4

\* What may become of the acting node's own negotiation: it goes on,
Keeps(n) ==
  /\ tentative'[n].partner = tentative[n].partner
  /\ tentative'[n].attempt = tentative[n].attempt
  /\ tentative'[n].pending = tentative[n].pending
  /\ tentative'[n].left = tentative[n].left \/ Continue(n)
  /\ epoch'[n] = epoch[n]

\* its proposal has been accepted,
Confirms(n) ==
  LET h == Head(batch[n]) IN
  /\ Handle(n)
  /\ h.type = "ACCEPT" /\ Asks(n, h.from, h.attempt)
  /\ Begin(n, h.from, h.attempt, FALSE)

\* it is refused or cancelled,
Refused(n) ==
  LET h == Head(batch[n]) IN
  /\ Handle(n)
  /\ h.type \in {"REJECT", "REJECT_MATCHED", "CANCEL"}
  /\ Holds(n, h.from, h.attempt)
  /\ Clear(n)

\* its deadline passes,
Expires(n) ==
  /\ step[n] = "expire" /\ IsNegotiating(n) /\ tentative[n].left = 0
  /\ Clear(n)

\* it begins with an offer, or
Accepts(n) ==
  /\ Resolve(n) /\ ~IsMatched(n) /\ ~IsNegotiating(n)
  /\ \E w \in Offerers(n) : Begin(n, w, offers[n][w], FALSE)

\* with a proposal.
Proposes(n) ==
  /\ Propose(n) /\ ~IsMatched(n) /\ ~IsNegotiating(n)
  /\ epoch[n] + 1 \in 1..MaxEpoch
  /\ \E m \in Neighbors(n) : Begin(n, m, epoch[n] + 1, TRUE)

\* A step treats the acting node's own negotiation in one of these ways.
LEMMA NegotiationStep ==
  ASSUME IInv, NEW n \in Nodes, NodeStep(n)
  PROVE  \/ Keeps(n) \/ Confirms(n) \/ Refused(n) \/ Commit(n) \/ Expires(n)
         \/ Accepts(n) \/ Proposes(n)
<1>0. ASSUME UNCHANGED negotiation PROVE Keeps(n)
  BY <1>0 DEF negotiation, Keeps
<1>1. CASE ReceivePropose(n) \/ ReceiveMatched(n)
  BY <1>0, <1>1 DEF ReceivePropose, ReceiveMatched
<1>2. CASE ReceiveAccept(n)
  BY <1>0, <1>2 DEF ReceiveAccept, Handling, AnswersProposal, Asks, Confirms,
                    Handle
<1>3. CASE ReceiveReject(n) \/ ReceiveCancel(n)
  BY <1>0, <1>3 DEF ReceiveReject, ReceiveCancel, Handling, Refused, Handle
<1>4. CASE ReceiveConfirm(n)
  BY <1>0, <1>4 DEF ReceiveConfirm, Commit
<1>5. CASE Resolve(n)
  BY <1>0, <1>5 DEF Resolve, ResolveMatched, ResolveBusy, ResolveFree, Accepts
<1>6. CASE Expire(n)
  <2>1. CASE UNCHANGED negotiation
    BY <1>0, <2>1
  <2>2. CASE ExpireDue(n) /\ Clear(n)
    <3>1. tentative[n].left \in Nat
      BY <2>2, NegotiationType DEF ExpireDue, Negotiation, TypeInv
    <3>2. QED
      BY <1>6, <2>2, <3>1 DEF Expire, At, ExpireDue, Expires
  <2>3. QED
    BY <1>6, <2>1, <2>2 DEF Expire
<1>7. CASE Propose(n)
  <2>1. CASE UNCHANGED negotiation
    BY <1>0, <2>1
  <2>2. CASE \E m \in Neighbors(n) : /\ MayPropose(n, m)
                                     /\ Begin(n, m, epoch[n] + 1, TRUE)
    <3>1. PICK m \in Neighbors(n) : /\ MayPropose(n, m)
                                    /\ Begin(n, m, epoch[n] + 1, TRUE)
      BY <2>2
    <3>2. epoch[n] \in 0..MaxEpoch
      BY DEF TypeInv, TypeOK
    <3>3. epoch[n] + 1 \in 1..MaxEpoch /\ ~IsMatched(n) /\ ~IsNegotiating(n)
      BY <3>1, <3>2 DEF MayPropose
    <3>4. QED
      BY <1>7, <3>1, <3>3 DEF Proposes
  <2>3. QED
    BY <1>7, <2>1, <2>2 DEF Propose
<1>8. CASE Continue(n)
  <2>1. tentative[n] \in Negotiation \cup {NoNegotiation}
    BY DEF TypeInv, TypeOK
  <2>2. QED
    BY <1>8, <2>1 DEF Continue, AdvanceClock, Keeps, TypeInv, TypeOK,
                      Negotiation, NoNegotiation
<1>9. CASE Receive(n) \/ Send(n) \/ Finish(n)
  BY <1>0, <1>9 DEF Receive, Send, Finish, local, negotiation
<1>10. QED
  BY <1>1, <1>2, <1>3, <1>4, <1>5, <1>6, <1>7, <1>8, <1>9 DEF NodeStep, Handle

\* What an offer waiting for its answer was, and becomes.
LEMMA OffersStep ==
  ASSUME IInv, NEW n \in Nodes, NodeStep(n), NEW m \in Nodes
  PROVE  \/ offers'[n][m] = offers[n][m]
         \/ offers'[n][m] = 0 /\ Resolve(n)
         \/ /\ Handle(n) /\ Head(batch[n]).type = "PROPOSE"
            /\ Head(batch[n]).from = m
            /\ offers'[n][m] = Head(batch[n]).attempt
<1>1. CASE ReceivePropose(n)
  BY <1>1 DEF ReceivePropose, Handling, Handle, TypeInv, TypeOK
<1>2. CASE Resolve(n)
  <2>1. offers' = [offers EXCEPT ![n] = NoOffers]
    BY <1>2 DEF Resolve, ResolveMatched, ResolveBusy, ResolveFree, EndResolution
  <2>2. offers'[n][m] = 0
    BY <2>1 DEF NoOffers, TypeInv, TypeOK
  <2>3. QED
    BY <1>2, <2>2
<1>3. CASE ReceiveAccept(n) \/ ReceiveReject(n) \/ ReceiveConfirm(n)
             \/ ReceiveCancel(n) \/ ReceiveMatched(n)
  BY <1>3 DEF ReceiveAccept, ReceiveReject, ReceiveConfirm, ReceiveCancel,
              ReceiveMatched
<1>4. CASE Receive(n) \/ Send(n) \/ Expire(n) \/ Propose(n) \/ Finish(n)
             \/ Continue(n)
  BY <1>4 DEF Receive, Send, Expire, Propose, Finish, Continue, local
<1>5. QED
  BY <1>1, <1>2, <1>3, <1>4 DEF NodeStep, Handle

\* Batches and offers are used up before the deadlines are looked at.
LEMMA WayShapeStep ==
  ASSUME IInv, WayShape, NEW n \in Nodes, NodeStep(n)
  PROVE  WayShape'
<1>1. ASSUME NEW o \in Nodes, step'[o] # "handle"
      PROVE  batch'[o] = <<>> /\ offers'[o] = NoOffers
  <2>1. CASE o # n
    BY <1>1, <2>1, LocalFrame DEF WayShape
  <2>2. CASE o = n /\ Handle(n)
    BY <1>1, <2>2 DEF Handle, ReceivePropose, ReceiveAccept, ReceiveReject,
                  ReceiveConfirm, ReceiveCancel, ReceiveMatched, Handling, At,
                  Consume
  <2>3. CASE o = n /\ Resolve(n)
    BY <2>3 DEF Resolve, ResolveMatched, ResolveBusy, ResolveFree, Resolving,
                EndResolution, TypeInv, TypeOK
  <2>4. CASE o = n /\ Receive(n)
    BY <1>1, <2>4 DEF Receive, GoTo, TypeInv, TypeOK
  <2>5. CASE o = n /\ (Expire(n) \/ Propose(n) \/ Finish(n) \/ Continue(n))
    BY <2>5 DEF Expire, Propose, Finish, Continue, At, WayShape
  <2>6. CASE o = n /\ Send(n)
    BY <1>1, <2>6 DEF Send, WayShape
  <2>7. QED
    BY <2>1, <2>2, <2>3, <2>4, <2>5, <2>6 DEF NodeStep
<1>2. ASSUME NEW o \in Nodes, NEW x \in outbox'[o], NEW y \in outbox'[o],
             x.to = y.to
      PROVE  x = y
  <2>1. CASE o # n
    BY <1>2, <2>1, OutboxFrame DEF WayShape
  <2>2. CASE outbox'[n] \subseteq outbox[n] /\ o = n
    BY <1>2, <2>2 DEF WayShape
  <2>3. CASE o = n /\ \E m : outbox'[n] = {m}
    BY <2>3
  <2>4. ASSUME NEW answer, Reply(n, answer), o = n
        PROVE  x = y
    <3>1. outbox'[n] = {Msg(answer[s], n, s, offers[n][s]) : s \in Offerers(n)}
      BY <2>4 DEF Reply, Queue, TypeInv, TypeOK
    <3>2. PICK s \in Offerers(n) : x = Msg(answer[s], n, s, offers[n][s])
      BY <2>4, <3>1
    <3>3. PICK t \in Offerers(n) : y = Msg(answer[t], n, t, offers[n][t])
      BY <2>4, <3>1
    <3>4. QED
      BY <1>2, <3>2, <3>3 DEF Msg
  <2>5. CASE Commit(n) /\ o = n
    <3> DEFINE h == Head(batch[n])
    <3>1. outbox'[n] = Announcements(n, h.from, h.attempt) \cup Acknowledgement(n, h)
      BY <2>5 DEF Commit, Queue, TypeInv, TypeOK
    <3>2. \A z \in Announcements(n, h.from, h.attempt) :
            z.to # h.from /\ z = Msg("MATCHED", n, z.to, h.attempt)
      BY DEF Announcements, Msg
    <3>3. \A z \in Acknowledgement(n, h) :
            z.to = h.from /\ z = Msg("CONFIRM_ACK", n, h.from, h.attempt)
      BY DEF Acknowledgement, Msg
    <3> HIDE DEF h
    <3>4. QED
      BY <1>2, <2>5, <3>1, <3>2, <3>3
  <2>6. CASE o = n /\ Handle(n)
    BY <2>2, <2>3, <2>5, <2>6
       DEF Handle, ReceivePropose, ReceiveAccept, ReceiveReject,
           ReceiveConfirm, ReceiveCancel, ReceiveMatched, Commit, Queue,
           TypeInv, TypeOK
  <2>7. CASE o = n /\ Resolve(n)
    BY <2>2, <2>4, <2>7 DEF Resolve, ResolveMatched, ResolveBusy, ResolveFree
  <2>8. CASE o = n /\ (Expire(n) \/ Propose(n))
    BY <2>2, <2>3, <2>8 DEF Expire, Propose, Queue, TypeInv, TypeOK
  <2>9. CASE o = n /\ (Receive(n) \/ Send(n) \/ Finish(n) \/ Continue(n))
    BY <2>2, <2>9 DEF Receive, Send, Finish, Continue, local, Queue, TypeInv,
                      TypeOK
  <2>10. QED
    BY <2>1, <2>6, <2>7, <2>8, <2>9 DEF NodeStep
<1>3. QED
  BY <1>1, <1>2 DEF WayShape

\* What a handler sends, and what it does with its own negotiation then.
LEMMA NewMessage ==
  ASSUME IInv, NEW n \in Nodes, NodeStep(n), ~Send(n), NEW x \in outbox'[n]
  PROVE  /\ x.type = "PROPOSE" =>
              /\ Proposes(n) /\ x.attempt = epoch[n] + 1
              /\ epoch'[n] = x.attempt /\ Asks(n, x.to, x.attempt)'
         /\ x.type = "ACCEPT" =>
              /\ Resolve(n) /\ ~IsMatched(n)
              /\ offers[n][x.to] = x.attempt /\ Waits(n, x.to, x.attempt)'
         /\ x.type \in {"REJECT", "REJECT_MATCHED"} =>
              Resolve(n) /\ offers[n][x.to] = x.attempt
         /\ x.type = "CONFIRM" =>
              /\ Confirms(n) /\ Asks(n, x.to, x.attempt)
              /\ Head(batch[n]).from = x.to /\ Head(batch[n]).attempt = x.attempt
              /\ Waits(n, x.to, x.attempt)'
         /\ x.type = "CONFIRM_ACK" =>
              /\ Handle(n) /\ Head(batch[n]).type = "CONFIRM"
              /\ Head(batch[n]).from = x.to /\ Head(batch[n]).attempt = x.attempt
         /\ x.type = "CANCEL" =>
              /\ Expires(n) /\ UNCHANGED matchedTo /\ Holds(n, x.to, x.attempt)
<1> DEFINE h == Head(batch[n])
<1>0. outbox[n] = {}
  BY OutboxFrame
<1>1. CASE UNCHANGED outbox
  BY <1>0, <1>1
<1>2. CASE Receive(n) \/ ReceivePropose(n) \/ ReceiveReject(n)
             \/ ReceiveCancel(n) \/ ReceiveMatched(n) \/ Finish(n)
             \/ Continue(n)
  BY <1>1, <1>2 DEF Receive, ReceivePropose, ReceiveReject, ReceiveCancel,
                    ReceiveMatched, Finish, Continue, local
<1>3. CASE ReceiveAccept(n)
  <2>1. CASE /\ AnswersProposal(n, h)
             /\ Begin(n, h.from, h.attempt, FALSE)
             /\ Queue(n, {Confirmation(n, h)})
    <3>1. x = Confirmation(n, h)
      BY <2>1 DEF Queue, TypeInv, TypeOK
    <3>2. x.type = "CONFIRM" /\ x.to = h.from /\ x.attempt = h.attempt
      BY <3>1 DEF Confirmation, Msg
    <3>3. Confirms(n)
      BY <1>3, <2>1 DEF ReceiveAccept, Handling, AnswersProposal, Asks,
                        Confirms, Handle
    <3>4. Waits(n, x.to, x.attempt)'
      BY <2>1, <3>2 DEF Begin, Waits, Holds, TypeInv, TypeOK
    <3>5. Asks(n, x.to, x.attempt)
      BY <2>1, <3>2 DEF AnswersProposal, Asks, Holds
    <3>6. QED
      BY <3>2, <3>3, <3>4, <3>5
  <2>2. QED
    BY <1>1, <1>3, <2>1 DEF ReceiveAccept
<1>4. CASE ReceiveConfirm(n)
  <2>1. CASE Queue(n, Announcements(n, h.from, h.attempt) \cup Acknowledgement(n, h))
    <3>1. x \in Announcements(n, h.from, h.attempt) \/ x \in Acknowledgement(n, h)
      BY <2>1 DEF Queue, TypeInv, TypeOK
    <3>2. CASE x \in Announcements(n, h.from, h.attempt)
      BY <3>2 DEF Announcements, Msg
    <3>3. CASE x \in Acknowledgement(n, h)
      BY <1>4, <3>3 DEF Acknowledgement, Msg, Handle
    <3>4. QED
      BY <3>1, <3>2, <3>3
  <2>2. QED
    BY <1>1, <1>4, <2>1 DEF ReceiveConfirm
<1>5. CASE Resolve(n)
  <2>0. ASSUME NEW answer, Reply(n, answer)
        PROVE  \E s \in Offerers(n) : x = Msg(answer[s], n, s, offers[n][s])
    BY <2>0 DEF Reply, Queue, TypeInv, TypeOK
  <2>1. CASE ResolveMatched(n)
    <3>1. PICK s \in Offerers(n) :
            x = Msg([t \in Nodes |-> "REJECT_MATCHED"][s], n, s, offers[n][s])
      BY <2>0, <2>1 DEF ResolveMatched
    <3>2. x = Msg("REJECT_MATCHED", n, s, offers[n][s])
      BY <3>1 DEF Offerers
    <3>3. QED
      BY <1>5, <3>2 DEF Msg
  <2>2. CASE ResolveBusy(n)
    <3>1. PICK s \in Offerers(n) :
            x = Msg([t \in Nodes |-> BusyAnswer(n, t)][s], n, s, offers[n][s])
      BY <2>0, <2>2 DEF ResolveBusy
    <3>2. x = Msg(BusyAnswer(n, s), n, s, offers[n][s])
      BY <3>1 DEF Offerers
    <3>3. UNCHANGED tentative /\ ~IsMatched(n)
      BY <2>2 DEF ResolveBusy, negotiation
    <3>4. CASE Holds(n, s, offers[n][s]) /\ ~tentative[n].pending
      <4>1. x = Msg("ACCEPT", n, s, offers[n][s])
        BY <3>2, <3>4 DEF BusyAnswer
      <4>2. x.type = "ACCEPT" /\ x.to = s /\ x.attempt = offers[n][s]
        BY <4>1 DEF Msg
      <4>3. Waits(n, x.to, x.attempt)'
        BY <3>3, <3>4, <4>2 DEF Waits, Holds
      <4>4. QED
        BY <1>5, <3>3, <4>2, <4>3
    <3>5. CASE ~(Holds(n, s, offers[n][s]) /\ ~tentative[n].pending)
      <4>1. x = Msg("REJECT", n, s, offers[n][s])
        BY <3>2, <3>5 DEF BusyAnswer
      <4>2. QED
        BY <1>5, <4>1 DEF Msg
    <3>6. QED
      BY <3>4, <3>5
  <2>3. CASE ResolveFree(n) /\ ~UNCHANGED outbox
    <3>1. PICK w \in Offerers(n) :
            /\ Begin(n, w, offers[n][w], FALSE)
            /\ Reply(n, [s \in Nodes |-> IF s = w THEN "ACCEPT" ELSE "REJECT"])
      BY <2>3 DEF ResolveFree
    <3>2. PICK s \in Offerers(n) :
            x = Msg([t \in Nodes |-> IF t = w THEN "ACCEPT" ELSE "REJECT"][s],
                    n, s, offers[n][s])
      BY <2>0, <3>1
    <3>3. s \in Nodes /\ w \in Nodes
      BY DEF Offerers
    <3>4. ~IsMatched(n)
      BY <2>3 DEF ResolveFree
    <3>5. CASE s = w
      <4>1. x = Msg("ACCEPT", n, s, offers[n][s])
        BY <3>2, <3>3, <3>5
      <4>2. x.type = "ACCEPT" /\ x.to = s /\ x.attempt = offers[n][s]
        BY <4>1 DEF Msg
      <4>3. Waits(n, x.to, x.attempt)'
        BY <3>1, <3>5, <4>2 DEF Begin, Waits, Holds, TypeInv, TypeOK
      <4>4. QED
        BY <1>5, <3>4, <4>2, <4>3
    <3>6. CASE s # w
      <4>1. x = Msg("REJECT", n, s, offers[n][s])
        BY <3>2, <3>3, <3>6
      <4>2. QED
        BY <1>5, <4>1 DEF Msg
    <3>7. QED
      BY <3>5, <3>6
  <2>4. QED
    BY <1>1, <1>5, <2>1, <2>2, <2>3 DEF Resolve
<1>6. CASE Expire(n)
  <2>1. CASE /\ ExpireDue(n)
             /\ Clear(n)
             /\ Queue(n, {Msg("CANCEL", n, tentative[n].partner,
                              tentative[n].attempt)})
    <3>1. x = Msg("CANCEL", n, tentative[n].partner, tentative[n].attempt)
      BY <2>1 DEF Queue, TypeInv, TypeOK
    <3>2. tentative[n].left \in Nat
      BY <2>1, NegotiationType DEF ExpireDue, Negotiation, TypeInv
    <3>3. Expires(n) /\ UNCHANGED matchedTo
      BY <1>6, <2>1, <3>2 DEF Expire, At, ExpireDue, Expires, knowledge
    <3>4. QED
      BY <3>1, <3>3 DEF Msg, Holds
  <2>2. QED
    BY <1>1, <1>6, <2>1 DEF Expire
<1>7. CASE Propose(n)
  <2>1. CASE \E m \in Neighbors(n) :
               /\ MayPropose(n, m)
               /\ Begin(n, m, epoch[n] + 1, TRUE)
               /\ Queue(n, {Msg("PROPOSE", n, m, epoch[n] + 1)})
    <3>1. PICK m \in Neighbors(n) :
               /\ MayPropose(n, m)
               /\ Begin(n, m, epoch[n] + 1, TRUE)
               /\ Queue(n, {Msg("PROPOSE", n, m, epoch[n] + 1)})
      BY <2>1
    <3>2. x = Msg("PROPOSE", n, m, epoch[n] + 1)
      BY <3>1 DEF Queue, TypeInv, TypeOK
    <3>3. epoch[n] \in 0..MaxEpoch
      BY DEF TypeInv, TypeOK
    <3>4. epoch[n] + 1 \in 1..MaxEpoch /\ ~IsMatched(n) /\ ~IsNegotiating(n)
      BY <3>1, <3>3 DEF MayPropose
    <3>5. Proposes(n)
      BY <1>7, <3>1, <3>4 DEF Proposes
    <3>6. x.type = "PROPOSE" /\ x.to = m /\ x.attempt = epoch[n] + 1
      BY <3>2 DEF Msg
    <3>7. epoch'[n] = x.attempt
      BY <3>1, <3>3, <3>6 DEF Begin, TypeInv, TypeOK
    <3>8. Asks(n, x.to, x.attempt)'
      BY <3>1, <3>6 DEF Begin, Asks, Holds, TypeInv, TypeOK
    <3>9. QED
      BY <3>5, <3>6, <3>7, <3>8
  <2>2. QED
    BY <1>1, <1>7, <2>1 DEF Propose
<1>8. QED
  BY <1>2, <1>3, <1>4, <1>5, <1>6, <1>7 DEF NodeStep, Handle

\* Attempt numbers only grow.
LEMMA EpochStep ==
  ASSUME IInv, NEW n \in Nodes, NodeStep(n), NEW o \in Nodes
  PROVE  epoch[o] \in Nat /\ epoch'[o] \in Nat /\ epoch[o] <= epoch'[o]
<1>0. epoch[o] \in Nat /\ epoch[n] \in Nat
  BY DEF TypeInv, TypeOK
<1>1. CASE o # n
  BY <1>0, <1>1, LocalFrame
<1>2. CASE o = n
  <2>1. CASE UNCHANGED epoch
    BY <1>0, <2>1
  <2>2. CASE Keeps(n)
    BY <1>0, <1>2, <2>2 DEF Keeps
  <2>3. CASE Refused(n) \/ Commit(n) \/ Expires(n)
    BY <2>1, <2>3 DEF Refused, Commit, Expires, Clear
  <2>4. ASSUME NEW m, NEW k \in Nat, NEW b, Begin(n, m, k, b)
        PROVE  epoch'[n] \in Nat /\ epoch[n] <= epoch'[n]
    BY <1>0, <2>4 DEF Begin, TypeInv, TypeOK
  <2>5. CASE Confirms(n)
    <3>1. Head(batch[n]).attempt \in Nat
      BY <2>5, WayHandle, HeadSound DEF Confirms, Message
    <3>2. QED
      BY <1>0, <1>2, <2>4, <2>5, <3>1 DEF Confirms
  <2>6. CASE Accepts(n)
    <3>1. PICK w \in Offerers(n) : Begin(n, w, offers[n][w], FALSE)
      BY <2>6 DEF Accepts
    <3>2. offers[n][w] \in Nat
      BY DEF Offerers, TypeInv, TypeOK
    <3>3. QED
      BY <1>0, <1>2, <2>4, <3>1, <3>2
  <2>7. CASE Proposes(n)
    <3>1. PICK m \in Neighbors(n) : Begin(n, m, epoch[n] + 1, TRUE)
      BY <2>7 DEF Proposes
    <3>2. epoch[n] + 1 \in Nat
      BY <1>0
    <3>3. epoch'[n] \in Nat /\ epoch[n] <= epoch'[n]
      BY <2>4, <3>1, <3>2, Zenon
    <3>4. QED
      BY <1>0, <1>2, <3>3
  <2>8. QED
    BY <2>2, <2>3, <2>5, <2>6, <2>7, NegotiationStep
<1>3. QED
  BY <1>1, <1>2

\* An endpoint waits for an answer because it just proposed, or since before.
LEMMA AsksStep ==
  ASSUME IInv, NEW n \in Nodes, NodeStep(n),
         NEW a \in Nodes, NEW b \in Nodes, NEW k, Asks(a, b, k)'
  PROVE  Asks(a, b, k) \/ (a = n /\ Proposes(n) /\ k = epoch[n] + 1)
<1>1. CASE a # n
  BY <1>1, LocalFrame DEF Asks, Holds
<1>2. CASE a = n
  <2>1. CASE Keeps(n)
    BY <1>2, <2>1 DEF Keeps, Asks, Holds
  <2>2. CASE Refused(n) \/ Commit(n) \/ Expires(n)
    BY <1>2, <2>2, ClearType
       DEF Refused, Commit, Expires, NoNegotiation, Asks, Holds, TypeInv
  <2>3. CASE Confirms(n)
    BY <1>2, <2>3 DEF Confirms, Begin, Asks, Holds, TypeInv, TypeOK
  <2>4. CASE Accepts(n)
    BY <1>2, <2>4 DEF Accepts, Begin, Asks, Holds, TypeInv, TypeOK
  <2>5. CASE Proposes(n)
    <3>1. PICK m \in Neighbors(n) : Begin(n, m, epoch[n] + 1, TRUE)
      BY <2>5 DEF Proposes
    <3>2. tentative'[n].attempt = epoch[n] + 1
      BY <3>1 DEF Begin, TypeInv, TypeOK
    <3>3. QED
      BY <1>2, <2>5, <3>2 DEF Asks, Holds
  <2>6. QED
    BY <2>1, <2>2, <2>3, <2>4, <2>5, NegotiationStep
<1>3. QED
  BY <1>1, <1>2

\* An endpoint waits for a commitment since before, because its proposal was
\* just accepted, or because it just accepted one.
LEMMA WaitsStep ==
  ASSUME IInv, NEW n \in Nodes, NodeStep(n),
         NEW a \in Nodes, NEW b \in Nodes, NEW k, Waits(a, b, k)'
  PROVE  \/ Waits(a, b, k)
         \/ /\ a = n /\ Confirms(n) /\ Asks(a, b, k)
            /\ Head(batch[n]).from = b /\ Head(batch[n]).attempt = k
         \/ a = n /\ Accepts(n) /\ offers[n][b] = k /\ k # 0
<1>1. CASE a # n
  BY <1>1, LocalFrame DEF Waits, Holds
<1>2. CASE a = n
  <2>1. CASE Keeps(n)
    BY <1>2, <2>1 DEF Keeps, Waits, Holds
  <2>2. CASE Refused(n) \/ Commit(n) \/ Expires(n)
    BY <1>2, <2>2, ClearType
       DEF Refused, Commit, Expires, NoNegotiation, Waits, Holds, TypeInv
  <2>3. CASE Confirms(n)
    BY <1>2, <2>3 DEF Confirms, Begin, Waits, Asks, Holds, TypeInv, TypeOK
  <2>4. CASE Accepts(n)
    <3>1. PICK w \in Offerers(n) : Begin(n, w, offers[n][w], FALSE)
      BY <2>4 DEF Accepts
    <3>2. tentative'[n].partner = w /\ tentative'[n].attempt = offers[n][w]
      BY <3>1 DEF Begin, TypeInv, TypeOK
    <3>3. w = b /\ offers[n][w] = k
      BY <1>2, <3>2 DEF Waits, Holds
    <3>4. QED
      BY <1>2, <2>4, <3>3 DEF Offerers
  <2>5. CASE Proposes(n)
    BY <1>2, <2>5 DEF Proposes, Begin, Waits, Holds, TypeInv, TypeOK
  <2>6. QED
    BY <2>1, <2>2, <2>3, <2>4, <2>5, NegotiationStep
<1>3. QED
  BY <1>1, <1>2

-----------------------------------------------------------------------------
(* The invariant of a negotiation                                          *)

\* Attempt numbers on their way are known to the endpoints that used them: a
\* node's next attempt number is new to every message about its proposals.
FreshAttempts ==
  /\ \A n \in Nodes : tentative[n].attempt <= epoch[n]
  /\ \A n, m \in Nodes : offers[n][m] <= epoch[m]
  /\ \A x \in Message : OnWay(x) =>
       /\ x.type \in {"PROPOSE", "ACCEPT", "CONFIRM"} => x.attempt <= epoch[x.from]
       /\ x.type \in {"ACCEPT", "CONFIRM", "CONFIRM_ACK"} => x.attempt <= epoch[x.to]

\* The proposal x has not been answered yet.
Offered(x) == offers[x.to][x.from] = x.attempt
Unanswered(x) == OnWay(x) \/ Offered(x)

\* y is the acceptance of the proposal x, or the confirmation after it.
Answers(y, x) ==
  /\ y.attempt = x.attempt
  /\ \/ y.type = "ACCEPT" /\ y.from = x.to /\ y.to = x.from
     \/ y.type = "CONFIRM" /\ y.from = x.from /\ y.to = x.to

\* Every proposal is made once and answered once.
AnsweredOnce ==
  \A x \in Message : x.type = "PROPOSE" =>
    /\ ~Behind(x, x)
    /\ ~(OnWay(x) /\ Offered(x))
    /\ \A y \in Message : OnWay(y) /\ Answers(y, x) => ~Unanswered(x)

\* While a proposer waits for its answer nothing of a commitment is on its
\* way for that attempt, in either direction.
AskingIsUncommitted ==
  \A x \in Message : OnWay(x) =>
    /\ x.type \in {"ACCEPT", "CONFIRM"} => ~Asks(x.from, x.to, x.attempt)
    /\ x.type \in {"CONFIRM", "CONFIRM_ACK"} => ~Asks(x.to, x.from, x.attempt)

\* What cannot take the recipient out of the negotiation with attempt k.
Harmless(x, k) ==
  /\ x.type \notin {"PROPOSE", "ACCEPT", "CONFIRM", "CANCEL"}
  /\ x.type \in {"REJECT", "REJECT_MATCHED"} => x.attempt # k

\* While the acceptor waits nothing harmful follows its ACCEPT.
NothingAfterAccept ==
  \A x, y \in Message :
    x.type = "ACCEPT" /\ Waits(x.from, x.to, x.attempt) /\ Behind(x, y) =>
      Harmless(y, x.attempt)

\* n has committed to m, or will when the confirmation reaches it.
Bound(n, m) ==
  \/ matchedTo[n] = m
  \/ \E y \in Message : /\ y.type = "CONFIRM" /\ y.from = m /\ y.to = n
                        /\ OnWay(y) /\ Waits(n, m, y.attempt)

\* While n is bound to an uncommitted m, nothing can take m out of it.
BoundIsKept ==
  \A n, m \in Nodes : Bound(n, m) /\ ~IsMatched(m) =>
    /\ offers[m][n] # 0 => tentative[m].partner = n /\ ~tentative[m].pending
    /\ \A x \in Message :
         /\ x.from = n /\ x.to = m /\ OnWay(x) =>
              /\ x.type \notin {"PROPOSE", "ACCEPT", "CONFIRM", "CANCEL"}
              /\ x.type \in {"REJECT", "REJECT_MATCHED"} => ~Waits(m, n, x.attempt)
         /\ x.type = "PROPOSE" /\ x.from = m /\ x.to = n /\ Waits(m, n, x.attempt) =>
              ~Unanswered(x)

\* The inductive invariant, beside IInv.
NegotiationInv ==
  /\ WayShape
  /\ FreshAttempts
  /\ AnsweredOnce
  /\ AskingIsUncommitted
  /\ NothingAfterAccept
  /\ BoundIsKept

\* A message in a mailbox is determined by its fields.
LEMMA MsgFields ==
  ASSUME NEW t \in MessageType, NEW a \in Nodes, NEW b \in Nodes,
         NEW k \in 1..MaxEpoch
  PROVE  /\ Msg(t, a, b, k) \in Message
         /\ Msg(t, a, b, k).type = t /\ Msg(t, a, b, k).from = a
         /\ Msg(t, a, b, k).to = b /\ Msg(t, a, b, k).attempt = k
BY DEF Msg, Message

\* A message is what its fields say.
LEMMA IsMsg ==
  ASSUME NEW x \in Message
  PROVE  /\ x.type \in MessageType /\ x.from \in Nodes /\ x.to \in Nodes
         /\ x.attempt \in 1..MaxEpoch
         /\ x = Msg(x.type, x.from, x.to, x.attempt)
BY DEF Msg, Message

\* The message a handler takes is on its way to n, from a neighbour.
LEMMA HandledMsg ==
  ASSUME IInv, WayShape, NEW n \in Nodes, Handle(n)
  PROVE  /\ Head(batch[n]) \in Message /\ Head(batch[n]).to = n
         /\ Head(batch[n]).from \in Nodes \ {n}
         /\ Head(batch[n]).attempt \in 1..MaxEpoch
         /\ OnWay(Head(batch[n]))
<1>1. batch[n] # <<>>
  BY WayHandle
<1>2. /\ Head(batch[n]) \in Message /\ Head(batch[n]).to = n
      /\ Head(batch[n]).from \in Neighbors(n)
  BY <1>1, HeadSound DEF SoundFor
<1>3. QED
  BY <1>2, Handled, NotOwnNeighbor DEF Neighbors, Message

\* begin_tentative_match numbers a proposal above every attempt it has seen.
LEMMA FreshAttemptsStep ==
  ASSUME IInv, NegotiationInv, NEW n \in Nodes, NodeStep(n)
  PROVE  FreshAttempts'
<1> USE DEF NegotiationInv
<1> DEFINE h == Head(batch[n])
<1>0. \A o \in Nodes : /\ epoch[o] \in Nat /\ epoch'[o] \in Nat
                       /\ epoch[o] <= epoch'[o]
  BY EpochStep
<1>1. ASSUME NEW o \in Nodes
      PROVE  tentative'[o].attempt <= epoch'[o]
  <2>0. tentative[o].attempt \in Nat /\ tentative[o].attempt <= epoch[o]
    BY DEF FreshAttempts, TypeInv, TypeOK, Negotiation, NoNegotiation
  <2>1. CASE o # n \/ Keeps(n)
    BY <1>0, <2>0, <2>1, LocalFrame DEF Keeps
  <2>2. CASE o = n /\ (Refused(n) \/ Commit(n) \/ Expires(n))
    <3>1. tentative'[n] = NoNegotiation
      BY <2>2, ClearType DEF Refused, Commit, Expires, TypeInv
    <3>2. QED
      BY <1>0, <2>2, <3>1 DEF NoNegotiation
  <2>3. ASSUME NEW m, NEW k \in Nat, NEW b, Begin(n, m, k, b)
        PROVE  tentative'[n].attempt <= epoch'[n]
    BY <1>0, <2>3 DEF Begin, TypeInv, TypeOK
  <2>4. CASE o = n /\ Confirms(n)
    <3>1. h.attempt \in Nat
      BY <2>4, HandledMsg DEF Confirms
    <3>2. QED
      BY <2>3, <2>4, <3>1 DEF Confirms
  <2>5. CASE o = n /\ Accepts(n)
    <3>1. PICK w \in Offerers(n) : Begin(n, w, offers[n][w], FALSE)
      BY <2>5 DEF Accepts
    <3>2. offers[n][w] \in Nat
      BY DEF Offerers, TypeInv, TypeOK
    <3>3. QED
      BY <2>3, <2>5, <3>1, <3>2
  <2>6. CASE o = n /\ Proposes(n)
    <3>1. PICK m \in Neighbors(n) : Begin(n, m, epoch[n] + 1, TRUE)
      BY <2>6 DEF Proposes
    <3>2. epoch[n] + 1 \in Nat
      BY <1>0
    <3>3. QED
      BY <2>3, <2>6, <3>1, <3>2, Zenon
  <2>7. QED
    BY <2>1, <2>2, <2>4, <2>5, <2>6, NegotiationStep
<1>2. ASSUME NEW a \in Nodes, NEW b \in Nodes
      PROVE  offers'[a][b] <= epoch'[b]
  <2>0. offers[a][b] \in Nat /\ offers[a][b] <= epoch[b]
    BY DEF FreshAttempts, TypeInv, TypeOK
  <2>1. CASE offers'[a][b] = offers[a][b]
    BY <1>0, <2>0, <2>1
  <2>2. CASE offers'[a][b] = 0
    BY <1>0, <2>2
  <2>3. CASE /\ a = n /\ Handle(n) /\ h.type = "PROPOSE"
             /\ h.from = b /\ offers'[n][b] = h.attempt
    <3>1. h.attempt <= epoch[b] /\ h.attempt \in Nat
      BY <2>3, HandledMsg DEF FreshAttempts
    <3>2. QED
      BY <1>0, <2>3, <3>1
  <2>4. QED
    BY <2>1, <2>2, <2>3, OffersStep, LocalFrame
<1>3. ASSUME NEW x \in Message, OnWay(x)'
      PROVE  /\ x.type \in {"PROPOSE", "ACCEPT", "CONFIRM"} =>
                  x.attempt <= epoch'[x.from]
             /\ x.type \in {"ACCEPT", "CONFIRM", "CONFIRM_ACK"} =>
                  x.attempt <= epoch'[x.to]
  <2>0. x.from \in Nodes /\ x.to \in Nodes /\ x.attempt \in Nat
    BY IsMsg
  <2>1. CASE OnWay(x)
    BY <1>0, <2>0, <2>1 DEF FreshAttempts
  <2>2. CASE x \in outbox'[n] /\ ~Send(n) /\ x.from = n
    <3>1. CASE x.type = "PROPOSE"
      BY <1>0, <2>0, <2>2, <3>1, NewMessage
    <3>2. CASE x.type = "ACCEPT"
      <4>1. Waits(n, x.to, x.attempt)' /\ offers[n][x.to] = x.attempt
        BY <2>2, <3>2, NewMessage
      <4>2. x.attempt <= epoch'[n]
        BY <1>1, <4>1 DEF Waits, Holds
      <4>3. x.attempt <= epoch[x.to]
        BY <2>0, <4>1 DEF FreshAttempts
      <4>4. QED
        BY <1>0, <2>0, <2>2, <3>2, <4>2, <4>3
    <3>3. CASE x.type = "CONFIRM"
      <4>1. /\ Waits(n, x.to, x.attempt)' /\ Handle(n) /\ h.type = "ACCEPT"
            /\ h.from = x.to /\ h.attempt = x.attempt
        BY <2>2, <3>3, NewMessage DEF Confirms
      <4>2. x.attempt <= epoch'[n]
        BY <1>1, <4>1 DEF Waits, Holds
      <4>3. x.attempt <= epoch[x.to]
        BY <4>1, HandledMsg DEF FreshAttempts
      <4>4. QED
        BY <1>0, <2>0, <2>2, <3>3, <4>2, <4>3
    <3>4. CASE x.type = "CONFIRM_ACK"
      <4>1. /\ Handle(n) /\ h.type = "CONFIRM"
            /\ h.from = x.to /\ h.attempt = x.attempt
        BY <2>2, <3>4, NewMessage
      <4>2. x.attempt <= epoch[x.to]
        BY <4>1, HandledMsg DEF FreshAttempts
      <4>3. QED
        BY <1>0, <2>0, <3>4, <4>2
    <3>5. QED
      BY <3>1, <3>2, <3>3, <3>4
  <2>3. QED
    BY <2>1, <2>2, <1>3, OnWayStep
<1>4. QED
  BY <1>1, <1>2, <1>3 DEF FreshAttempts

\* A step is of one kind.
LEMMA OneKind ==
  ASSUME NEW n \in Nodes
  PROVE  /\ Proposes(n) => ~Handle(n) /\ ~Resolve(n)
         /\ Expires(n) => ~Handle(n) /\ ~Resolve(n) /\ ~Proposes(n)
         /\ Handle(n) => ~Resolve(n)
BY DEF Proposes, Expires, Propose, Resolve, ResolveMatched, ResolveBusy,
       ResolveFree, Resolving, Handle, ReceivePropose, ReceiveAccept,
       ReceiveReject, ReceiveConfirm, ReceiveCancel, ReceiveMatched, Handling,
       At

\* A commit is the handling of a message.
LEMMA CommitHandles ==
  ASSUME IInv, NEW n \in Nodes, NodeStep(n), Commit(n)
  PROVE  Handle(n)
BY DEF NodeStep, Commit, Handling, At, Receive, Send, Resolve, ResolveMatched,
       ResolveBusy, ResolveFree, Resolving, Expire, Propose, Finish, Continue

\* A proposal gets unanswered by being made.
LEMMA UnansweredStep ==
  ASSUME IInv, NegotiationInv, NEW n \in Nodes, NodeStep(n),
         NEW x \in Message, x.type = "PROPOSE", Unanswered(x)'
  PROVE  \/ Unanswered(x) /\ ~(Resolve(n) /\ x.to = n /\ Offered(x))
         \/ /\ x \in outbox'[n] /\ ~Send(n) /\ x.from = n
            /\ Proposes(n) /\ x.attempt = epoch[n] + 1
            /\ ~Unanswered(x)
            /\ \A y \in Message : OnWay(y) => ~Answers(y, x)
<1> USE DEF NegotiationInv
<1> DEFINE h == Head(batch[n])
<1>0. /\ x.from \in Nodes /\ x.to \in Nodes /\ x.attempt \in 1..MaxEpoch
      /\ x = Msg("PROPOSE", x.from, x.to, x.attempt)
  BY IsMsg
<1>1. ASSUME x \in outbox'[n], ~Send(n), x.from = n
      PROVE  /\ Proposes(n) /\ x.attempt = epoch[n] + 1
             /\ ~Unanswered(x)
             /\ \A y \in Message : OnWay(y) => ~Answers(y, x)
  <2>1. Proposes(n) /\ x.attempt = epoch[n] + 1 /\ epoch[n] \in Nat
    BY <1>1, NewMessage DEF TypeInv, TypeOK
  <2>2. ~OnWay(x)
    BY <1>1, <2>1 DEF FreshAttempts
  <2>3. ~Offered(x)
    BY <1>0, <1>1, <2>1 DEF FreshAttempts, Offered
  <2>4. \A y \in Message : OnWay(y) => ~Answers(y, x)
    BY <1>1, <2>1 DEF FreshAttempts, Answers
  <2>5. QED
    BY <2>1, <2>2, <2>3, <2>4 DEF Unanswered
<1>2. CASE OnWay(x)'
  <2>1. CASE OnWay(x)
    BY <1>0, <2>1 DEF AnsweredOnce, Unanswered
  <2>2. QED
    BY <1>1, <1>2, <2>1, OnWayStep
<1>3. CASE Offered(x)'
  <2>1. CASE x.to # n \/ offers'[n][x.from] = offers[n][x.from]
    <3>1. Offered(x)
      BY <1>0, <1>3, <2>1, LocalFrame DEF Offered
    <3>2. ASSUME Resolve(n), x.to = n PROVE FALSE
      <4>1. offers' = [offers EXCEPT ![n] = NoOffers]
        BY <3>2 DEF Resolve, ResolveMatched, ResolveBusy, ResolveFree,
                    EndResolution
      <4>2. offers'[n][x.from] = 0
        BY <1>0, <4>1 DEF NoOffers, TypeInv, TypeOK
      <4>3. QED
        BY <1>0, <1>3, <3>2, <4>2 DEF Offered
    <3>3. QED
      BY <3>1, <3>2 DEF Unanswered
  <2>2. CASE x.to = n /\ offers'[n][x.from] = 0
    BY <1>0, <1>3, <2>2 DEF Offered
  <2>3. CASE /\ x.to = n /\ Handle(n) /\ h.type = "PROPOSE" /\ h.from = x.from
             /\ offers'[n][x.from] = h.attempt
    <3>1. h \in Message /\ h.to = n /\ OnWay(h)
      BY <2>3, HandledMsg
    <3>2. h.attempt = x.attempt
      BY <1>3, <2>3 DEF Offered
    <3>3. h = x
      BY <1>0, <2>3, <3>1, <3>2, IsMsg
    <3>4. QED
      BY <2>3, <3>1, <3>3, OneKind DEF Unanswered
  <2>4. QED
    BY <1>0, <2>1, <2>2, <2>3, OffersStep
<1>4. QED
  BY <1>2, <1>3 DEF Unanswered

\* A proposal is new when it is made, and used up when it is answered.
LEMMA AnsweredOnceStep ==
  ASSUME IInv, NegotiationInv, NEW n \in Nodes, NodeStep(n)
  PROVE  AnsweredOnce'
<1> USE DEF NegotiationInv
<1> DEFINE h == Head(batch[n])
<1> SUFFICES ASSUME NEW x \in Message, x.type = "PROPOSE"
             PROVE  /\ ~Behind(x, x)'
                    /\ ~(OnWay(x)' /\ Offered(x)')
                    /\ \A y \in Message : OnWay(y)' /\ Answers(y, x) => ~Unanswered(x)'
  BY DEF AnsweredOnce, Answers
<1>0. /\ x.from \in Nodes /\ x.to \in Nodes /\ x.attempt \in 1..MaxEpoch
      /\ x = Msg("PROPOSE", x.from, x.to, x.attempt)
  BY IsMsg
<1>1. /\ ~Behind(x, x) /\ ~(OnWay(x) /\ Offered(x))
      /\ \A y \in Message : OnWay(y) /\ Answers(y, x) => ~Unanswered(x)
  BY DEF AnsweredOnce
<1>2. ASSUME x \in outbox'[n], ~Send(n), x.from = n
      PROVE  Proposes(n) /\ ~Unanswered(x) /\ ~Handle(n)
  <2>1. Unanswered(x)' /\ Proposes(n) /\ x.attempt = epoch[n] + 1
    BY <1>2, NewMessage DEF Unanswered, OnWay
  <2>2. ~Unanswered(x)
    <3>1. epoch[n] \in Nat
      BY DEF TypeInv, TypeOK
    <3>2. QED
      BY <1>0, <1>2, <2>1, <3>1 DEF FreshAttempts, Unanswered, Offered
  <2>3. QED
    BY <2>1, <2>2, OneKind
<1>3. ~Behind(x, x)'
  BY <1>1, <1>2, BehindStep DEF Unanswered
<1>4. ASSUME OnWay(x)', Offered(x)' PROVE FALSE
  <2>1. CASE x.to # n \/ offers'[n][x.from] = offers[n][x.from]
    <3>1. Offered(x)
      BY <1>0, <1>4, <2>1, LocalFrame DEF Offered
    <3>2. QED
      BY <1>1, <1>2, <1>4, <3>1, OnWayStep DEF Unanswered
  <2>2. CASE x.to = n /\ offers'[n][x.from] = 0
    BY <1>0, <1>4, <2>2 DEF Offered
  <2>3. CASE /\ x.to = n /\ Handle(n) /\ h.type = "PROPOSE" /\ h.from = x.from
             /\ offers'[n][x.from] = h.attempt
    <3>1. h \in Message /\ h.to = n
      BY <2>3, HandledMsg
    <3>2. h.attempt = x.attempt
      BY <1>4, <2>3 DEF Offered
    <3>3. h = x
      BY <1>0, <2>3, <3>1, <3>2, IsMsg
    <3>4. QED
      BY <1>1, <1>4, <2>3, <3>3, Handled
  <2>4. QED
    BY <1>0, <2>1, <2>2, <2>3, OffersStep
<1>5. ASSUME NEW y \in Message, OnWay(y)', Answers(y, x), Unanswered(x)'
      PROVE  FALSE
  <2>0. y.from \in Nodes /\ y.to \in Nodes
    BY IsMsg
  <2>1. CASE OnWay(y)
    BY <1>1, <1>5, <2>1, UnansweredStep
  <2>2. CASE y \in outbox'[n] /\ ~Send(n) /\ y.from = n /\ y.type = "ACCEPT"
    <3>1. Resolve(n) /\ offers[n][y.to] = y.attempt
      BY <2>2, NewMessage
    <3>2. x.to = n /\ Offered(x)
      BY <1>5, <2>2, <3>1 DEF Answers, Offered
    <3>3. QED
      BY <1>5, <3>1, <3>2, UnansweredStep, OneKind
  <2>3. CASE y \in outbox'[n] /\ ~Send(n) /\ y.from = n /\ y.type = "CONFIRM"
    <3>1. /\ Handle(n) /\ h.type = "ACCEPT" /\ h.from = y.to
          /\ h.attempt = y.attempt
      BY <2>3, NewMessage DEF Confirms
    <3>2. h \in Message /\ h.to = n /\ OnWay(h)
      BY <3>1, HandledMsg
    <3>3. Answers(h, x)
      BY <1>5, <2>3, <3>1, <3>2 DEF Answers
    <3>4. QED
      BY <1>1, <1>5, <3>1, <3>2, <3>3, UnansweredStep, OneKind
  <2>4. QED
    BY <1>5, <2>1, <2>2, <2>3, OnWayStep DEF Answers
<1>6. QED
  BY <1>3, <1>4, <1>5

\* ACCEPT and CONFIRM are sent by nodes that wait for a commitment, and a
\* commitment of the attempt is on its way only after both.
LEMMA AskingIsUncommittedStep ==
  ASSUME IInv, NegotiationInv, NEW n \in Nodes, NodeStep(n)
  PROVE  AskingIsUncommitted'
<1> USE DEF NegotiationInv
<1> DEFINE h == Head(batch[n])
<1> SUFFICES ASSUME NEW x \in Message, OnWay(x)'
             PROVE  /\ x.type \in {"ACCEPT", "CONFIRM"} =>
                         ~Asks(x.from, x.to, x.attempt)'
                    /\ x.type \in {"CONFIRM", "CONFIRM_ACK"} =>
                         ~Asks(x.to, x.from, x.attempt)'
  BY DEF AskingIsUncommitted
<1>0. x.from \in Nodes /\ x.to \in Nodes /\ x.attempt \in Nat /\ epoch[n] \in Nat
  BY IsMsg DEF TypeInv, TypeOK
<1>1. CASE OnWay(x)
  <2>1. ASSUME x.type \in {"ACCEPT", "CONFIRM"}, Asks(x.from, x.to, x.attempt)'
        PROVE  FALSE
    <3>1. Asks(x.from, x.to, x.attempt) \/ (x.from = n /\ x.attempt = epoch[n] + 1)
      BY <1>0, <2>1, AsksStep
    <3>2. x.attempt <= epoch[x.from] /\ ~Asks(x.from, x.to, x.attempt)
      BY <1>1, <2>1 DEF FreshAttempts, AskingIsUncommitted
    <3>3. QED
      BY <1>0, <3>1, <3>2
  <2>2. ASSUME x.type \in {"CONFIRM", "CONFIRM_ACK"}, Asks(x.to, x.from, x.attempt)'
        PROVE  FALSE
    <3>1. Asks(x.to, x.from, x.attempt) \/ (x.to = n /\ x.attempt = epoch[n] + 1)
      BY <1>0, <2>2, AsksStep
    <3>2. x.attempt <= epoch[x.to] /\ ~Asks(x.to, x.from, x.attempt)
      BY <1>1, <2>2 DEF FreshAttempts, AskingIsUncommitted
    <3>3. QED
      BY <1>0, <3>1, <3>2
  <2>3. QED
    BY <2>1, <2>2
<1>2. CASE x \in outbox'[n] /\ ~Send(n) /\ x.from = n
  <2>1. x.type \in {"ACCEPT", "CONFIRM"} => Waits(x.from, x.to, x.attempt)'
    BY <1>2, NewMessage
  <2>2. ASSUME x.type \in {"CONFIRM", "CONFIRM_ACK"}, Asks(x.to, x.from, x.attempt)'
        PROVE  FALSE
    <3>1. /\ Handle(n) /\ h.type \in {"ACCEPT", "CONFIRM"}
          /\ h.from = x.to /\ h.attempt = x.attempt
      BY <1>2, <2>2, NewMessage DEF Confirms
    <3>2. h \in Message /\ h.to = n /\ OnWay(h)
      BY <3>1, HandledMsg
    <3>3. ~Asks(x.to, n, x.attempt)
      BY <3>1, <3>2 DEF AskingIsUncommitted
    <3>4. QED
      BY <1>0, <1>2, <2>2, <3>1, <3>3, AsksStep, OneKind
  <2>3. QED
    BY <2>1, <2>2 DEF Asks, Waits
<1>3. QED
  BY <1>1, <1>2, OnWayStep

\* A message behind another is on its way, and so is the other.
LEMMA BehindOnWay ==
  ASSUME NEW x, NEW y, Behind(x, y)
  PROVE  OnWay(x) /\ OnWay(y)
BY DEF Behind, OnWay, Travels

\* An offer is a proposal that is no longer on its way.
LEMMA OfferedMsg ==
  ASSUME IInv, NEW n \in Nodes, NEW m \in Nodes, NEW k, offers[n][m] = k, k # 0
  PROVE  /\ m # n
         /\ \E p \in Message : /\ p.type = "PROPOSE" /\ p.from = m /\ p.to = n
                               /\ p.attempt = k /\ Offered(p)
<1>1. k \in 1..MaxEpoch
  BY DEF TypeInv, TypeOK
<1>2. m \in Neighbors(n)
  BY DEF Offerers, AlongEdges
<1>3. /\ Msg("PROPOSE", m, n, k) \in Message
      /\ Msg("PROPOSE", m, n, k).type = "PROPOSE"
      /\ Msg("PROPOSE", m, n, k).from = m /\ Msg("PROPOSE", m, n, k).to = n
      /\ Msg("PROPOSE", m, n, k).attempt = k
  BY <1>1, MsgFields DEF MessageType
<1>4. Offered(Msg("PROPOSE", m, n, k))
  BY <1>3 DEF Offered
<1>5. QED
  BY <1>2, <1>3, <1>4, NotOwnNeighbor

\* What an acceptor sends its proposer after the ACCEPT is harmless, for it
\* neither proposes nor accepts again while it waits.
LEMMA NothingAfterAcceptStep ==
  ASSUME IInv, NegotiationInv, NEW n \in Nodes, NodeStep(n)
  PROVE  NothingAfterAccept'
<1> USE DEF NegotiationInv
<1> DEFINE h == Head(batch[n])
<1> SUFFICES ASSUME NEW x \in Message, NEW y \in Message, x.type = "ACCEPT",
                    Waits(x.from, x.to, x.attempt)', Behind(x, y)'
             PROVE  Harmless(y, x.attempt)
  BY DEF NothingAfterAccept, Harmless
<1>0. /\ x.from \in Nodes /\ x.to \in Nodes /\ x.attempt \in 1..MaxEpoch
      /\ y.from \in Nodes /\ y.to \in Nodes
  BY IsMsg
<1>1. OnWay(x)
  BY BehindStep, BehindOnWay
<1>2. offers[x.from][x.to] # x.attempt
  <2> SUFFICES ASSUME offers[x.from][x.to] = x.attempt PROVE FALSE
    OBVIOUS
  <2>1. PICK p \in Message : /\ p.type = "PROPOSE" /\ p.from = x.to
                             /\ p.to = x.from /\ p.attempt = x.attempt
                             /\ Offered(p)
    BY <1>0, OfferedMsg
  <2>2. Answers(x, p)
    BY <2>1 DEF Answers
  <2>3. QED
    BY <1>1, <2>1, <2>2 DEF AnsweredOnce, Unanswered
<1>3. ~Asks(x.from, x.to, x.attempt)
  BY <1>1 DEF AskingIsUncommitted
<1>4. CASE Behind(x, y)
  <2>1. Waits(x.from, x.to, x.attempt)
    BY <1>0, <1>2, <1>3, WaitsStep
  <2>2. QED
    BY <1>4, <2>1 DEF NothingAfterAccept
<1>5. CASE /\ y \in outbox'[n] /\ ~Send(n)
           /\ x.from = n /\ y.from = n /\ x.to = y.to
  <2>1. y.type # "PROPOSE"
    BY <1>5, NewMessage DEF Asks, Waits
  <2>2. y.type # "ACCEPT"
    BY <1>2, <1>5, NewMessage DEF Waits, Holds
  <2>3. y.type \in {"REJECT", "REJECT_MATCHED"} => y.attempt # x.attempt
    BY <1>2, <1>5, NewMessage
  <2>4. y.type # "CONFIRM"
    BY <1>3, <1>5, NewMessage DEF Waits, Asks, Holds
  <2>5. y.type # "CANCEL"
    <3> SUFFICES ASSUME Clear(n) PROVE FALSE
      BY <1>5, NewMessage DEF Expires
    <3>1. tentative'[n] = NoNegotiation
      BY ClearType DEF TypeInv
    <3>2. QED
      BY <1>0, <1>5, <3>1 DEF Waits, Holds, NoNegotiation
  <2>6. QED
    BY <2>1, <2>2, <2>3, <2>4, <2>5 DEF Harmless
<1>6. QED
  BY <1>4, <1>5, BehindStep

\* An endpoint becomes bound to an uncommitted partner when that partner
\* confirms.
LEMMA BoundStep ==
  ASSUME IInv, NegotiationInv, NEW n \in Nodes, NodeStep(n),
         NEW a \in Nodes, NEW b \in Nodes, Bound(a, b)', ~IsMatched(b)'
  PROVE  /\ ~IsMatched(b)
         /\ \/ Bound(a, b)
            \/ /\ n = b /\ Confirms(b) /\ Head(batch[b]).from = a
               /\ Waits(a, b, Head(batch[b]).attempt)
<1> USE DEF NegotiationInv
<1> DEFINE h == Head(batch[n])
<1>0. ~IsMatched(b)
  BY MatchFinalStep DEF IsMatched
<1>1. CASE matchedTo'[a] = b /\ matchedTo[a] # b
  <2>1. a = n /\ Commit(n)
    BY <1>1, OnlyCommitMatches, LocalFrame
  <2>2. /\ Handle(n) /\ h.from = b /\ Holds(n, b, h.attempt)
        /\ h.type \in {"CONFIRM", "CONFIRM_ACK"}
    <3>1. Handle(n)
      BY <2>1, CommitHandles
    <3>2. QED
      BY <1>1, <2>1, <3>1 DEF Commit, Handling, TypeInv, TypeOK
  <2>3. h \in Message /\ h.to = n /\ OnWay(h)
    BY <2>2, HandledMsg
  <2>4. h.type = "CONFIRM"
    <3>1. h.type = "CONFIRM_ACK" => matchedTo[b] = n
      BY <2>2, WayHandle, HeadSound DEF SoundFor
    <3>2. QED
      BY <1>0, <2>2, <3>1, EndpointAssumption DEF IsMatched
  <2>5. Waits(n, b, h.attempt)
    BY <2>2, <2>3, <2>4 DEF AskingIsUncommitted, Asks, Waits
  <2>6. QED
    BY <1>0, <2>1, <2>2, <2>3, <2>4, <2>5 DEF Bound
<1>2. ASSUME NEW y \in Message, y.type = "CONFIRM", y.from = b, y.to = a,
             OnWay(y)', Waits(a, b, y.attempt)'
      PROVE  \/ Bound(a, b)
             \/ /\ n = b /\ Confirms(b) /\ Head(batch[b]).from = a
                /\ Waits(a, b, Head(batch[b]).attempt)
  <2>1. CASE OnWay(y)
    <3>1. ~Asks(a, b, y.attempt)
      BY <1>2, <2>1 DEF AskingIsUncommitted
    <3>2. offers[a][b] = y.attempt => y.attempt = 0
      <4> SUFFICES ASSUME offers[a][b] = y.attempt, y.attempt # 0 PROVE FALSE
        OBVIOUS
      <4>1. PICK p \in Message : /\ p.type = "PROPOSE" /\ p.from = b /\ p.to = a
                                 /\ p.attempt = y.attempt /\ Offered(p)
        BY OfferedMsg
      <4>2. Answers(y, p)
        BY <1>2, <4>1 DEF Answers
      <4>3. QED
        BY <2>1, <4>1, <4>2 DEF AnsweredOnce, Unanswered
    <3>3. Waits(a, b, y.attempt)
      BY <1>2, <3>1, <3>2, WaitsStep
    <3>4. QED
      BY <1>2, <2>1, <3>3 DEF Bound
  <2>2. CASE y \in outbox'[n] /\ ~Send(n) /\ y.from = n
    <3>1. Confirms(n) /\ h.from = a /\ h.attempt = y.attempt
      BY <1>2, <2>2, NewMessage
    <3>2. a # n
      BY <3>1, HandledMsg DEF Confirms
    <3>3. Waits(a, b, y.attempt)
      BY <1>2, <3>2, LocalFrame DEF Waits, Holds
    <3>4. QED
      BY <1>2, <2>2, <3>1, <3>3
  <2>3. QED
    BY <1>2, <2>1, <2>2, OnWayStep
<1>3. QED
  BY <1>0, <1>1, <1>2 DEF Bound

\* The confirmation finds nothing harmful behind the ACCEPT, and while the
\* acceptor is bound it sends nothing harmful either.
LEMMA BoundIsKeptStep ==
  ASSUME IInv, NegotiationInv, NEW n \in Nodes, NodeStep(n)
  PROVE  BoundIsKept'
<1> USE DEF NegotiationInv
<1> DEFINE h == Head(batch[n])
<1> SUFFICES ASSUME NEW a \in Nodes, NEW b \in Nodes,
                    Bound(a, b)', ~IsMatched(b)'
             PROVE  /\ offers'[b][a] # 0 =>
                         tentative'[b].partner = a /\ ~tentative'[b].pending
                    /\ \A x \in Message :
                         /\ x.from = a /\ x.to = b /\ OnWay(x)' =>
                              /\ x.type \notin {"PROPOSE", "ACCEPT", "CONFIRM", "CANCEL"}
                              /\ x.type \in {"REJECT", "REJECT_MATCHED"} =>
                                   ~Waits(b, a, x.attempt)'
                         /\ x.type = "PROPOSE" /\ x.from = b /\ x.to = a
                              /\ Waits(b, a, x.attempt)' => ~Unanswered(x)'
  BY DEF BoundIsKept
<1>1. CASE /\ n = b /\ Confirms(b) /\ Head(batch[b]).from = a
           /\ Waits(a, b, Head(batch[b]).attempt)
  <2>1. /\ Handle(n) /\ h.type = "ACCEPT" /\ h.from = a
        /\ Begin(n, a, h.attempt, FALSE)
    BY <1>1 DEF Confirms
  <2>2. h \in Message /\ h.to = n /\ OnWay(h)
    BY <2>1, HandledMsg
  <2>3. /\ tentative'[n].partner = a /\ tentative'[n].attempt = h.attempt
        /\ ~tentative'[n].pending
    BY <2>1 DEF Begin, TypeInv, TypeOK
  <2>4. ASSUME NEW x \in Message, x.from = a, x.to = b, OnWay(x)'
        PROVE  Harmless(x, h.attempt)
    <3>1. Behind(h, x)
      BY <1>1, <2>1, <2>4, Handled
    <3>2. QED
      BY <1>1, <2>1, <2>2, <3>1 DEF NothingAfterAccept
  <2>5. ASSUME NEW x \in Message, x.type = "PROPOSE", x.from = b, x.to = a,
               Waits(b, a, x.attempt)', Unanswered(x)'
        PROVE  FALSE
    <3>1. x.attempt = h.attempt
      BY <1>1, <2>3, <2>5 DEF Waits, Holds
    <3>2. Answers(h, x)
      BY <1>1, <2>1, <2>2, <2>5, <3>1 DEF Answers
    <3>3. ~Unanswered(x)
      BY <2>2, <2>5, <3>2 DEF AnsweredOnce
    <3>4. QED
      BY <2>1, <2>5, <3>3, UnansweredStep, OneKind
  <2>6. \A x \in Message : Waits(b, a, x.attempt)' => x.attempt = h.attempt
    BY <1>1, <2>3 DEF Waits, Holds
  <2>7. QED
    BY <1>1, <2>3, <2>4, <2>5, <2>6 DEF Harmless
<1>2. CASE Bound(a, b)
  <2>0. ~IsMatched(b)
    BY BoundStep
  <2>1. /\ offers[b][a] # 0 => tentative[b].partner = a /\ ~tentative[b].pending
        /\ \A x \in Message : x.from = a /\ x.to = b /\ OnWay(x) =>
             /\ x.type \notin {"PROPOSE", "ACCEPT", "CONFIRM", "CANCEL"}
             /\ x.type \in {"REJECT", "REJECT_MATCHED"} => ~Waits(b, a, x.attempt)
        /\ \A x \in Message :
             x.type = "PROPOSE" /\ x.from = b /\ x.to = a /\ Waits(b, a, x.attempt) =>
               ~Unanswered(x)
    BY <1>2, <2>0 DEF BoundIsKept
  <2>2. ASSUME NEW k, Waits(b, a, k)' PROVE Waits(b, a, k)
    <3>1. ASSUME b = n, Confirms(n), h.from = a PROVE FALSE
      <4>1. h \in Message /\ h.to = n /\ OnWay(h) /\ h.type = "ACCEPT"
        BY <3>1, HandledMsg DEF Confirms
      <4>2. QED
        BY <2>1, <3>1, <4>1
    <3>2. ASSUME b = n, Accepts(n), offers[n][a] # 0 PROVE FALSE
      BY <2>1, <3>2, EndpointAssumption DEF Accepts, IsNegotiating
    <3>3. QED
      BY <2>2, <3>1, <3>2, WaitsStep
  <2>3. offers'[b][a] # 0 => tentative'[b].partner = a /\ ~tentative'[b].pending
    <3> SUFFICES ASSUME offers'[b][a] # 0
                 PROVE  tentative'[b].partner = a /\ ~tentative'[b].pending
      OBVIOUS
    <3>1. CASE b # n
      BY <2>1, <3>1, LocalFrame
    <3>2. ASSUME b = n, Handle(n), h.type = "PROPOSE", h.from = a PROVE FALSE
      <4>1. h \in Message /\ h.to = n /\ OnWay(h)
        BY <3>2, HandledMsg
      <4>2. QED
        BY <2>1, <3>2, <4>1
    <3>3. CASE b = n /\ offers[b][a] # 0
      <4>0. tentative[n].partner = a /\ ~tentative[n].pending /\ IsNegotiating(n)
        BY <2>1, <3>3, EndpointAssumption DEF IsNegotiating
      <4>1. CASE Keeps(n)
        BY <3>3, <4>0, <4>1 DEF Keeps
      <4>2. ~Refused(n)
        <5> SUFFICES ASSUME Refused(n) PROVE FALSE
          OBVIOUS
        <5>1. /\ Handle(n) /\ h.type \in {"REJECT", "REJECT_MATCHED", "CANCEL"}
              /\ Holds(n, h.from, h.attempt)
          BY DEF Refused
        <5>2. h \in Message /\ h.to = n /\ OnWay(h)
          BY <5>1, HandledMsg
        <5>3. h.from = a /\ Waits(n, a, h.attempt)
          BY <4>0, <5>1 DEF Holds, Waits
        <5>4. QED
          BY <2>1, <3>3, <5>1, <5>2, <5>3
      <4>3. ~Confirms(n)
        BY <4>0 DEF Confirms, Asks
      <4>4. ~Commit(n)
        <5> SUFFICES ASSUME Commit(n) PROVE FALSE
          OBVIOUS
        <5>1. Handle(n) /\ matchedTo'[n] = h.from
          BY CommitHandles DEF Commit, TypeInv, TypeOK
        <5>2. h.from \in Nodes
          BY <5>1, HandledMsg
        <5>3. QED
          BY <3>3, <5>1, <5>2, EndpointAssumption DEF IsMatched
      <4>5. ~Expires(n)
        BY <3>3 DEF Expires, WayShape, NoOffers
      <4>6. ~Accepts(n) /\ ~Proposes(n)
        BY <4>0 DEF Accepts, Proposes
      <4>7. QED
        BY <4>1, <4>2, <4>3, <4>4, <4>5, <4>6, NegotiationStep
    <3>4. QED
      BY <3>1, <3>2, <3>3, OffersStep
  <2>4. ASSUME NEW x \in Message, x.from = a, x.to = b, OnWay(x)'
        PROVE  /\ x.type \notin {"PROPOSE", "ACCEPT", "CONFIRM", "CANCEL"}
               /\ x.type \in {"REJECT", "REJECT_MATCHED"} =>
                    ~Waits(b, a, x.attempt)'
    <3>1. CASE OnWay(x)
      BY <2>1, <2>2, <2>4, <3>1
    <3>2. CASE x \in outbox'[n] /\ ~Send(n) /\ x.from = n
      <4>0. x.attempt \in 1..MaxEpoch /\ a = n
        BY <2>4, <3>2, IsMsg
      <4>1. \/ IsMatched(n) /\ ~IsNegotiating(n)
            \/ IsNegotiating(n) /\ ~tentative[n].pending
        BY <1>2, <4>0, EndpointAssumption
           DEF Bound, Waits, Holds, IsMatched, IsNegotiating,
               MatchedHasNoNegotiation
      <4>2. x.type # "PROPOSE"
        BY <3>2, <4>1, NewMessage DEF Proposes
      <4>3. x.type # "CONFIRM"
        BY <2>4, <3>2, <4>0, <4>1, NewMessage, EndpointAssumption
           DEF Asks, Holds, IsNegotiating
      <4>4. ASSUME x.type = "ACCEPT" PROVE FALSE
        <5>1. /\ Resolve(n) /\ ~IsMatched(n) /\ offers[n][b] = x.attempt
              /\ Waits(n, b, x.attempt)'
          BY <2>4, <3>2, <4>4, NewMessage
        <5>2. Waits(n, b, x.attempt)
          BY <4>1, <5>1, WaitsStep, OneKind DEF Accepts, Confirms
        <5>3. PICK y \in Message : /\ y.type = "CONFIRM" /\ y.from = b /\ y.to = n
                                   /\ OnWay(y) /\ Waits(n, b, y.attempt)
          BY <1>2, <4>0, <5>1, EndpointAssumption DEF Bound, IsMatched
        <5>4. PICK p \in Message : /\ p.type = "PROPOSE" /\ p.from = b /\ p.to = n
                                   /\ p.attempt = x.attempt /\ Offered(p)
          BY <4>0, <5>1, OfferedMsg
        <5>5. Answers(y, p)
          BY <5>2, <5>3, <5>4 DEF Waits, Holds, Answers
        <5>6. QED
          BY <5>3, <5>4, <5>5 DEF AnsweredOnce, Unanswered
      <4>5. ASSUME x.type = "CANCEL" PROVE FALSE
        <5>1. Expires(n) /\ matchedTo'[n] = matchedTo[n]
          BY <3>2, <4>5, NewMessage
        <5>2. tentative'[n] = NoNegotiation /\ ~IsMatched(n)
          <6>1. IsNegotiating(n) /\ Clear(n)
            BY <5>1 DEF Expires
          <6>2. QED
            BY <6>1, ClearType DEF TypeInv, MatchedHasNoNegotiation
        <5>3. matchedTo'[n] # b
          BY <5>1, <5>2, EndpointAssumption DEF IsMatched
        <5>4. \A k : ~Waits(n, b, k)'
          BY <5>2, EndpointAssumption DEF Waits, Holds, NoNegotiation
        <5>5. QED
          BY <4>0, <5>3, <5>4 DEF Bound
      <4>6. ASSUME x.type \in {"REJECT", "REJECT_MATCHED"},
                   Waits(b, a, x.attempt)'
            PROVE  FALSE
        <5>1. offers[n][b] = x.attempt
          BY <2>4, <3>2, <4>6, NewMessage
        <5>2. PICK p \in Message : /\ p.type = "PROPOSE" /\ p.from = b /\ p.to = n
                                   /\ p.attempt = x.attempt /\ Offered(p)
          BY <4>0, <5>1, OfferedMsg
        <5>3. Waits(b, a, p.attempt)
          BY <2>2, <4>6, <5>2
        <5>4. QED
          BY <2>1, <4>0, <5>2, <5>3 DEF Unanswered
      <4>7. QED
        BY <4>2, <4>3, <4>4, <4>5, <4>6
    <3>3. QED
      BY <2>4, <3>1, <3>2, OnWayStep
  <2>5. ASSUME NEW x \in Message, x.type = "PROPOSE", x.from = b, x.to = a,
               Waits(b, a, x.attempt)', Unanswered(x)'
        PROVE  FALSE
    <3>1. Waits(b, a, x.attempt)
      BY <2>2, <2>5
    <3>2. ~Unanswered(x)
      BY <2>1, <2>5, <3>1
    <3>3. b = n /\ Proposes(n)
      BY <2>5, <3>2, UnansweredStep
    <3>4. QED
      BY <3>1, <3>3, EndpointAssumption DEF Waits, Holds, Proposes, IsNegotiating
  <2>6. QED
    BY <2>3, <2>4, <2>5
<1>3. QED
  BY <1>1, <1>2, BoundStep

\* Nothing is on its way when a run starts.
LEMMA NegotiationInvInit == Init => NegotiationInv
<1> SUFFICES ASSUME Init PROVE NegotiationInv
  OBVIOUS
<1>1. \A n \in Nodes : Way(n) = <<>>
  <2>1. <<>> \in Seq(Message) /\ <<>> \o <<>> = <<>>
    BY ConcatEmptySeq
  <2>2. QED
    BY <2>1 DEF Init, Way
<1>2. ASSUME NEW x \in Message PROVE ~OnWay(x)
  <2>1. x.from \in Nodes /\ x.to \in Nodes
    BY IsMsg
  <2>2. ~Travels(x)
    BY <1>1, <2>1 DEF Travels
  <2>3. QED
    BY <2>1, <2>2 DEF Init, OnWay
<1>3. WayShape
  BY DEF Init, WayShape
<1>4. FreshAttempts
  BY <1>2 DEF Init, FreshAttempts, NoNegotiation, NoOffers
<1>5. \A x, y \in Message : ~Behind(x, y)
  BY <1>2, BehindOnWay
<1>6. AnsweredOnce
  BY <1>2, <1>5 DEF AnsweredOnce
<1>7. AskingIsUncommitted /\ NothingAfterAccept
  BY <1>2, <1>5 DEF AskingIsUncommitted, NothingAfterAccept
<1>8. BoundIsKept
  <2>1. \A n, m \in Nodes : ~Bound(n, m)
    BY <1>2, EndpointAssumption DEF Init, Bound
  <2>2. QED
    BY <2>1 DEF BoundIsKept
<1>9. QED
  BY <1>3, <1>4, <1>6, <1>7, <1>8 DEF NegotiationInv

\* Every step keeps the invariant.
LEMMA NegotiationInvStep ==
  ASSUME IInv, NegotiationInv, [Next]_vars
  PROVE  NegotiationInv'
<1>1. CASE UNCHANGED vars
  <2>0. UNCHANGED <<mailbox, batch, outbox, offers, step, tentative, epoch,
                    matchedTo>>
    BY <1>1 DEF vars
  <2>1. \A r : Way(r)' = Way(r)
    BY <2>0 DEF Way
  <2>2. /\ \A x : OnWay(x)' = OnWay(x)
        /\ \A x, y : Behind(x, y)' = Behind(x, y)
    BY <2>0, <2>1 DEF OnWay, Behind, Travels
  <2>3. /\ \A a, b, k : Asks(a, b, k)' = Asks(a, b, k)
        /\ \A a, b, k : Waits(a, b, k)' = Waits(a, b, k)
    BY <2>0 DEF Asks, Waits, Holds
  <2>4. \A x : Offered(x)' = Offered(x) /\ Unanswered(x)' = Unanswered(x)
    BY <2>0, <2>2 DEF Offered, Unanswered
  <2>5. WayShape' /\ FreshAttempts'
    BY <2>0, <2>2 DEF NegotiationInv, WayShape, FreshAttempts
  <2>6. AnsweredOnce'
    BY <2>2, <2>4 DEF NegotiationInv, AnsweredOnce, Answers
  <2>7. AskingIsUncommitted' /\ NothingAfterAccept'
    BY <2>2, <2>3 DEF NegotiationInv, AskingIsUncommitted, NothingAfterAccept,
                      Harmless
  <2>8. \A a, b : Bound(a, b)' = Bound(a, b) /\ IsMatched(b)' = IsMatched(b)
    BY <2>0, <2>2, <2>3 DEF Bound, IsMatched
  <2>9. BoundIsKept'
    BY <2>0, <2>2, <2>3, <2>4, <2>8 DEF NegotiationInv, BoundIsKept
  <2>10. QED
    BY <2>5, <2>6, <2>7, <2>9 DEF NegotiationInv
<1>2. ASSUME NEW n \in Nodes, NodeStep(n) PROVE NegotiationInv'
  <2>1. WayShape'
    BY <1>2, WayShapeStep DEF NegotiationInv
  <2>2. QED
    BY <1>2, <2>1, FreshAttemptsStep, AnsweredOnceStep, AskingIsUncommittedStep,
       NothingAfterAcceptStep, BoundIsKeptStep DEF NegotiationInv
<1>3. QED
  BY <1>1, <1>2 DEF Next, Terminated

\* The invariant holds of every behaviour.
LEMMA NegotiationInductive == Spec => [](IInv /\ NegotiationInv)
<1>1. Init => NegotiationInv
  BY NegotiationInvInit
<1>2. IInv /\ NegotiationInv /\ [Next]_vars => NegotiationInv'
  BY NegotiationInvStep
<1> HIDE DEF IInv
<1>3. QED
  BY <1>1, <1>2, Inductive, PTL DEF Spec

-----------------------------------------------------------------------------
(* The properties                                                          *)

\* _receive_confirm does not look at PROPOSAL_PENDING, and attempt numbers of
\* different proposers coincide: still every endpoint that commits has been
\* accepted, or has accepted, before.
THEOREM CommitsOnlyWhenAnsweredCorrect == Spec => CommitsOnlyWhenAnswered
<1>1. ASSUME IInv, NegotiationInv, NEW n \in Nodes, NodeStep(n),
             NEW o \in Nodes, matchedTo'[o] # matchedTo[o]
      PROVE  ~tentative[o].pending
  <2> DEFINE h == Head(batch[n])
  <2>1. o = n /\ Commit(n)
    BY <1>1, OnlyCommitMatches, LocalFrame
  <2>2. Handle(n) /\ h.type \in {"CONFIRM", "CONFIRM_ACK"} /\ Holds(n, h.from, h.attempt)
    <3>1. Handle(n)
      BY <1>1, <2>1, CommitHandles
    <3>2. QED
      BY <2>1, <3>1 DEF Commit, Handling
  <2>3. h \in Message /\ h.to = n /\ OnWay(h)
    BY <1>1, <2>2, HandledMsg DEF NegotiationInv
  <2>4. ~Asks(n, h.from, h.attempt)
    BY <1>1, <2>2, <2>3 DEF NegotiationInv, AskingIsUncommitted
  <2>5. QED
    BY <2>1, <2>2, <2>4 DEF Asks
<1>2. IInv /\ NegotiationInv /\ [Next]_vars =>
        [\A n \in Nodes : matchedTo'[n] # matchedTo[n] => ~tentative[n].pending]_vars
  BY <1>1 DEF Next, Terminated, vars
<1> HIDE DEF IInv
<1>3. QED
  BY <1>2, NegotiationInductive, PTL DEF Spec, CommitsOnlyWhenAnswered

\* No REJECT or CANCEL, however old, and no proposal of its own takes a
\* proposer out of a match that its partner has already written: only its
\* deadline does, which is where one-sided matches come from.
THEOREM OnlyExpiryAbandonsAPartnerCorrect == Spec => OnlyExpiryAbandonsAPartner
<1>1. ASSUME IInv, NegotiationInv, NEW o \in Nodes, NodeStep(o),
             NEW n \in Nodes, NEW m \in Nodes,
             matchedTo[m] = n, tentative[n].partner = m, ~tentative[n].pending,
             tentative'[n].attempt # tentative[n].attempt
      PROVE  matchedTo'[n] = m \/ tentative[n].left = 0
  <2> DEFINE h == Head(batch[n])
  <2>1. o = n /\ IsNegotiating(n) /\ ~IsMatched(n)
    BY <1>1, LocalFrame, EndpointAssumption
       DEF IsNegotiating, MatchedHasNoNegotiation
  <2>2. ~Keeps(n) /\ ~Confirms(n) /\ ~Accepts(n) /\ ~Proposes(n)
    BY <1>1, <2>1 DEF Keeps, Confirms, Asks, Accepts, Proposes
  <2>3. ~Refused(n)
    <3> SUFFICES ASSUME Refused(n) PROVE FALSE
      OBVIOUS
    <3>1. /\ Handle(n) /\ h.type \in {"REJECT", "REJECT_MATCHED", "CANCEL"}
          /\ Holds(n, h.from, h.attempt)
      BY DEF Refused
    <3>2. h \in Message /\ h.to = n /\ OnWay(h)
      BY <1>1, <2>1, <3>1, HandledMsg DEF NegotiationInv
    <3>3. h.from = m /\ Waits(n, m, h.attempt)
      BY <1>1, <3>1 DEF Holds, Waits
    <3>4. Bound(m, n)
      BY <1>1 DEF Bound
    <3>5. QED
      BY <1>1, <2>1, <3>1, <3>2, <3>3, <3>4 DEF NegotiationInv, BoundIsKept
  <2>4. CASE Commit(n)
    BY <1>1, <2>4 DEF Commit, Holds, TypeInv, TypeOK
  <2>5. CASE Expires(n)
    BY <2>5 DEF Expires
  <2>6. QED
    BY <1>1, <2>1, <2>2, <2>3, <2>4, <2>5, NegotiationStep
<1>2. IInv /\ NegotiationInv /\ [Next]_vars =>
        [\A n, m \in Nodes :
           /\ matchedTo[m] = n
           /\ tentative[n].partner = m
           /\ ~tentative[n].pending
           /\ tentative'[n].attempt # tentative[n].attempt
           => matchedTo'[n] = m \/ tentative[n].left = 0]_vars
  BY <1>1 DEF Next, Terminated, vars
<1> HIDE DEF IInv
<1>3. QED
  BY <1>2, NegotiationInductive, PTL DEF Spec, OnlyExpiryAbandonsAPartner

=============================================================================
