--------------------------- MODULE OneWorkerProofs ---------------------------
(***************************************************************************)
(* Runs with one worker, from whatever graph, order of nodes and policies. *)
(* One worker ticks one node at a time, and the queue lets every other     *)
(* active node have its tick before that node has its next.  So whoever    *)
(* has asked an endpoint for something finds the answer in its own next    *)
(* tick: no deadline ever passes, no match is one-sided, and a quiescent   *)
(* run has found a maximal matching.  With policies that always propose a  *)
(* run of N nodes is quiescent within 2N(N + 1) ticks.                     *)
(***************************************************************************)
EXTENDS DistributedNodeProofs, FiniteSetTheorems

USE EndpointAssumption

-----------------------------------------------------------------------------
(* What the steps of an endpoint do                                        *)

USE DEF IInv

\* Where a step finds its node and where it leaves it.
LEMMA StepTable ==
  ASSUME IInv, NEW n \in Nodes, NodeStep(n)
  PROVE  \/ Receive(n) /\ step[n] = "idle" /\ step'[n] = "handle"
         \/ Send(n) /\ step' = step
         \/ Handle(n) /\ step[n] = "handle" /\ step' = step
         \/ /\ Resolve(n) /\ step[n] = "handle" /\ batch[n] = <<>>
            /\ step'[n] = "expire"
         \/ Expire(n) /\ step[n] = "expire" /\ step'[n] = "propose"
         \/ Propose(n) /\ step[n] = "propose" /\ step'[n] = "finish"
         \/ (Finish(n) \/ Continue(n)) /\ step[n] = "finish" /\ step'[n] = "idle"
<1> USE DEF TypeInv, TypeOK, At, GoTo
<1>1. CASE Handle(n)
  BY <1>1 DEF Handle, ReceivePropose, ReceiveAccept, ReceiveReject,
              ReceiveConfirm, ReceiveCancel, ReceiveMatched, Handling, Consume
<1>2. CASE Resolve(n)
  BY <1>2 DEF Resolve, ResolveMatched, ResolveBusy, ResolveFree, Resolving,
              EndResolution
<1>3. CASE Receive(n) \/ Send(n)
  BY <1>3 DEF Receive, Send
<1>4. CASE Expire(n) \/ Propose(n)
  BY <1>4 DEF Expire, Propose
<1>5. CASE Finish(n) \/ Continue(n)
  BY <1>5 DEF Finish, Continue
<1>6. QED
  BY <1>1, <1>2, <1>3, <1>4, <1>5 DEF NodeStep

\* A message stays on its way until its recipient handles it.
LEMMA OnWayKept ==
  ASSUME IInv, WayShape, NEW n \in Nodes, NodeStep(n),
         NEW x \in Message, OnWay(x)
  PROVE  OnWay(x)' \/ (Handle(n) /\ x = Head(batch[n]))
<1>0. x.from \in Nodes /\ x.to \in Nodes
  BY IsMsg
<1>1. CASE Handle(n)
  <2>1. /\ Way(n) \in Seq(Message) /\ Way(n) # <<>>
        /\ Way(n)' = Tail(Way(n)) /\ Head(Way(n)) = Head(batch[n])
        /\ \A r \in Nodes \ {n} : Way(r)' = Way(r)
    BY <1>1, WayHandle, WayType
  <2>2. ASSUME x \in outbox[x.from] PROVE x \in outbox'[x.from]
    BY <1>0, <1>1, <2>2, OutboxFrame, WayHandle
  <2>3. ASSUME Travels(x), x # Head(batch[n]) PROVE Travels(x)'
    <3>1. CASE x.to # n
      BY <1>0, <2>1, <2>3, <3>1 DEF Travels
    <3>2. CASE x.to = n
      <4>1. PICK i \in 1..Len(Way(n)) : Way(n)[i] = x
        BY <2>3, <3>2 DEF Travels
      <4>2. /\ Len(Tail(Way(n))) = Len(Way(n)) - 1 /\ Len(Way(n)) \in Nat
            /\ \A j \in 1..Len(Tail(Way(n))) : Tail(Way(n))[j] = Way(n)[j + 1]
            /\ Head(Way(n)) = Way(n)[1]
        BY <2>1, HeadTailProperties, LenProperties
      <4>3. i # 1
        BY <2>1, <2>3, <4>1, <4>2
      <4>4. i - 1 \in 1..Len(Tail(Way(n))) /\ Tail(Way(n))[i - 1] = x
        BY <4>1, <4>2, <4>3
      <4>5. QED
        BY <2>1, <3>2, <4>4 DEF Travels
    <3>3. QED
      BY <3>1, <3>2
  <2>4. QED
    BY <1>1, <2>2, <2>3 DEF OnWay
<1>2. CASE Send(n)
  <2>1. PICK m \in outbox[n] :
           /\ m \in Message
           /\ outbox' = [outbox EXCEPT ![n] = @ \ {m}]
           /\ Way(m.to)' = Append(Way(m.to), m)
           /\ \A r \in Nodes \ {m.to} : Way(r)' = Way(r)
    BY <1>2, WaySend
  <2>2. m.to \in Nodes /\ m.from = n
    BY <2>1, IsMsg DEF InFlightSound
  <2>3. /\ Way(m.to) \in Seq(Message) /\ Len(Way(m.to)) \in Nat
        /\ Len(Way(m.to)') = Len(Way(m.to)) + 1
        /\ \A i \in 1..Len(Way(m.to)) : Way(m.to)'[i] = Way(m.to)[i]
        /\ Way(m.to)'[Len(Way(m.to)) + 1] = m
    BY <2>1, <2>2, WayType, AppendProperties
  <2>4. ASSUME Travels(x) PROVE Travels(x)'
    BY <1>0, <2>1, <2>2, <2>3, <2>4 DEF Travels
  <2>5. ASSUME x \in outbox[x.from] PROVE OnWay(x)'
    <3>1. CASE x = m
      BY <2>3, <3>1 DEF OnWay, Travels
    <3>2. CASE x # m
      BY <1>0, <2>1, <2>5, <3>2 DEF OnWay, TypeInv, TypeOK
    <3>3. QED
      BY <3>1, <3>2
  <2>6. QED
    BY <2>4, <2>5 DEF OnWay
<1>3. CASE ~Handle(n) /\ ~Send(n)
  <2>1. Travels(x)' <=> Travels(x)
    BY <1>0, <1>3, WayElse DEF Travels
  <2>2. x \in outbox[x.from] => x \in outbox'[x.from]
    BY <1>0, <1>3, OutboxFrame
  <2>3. QED
    BY <2>1, <2>2 DEF OnWay
<1>4. QED
  BY <1>1, <1>2, <1>3

\* Every sender of an offer is answered with the attempt it offered.
LEMMA EveryOfferIsAnswered ==
  ASSUME IInv, NEW n \in Nodes, Resolve(n), NEW s \in Nodes, offers[n][s] # 0
  PROVE  \E y \in Message :
           /\ y.type \in {"ACCEPT", "REJECT", "REJECT_MATCHED"}
           /\ y.from = n /\ y.to = s /\ y.attempt = offers[n][s]
           /\ y \in outbox'[n]
<1>1. s \in Offerers(n) /\ offers[n][s] \in 1..MaxEpoch
  BY DEF Offerers, TypeInv, TypeOK
<1>2. ASSUME NEW answer, Reply(n, answer),
             answer[s] \in {"ACCEPT", "REJECT", "REJECT_MATCHED"}
      PROVE  \E y \in Message :
               /\ y.type \in {"ACCEPT", "REJECT", "REJECT_MATCHED"}
               /\ y.from = n /\ y.to = s /\ y.attempt = offers[n][s]
               /\ y \in outbox'[n]
  <2>1. Msg(answer[s], n, s, offers[n][s]) \in outbox'[n]
    BY <1>1, <1>2 DEF Reply, Queue, TypeInv, TypeOK
  <2>2. /\ Msg(answer[s], n, s, offers[n][s]) \in Message
        /\ Msg(answer[s], n, s, offers[n][s]).type = answer[s]
        /\ Msg(answer[s], n, s, offers[n][s]).from = n
        /\ Msg(answer[s], n, s, offers[n][s]).to = s
        /\ Msg(answer[s], n, s, offers[n][s]).attempt = offers[n][s]
    <3>1. answer[s] \in MessageType
      BY <1>2 DEF MessageType
    <3>2. QED
      BY <1>1, <3>1, MsgFields
  <2>3. QED
    BY <1>2, <2>1, <2>2
<1>3. CASE ResolveMatched(n)
  BY <1>2, <1>3 DEF ResolveMatched
<1>4. CASE ResolveBusy(n)
  BY <1>2, <1>4 DEF ResolveBusy, BusyAnswer
<1>5. CASE ResolveFree(n)
  <2>1. PICK w \in Offerers(n) :
          Reply(n, [t \in Nodes |-> IF t = w THEN "ACCEPT" ELSE "REJECT"])
    BY <1>1, <1>5 DEF ResolveFree
  <2>2. QED
    BY <1>2, <2>1
<1>6. QED
  BY <1>3, <1>4, <1>5 DEF Resolve

\* An endpoint that begins a negotiation with an offer accepts the offer,
LEMMA AcceptIsSent ==
  ASSUME IInv, NEW n \in Nodes, Accepts(n)
  PROVE  \E w \in Nodes : \E y \in Message :
           /\ y.type = "ACCEPT" /\ y.from = n /\ y.to = w
           /\ y.attempt = offers[n][w] /\ y \in outbox'[n]
           /\ Begin(n, w, offers[n][w], FALSE)
<1>1. PICK v \in Offerers(n) : Begin(n, v, offers[n][v], FALSE)
  BY DEF Accepts
<1>2. tentative'[n] # tentative[n]
  BY <1>1 DEF Accepts, IsNegotiating, Begin, Offerers, TypeInv, TypeOK
<1>3. ResolveFree(n) /\ ~UNCHANGED negotiation
  BY <1>2 DEF Accepts, Resolve, ResolveMatched, ResolveBusy, negotiation
<1>4. PICK w \in Offerers(n) :
        /\ Begin(n, w, offers[n][w], FALSE)
        /\ Reply(n, [t \in Nodes |-> IF t = w THEN "ACCEPT" ELSE "REJECT"])
  BY <1>3 DEF ResolveFree
<1>5. w \in Nodes /\ offers[n][w] \in 1..MaxEpoch
  <2>1. w \in Nodes /\ offers[n][w] # 0
    BY DEF Offerers
  <2>2. QED
    BY <2>1 DEF TypeInv, TypeOK
<1>6. Msg("ACCEPT", n, w, offers[n][w]) \in outbox'[n]
  BY <1>4, <1>5 DEF Reply, Queue, TypeInv, TypeOK
<1>7. /\ Msg("ACCEPT", n, w, offers[n][w]) \in Message
      /\ Msg("ACCEPT", n, w, offers[n][w]).type = "ACCEPT"
      /\ Msg("ACCEPT", n, w, offers[n][w]).from = n
      /\ Msg("ACCEPT", n, w, offers[n][w]).to = w
      /\ Msg("ACCEPT", n, w, offers[n][w]).attempt = offers[n][w]
  BY <1>5, MsgFields DEF MessageType
<1>8. QED
  BY <1>4, <1>5, <1>6, <1>7

\* one that begins it with a proposal proposes, to an eligible neighbour,
LEMMA ProposalIsSent ==
  ASSUME IInv, NEW n \in Nodes, Proposes(n)
  PROVE  \E m \in Nodes : \E y \in Message :
           /\ y.type = "PROPOSE" /\ y.from = n /\ y.to = m
           /\ y.attempt = epoch[n] + 1 /\ y \in outbox'[n]
           /\ Begin(n, m, epoch[n] + 1, TRUE)
           /\ MayPropose(n, m) /\ m \in Neighbors(n)
<1>1. PICK v \in Neighbors(n) : Begin(n, v, epoch[n] + 1, TRUE)
  BY DEF Proposes
<1>2. tentative'[n] # tentative[n]
  BY <1>1 DEF Proposes, IsNegotiating, Begin, Neighbors, TypeInv, TypeOK
<1>3. PICK m \in Neighbors(n) :
        /\ MayPropose(n, m)
        /\ Begin(n, m, epoch[n] + 1, TRUE)
        /\ Queue(n, {Msg("PROPOSE", n, m, epoch[n] + 1)})
  BY <1>2 DEF Proposes, Propose, negotiation
<1>4. m \in Nodes /\ epoch[n] + 1 \in 1..MaxEpoch
  BY DEF Neighbors, Proposes
<1>5. Msg("PROPOSE", n, m, epoch[n] + 1) \in outbox'[n]
  BY <1>3 DEF Queue, TypeInv, TypeOK
<1>6. /\ Msg("PROPOSE", n, m, epoch[n] + 1) \in Message
      /\ Msg("PROPOSE", n, m, epoch[n] + 1).type = "PROPOSE"
      /\ Msg("PROPOSE", n, m, epoch[n] + 1).from = n
      /\ Msg("PROPOSE", n, m, epoch[n] + 1).to = m
      /\ Msg("PROPOSE", n, m, epoch[n] + 1).attempt = epoch[n] + 1
  BY <1>4, MsgFields DEF MessageType
<1>7. QED
  BY <1>3, <1>4, <1>5, <1>6

\* and one whose proposal is accepted confirms.
LEMMA ConfirmationIsSent ==
  ASSUME IInv, WayShape, NEW n \in Nodes, Handle(n),
         Head(batch[n]).type = "ACCEPT",
         Asks(n, Head(batch[n]).from, Head(batch[n]).attempt)
  PROVE  /\ Begin(n, Head(batch[n]).from, Head(batch[n]).attempt, FALSE)
         /\ \E y \in Message :
              /\ y.type = "CONFIRM" /\ y.from = n /\ y.to = Head(batch[n]).from
              /\ y.attempt = Head(batch[n]).attempt /\ y \in outbox'[n]
<1> DEFINE h == Head(batch[n])
<1>1. h \in Message /\ h.from \in Nodes /\ h.attempt \in 1..MaxEpoch
  BY HandledMsg
<1>2. ReceiveAccept(n) /\ AnswersProposal(n, h)
  BY DEF Handle, ReceivePropose, ReceiveReject, ReceiveConfirm, ReceiveCancel,
         ReceiveMatched, Handling, Asks, AnswersProposal
<1>3. Begin(n, h.from, h.attempt, FALSE) /\ Queue(n, {Confirmation(n, h)})
  BY <1>2 DEF ReceiveAccept
<1>4. Msg("CONFIRM", n, h.from, h.attempt) \in outbox'[n]
  BY <1>3 DEF Queue, Confirmation, TypeInv, TypeOK
<1>5. /\ Msg("CONFIRM", n, h.from, h.attempt) \in Message
      /\ Msg("CONFIRM", n, h.from, h.attempt).type = "CONFIRM"
      /\ Msg("CONFIRM", n, h.from, h.attempt).from = n
      /\ Msg("CONFIRM", n, h.from, h.attempt).to = h.from
      /\ Msg("CONFIRM", n, h.from, h.attempt).attempt = h.attempt
  BY <1>1, MsgFields DEF MessageType
<1>6. QED
  BY <1>3, <1>4, <1>5

\* A commitment is announced to every neighbour but the partner, which is
\* told if the message was its CONFIRM.
LEMMA CommitIsAnnounced ==
  ASSUME IInv, WayShape, NEW n \in Nodes, NodeStep(n), Handle(n), Commit(n)
  PROVE  /\ \A o \in Neighbors(n) \ {Head(batch[n]).from} :
              \E y \in Message : /\ y.type = "MATCHED" /\ y.from = n /\ y.to = o
                                 /\ y \in outbox'[n]
         /\ Head(batch[n]).type = "CONFIRM" =>
              \E y \in Message : /\ y.type = "CONFIRM_ACK" /\ y.from = n
                                 /\ y.to = Head(batch[n]).from
                                 /\ y.attempt = Head(batch[n]).attempt
                                 /\ y \in outbox'[n]
<1> DEFINE h == Head(batch[n])
<1>1. h \in Message /\ h.from \in Nodes /\ h.attempt \in 1..MaxEpoch
  BY HandledMsg
<1>2. outbox'[n] = Announcements(n, h.from, h.attempt) \cup Acknowledgement(n, h)
  BY DEF Commit, Queue, TypeInv, TypeOK
<1>3. ASSUME NEW o \in Neighbors(n) \ {h.from}
      PROVE  \E y \in Message : /\ y.type = "MATCHED" /\ y.from = n /\ y.to = o
                                /\ y \in outbox'[n]
  <2>1. Msg("MATCHED", n, o, h.attempt) \in outbox'[n] /\ o \in Nodes
    BY <1>2, <1>3 DEF Announcements, Neighbors
  <2>2. /\ Msg("MATCHED", n, o, h.attempt) \in Message
        /\ Msg("MATCHED", n, o, h.attempt).type = "MATCHED"
        /\ Msg("MATCHED", n, o, h.attempt).from = n
        /\ Msg("MATCHED", n, o, h.attempt).to = o
    <3>1. "MATCHED" \in MessageType
      BY DEF MessageType
    <3>2. QED
      BY <1>1, <2>1, <3>1, MsgFields
  <2>3. QED
    BY <2>1, <2>2
<1>4. ASSUME h.type = "CONFIRM"
      PROVE  \E y \in Message : /\ y.type = "CONFIRM_ACK" /\ y.from = n
                                /\ y.to = h.from /\ y.attempt = h.attempt
                                /\ y \in outbox'[n]
  <2>1. Msg("CONFIRM_ACK", n, h.from, h.attempt) \in outbox'[n]
    BY <1>2, <1>4 DEF Acknowledgement
  <2>2. /\ Msg("CONFIRM_ACK", n, h.from, h.attempt) \in Message
        /\ Msg("CONFIRM_ACK", n, h.from, h.attempt).type = "CONFIRM_ACK"
        /\ Msg("CONFIRM_ACK", n, h.from, h.attempt).from = n
        /\ Msg("CONFIRM_ACK", n, h.from, h.attempt).to = h.from
        /\ Msg("CONFIRM_ACK", n, h.from, h.attempt).attempt = h.attempt
    BY <1>1, MsgFields DEF MessageType
  <2>3. QED
    BY <2>1, <2>2
<1>5. QED
  BY <1>3, <1>4

\* A refusal or a commitment is heeded by the node that holds the attempt.
LEMMA HandledIsHeeded ==
  ASSUME IInv, WayShape, NEW n \in Nodes, NodeStep(n), Handle(n),
         Holds(n, Head(batch[n]).from, Head(batch[n]).attempt)
  PROVE  /\ Head(batch[n]).type \in {"CONFIRM", "CONFIRM_ACK"} => Commit(n)
         /\ Head(batch[n]).type \in {"REJECT", "REJECT_MATCHED"} =>
              ~IsNegotiating(n)'
<1> DEFINE h == Head(batch[n])
<1>1. h.type \in {"CONFIRM", "CONFIRM_ACK"} => ReceiveConfirm(n)
  BY DEF Handle, ReceivePropose, ReceiveReject, ReceiveAccept, ReceiveCancel,
         ReceiveMatched, Handling
<1>2. h.type \in {"REJECT", "REJECT_MATCHED"} => ReceiveReject(n)
  BY DEF Handle, ReceivePropose, ReceiveConfirm, ReceiveAccept, ReceiveCancel,
         ReceiveMatched, Handling
<1>3. ASSUME ReceiveReject(n) PROVE ~IsNegotiating(n)'
  <2>1. Clear(n)
    BY <1>3 DEF ReceiveReject
  <2>2. tentative'[n] = NoNegotiation
    BY <2>1, ClearType DEF TypeInv
  <2>3. QED
    BY <2>2 DEF IsNegotiating, NoNegotiation
<1>4. QED
  BY <1>1, <1>2, <1>3 DEF ReceiveConfirm, Commit

\* Nobody forgets which neighbours are taken.
LEMMA UnavailableKept ==
  ASSUME IInv, NEW n \in Nodes, NodeStep(n), NEW o \in Nodes
  PROVE  /\ unavailable[o] \subseteq unavailable'[o]
         /\ Handle(n) /\ Head(batch[n]).type = "MATCHED" =>
              Head(batch[n]).from \in unavailable'[n]
<1> USE DEF TypeInv, TypeOK
<1>1. CASE Handle(n)
  <2>1. CASE ReceiveMatched(n)
    <3>1. MarkUnavailable(n, Head(batch[n]).from)
      BY <2>1 DEF ReceiveMatched
    <3>2. QED
      BY <3>1 DEF MarkUnavailable
  <2>2. CASE ReceiveReject(n)
    <3>1. Head(batch[n]).type # "MATCHED"
      BY <2>2 DEF ReceiveReject, Handling
    <3>2. MarkUnavailable(n, Head(batch[n]).from) \/ UNCHANGED unavailable
      BY <2>2 DEF ReceiveReject
    <3>3. unavailable[o] \subseteq unavailable'[o]
      <4>1. CASE UNCHANGED unavailable
        BY <4>1
      <4>2. CASE MarkUnavailable(n, Head(batch[n]).from)
        BY <4>2 DEF MarkUnavailable
      <4>3. QED
        BY <3>2, <4>1, <4>2
    <3>4. QED
      BY <3>1, <3>3, Zenon
  <2>3. CASE ~ReceiveMatched(n) /\ ~ReceiveReject(n)
    BY <1>1, <2>3 DEF Handle, ReceivePropose, ReceiveConfirm, ReceiveAccept,
                      ReceiveCancel, Handling, knowledge
  <2>4. QED
    BY <2>1, <2>2, <2>3
<1>2. CASE Resolve(n)
  BY <1>2, OneKind DEF Resolve, ResolveMatched, ResolveBusy, ResolveFree, EndResolution,
              knowledge
<1>3. CASE ~Handle(n) /\ ~Resolve(n)
  BY <1>3 DEF NodeStep, Receive, Send, Expire, Propose, Finish, Continue,
              knowledge, local
<1>4. QED
  BY <1>1, <1>2, <1>3

-----------------------------------------------------------------------------
(* The invariant of a run with one worker                                  *)

\* The hypothesis: one worker, and nobody withdrawn before the run.  A
\* withdrawn node answers nobody.
OneWorker == MaxWorkers = 1 /\ PreMatched = {}

Ticks(n) == MidTick(n) \/ EndTick(n)

\* Only the node that is being ticked is anywhere in a tick; what is sent to
\* it has been drained.
InTurn ==
  /\ phase # "failed"
  /\ \A n, m \in inFlight : n = m
  /\ \A n \in Nodes : n \notin Executor!Running => step[n] = "idle" /\ outbox[n] = {}
  /\ \A n \in Nodes : step[n] # "idle" => mailbox[n] = <<>>

\* x has been sent and not been answered.
Open(x) == OnWay(x) \/ (x.type = "PROPOSE" /\ Offered(x))

\* The endpoints of an open message are in the negotiation it is about.
Current(x) ==
  /\ x.type = "PROPOSE" => Asks(x.from, x.to, x.attempt) /\ x.to \notin finished
  /\ x.type = "ACCEPT" =>
       Waits(x.from, x.to, x.attempt) /\ Asks(x.to, x.from, x.attempt)
  /\ x.type \in {"REJECT", "REJECT_MATCHED"} => Asks(x.to, x.from, x.attempt)
  /\ x.type = "CONFIRM" =>
       Waits(x.from, x.to, x.attempt) /\ Waits(x.to, x.from, x.attempt)
  /\ x.type = "CONFIRM_ACK" => Waits(x.to, x.from, x.attempt)
  /\ x.type # "CANCEL"

OpenIsCurrent == \A x \in Message : Open(x) => Current(x)

\* A proposal is refused once, and then not accepted; a match is confirmed
\* and acknowledged once, and confirmed from one side only.
SaidOnce ==
  \A x, y \in Message : x.attempt = y.attempt =>
    /\ x.type \in {"REJECT", "REJECT_MATCHED"} /\ OnWay(x)
         /\ y.type = "PROPOSE" /\ y.from = x.to /\ y.to = x.from => ~Unanswered(y)
    /\ x.type \in {"REJECT", "REJECT_MATCHED"} /\ Behind(x, y) =>
         y.type \notin {"ACCEPT", "REJECT", "REJECT_MATCHED"}
    /\ x.type \in {"CONFIRM", "CONFIRM_ACK"} /\ Behind(x, y) => y.type # x.type
    /\ x.type = "CONFIRM" /\ OnWay(x) /\ y.type = "CONFIRM" /\ OnWay(y) =>
         ~(y.from = x.to /\ y.to = x.from)

\* m ends its current tick, or has its next, before n drains its mailbox.
Before(m, n) ==
  \/ m \in Executor!Running
  \/ m \in Executor!Queued /\ n \in inFlight /\ (n \in done \/ step[n] # "idle")
  \/ \E i, j \in 1..Len(ready) : i < j /\ ready[i] = m /\ ready[j] = n

\* The partner's answer in n's negotiation is on its way to n.
Answered(n) ==
  \E x \in Message :
    /\ x.to = n /\ Holds(n, x.from, x.attempt) /\ OnWay(x)
    /\ x.type \in {"ACCEPT", "REJECT", "REJECT_MATCHED", "CONFIRM", "CONFIRM_ACK"}

\* The partner has something to answer, and will before n's next tick.
Requested(n) ==
  \E x \in Message :
    /\ x.from = n /\ Holds(n, x.to, x.attempt) /\ Open(x)
    /\ x.type \in {"PROPOSE", "ACCEPT", "CONFIRM"}
    /\ Before(x.to, n)

UnderWay == \A n \in Nodes : IsNegotiating(n) => Answered(n) \/ Requested(n)

\* A negotiation that is older than the tick is answered in the tick.
Timely ==
  \A n \in Nodes : IsNegotiating(n) =>
    /\ step[n] = "handle" => tentative[n].left = ProposalTimeout \/ Answered(n)
    /\ step[n] \in {"expire", "propose", "finish"} => tentative[n].left = ProposalTimeout

\* A free node has written off its matched neighbours, or hears of them.
Aware ==
  \A m, n \in Nodes : IsMatched(m) /\ n \in Neighbors(m) /\ ~IsMatched(n) =>
    \/ m \in unavailable[n]
    \/ \E x \in Message : /\ x.from = m /\ x.to = n /\ OnWay(x)
                          /\ x.type \in {"MATCHED", "CONFIRM_ACK"}

\* A match is mutual, or will be when the acknowledgement is handled.
Mutual ==
  \A n \in Nodes : IsMatched(n) =>
    \/ matchedTo[matchedTo[n]] = n
    \/ \E x \in Message : /\ x.from = n /\ x.to = matchedTo[n] /\ OnWay(x)
                          /\ x.type = "CONFIRM_ACK"

\* Nobody finishes within a negotiation, and nobody has but in a tick.
Stopped ==
  \A n \in finished : /\ ~IsNegotiating(n) /\ n \notin Executor!Running
                       /\ (IsMatched(n) \/ n \in terminalUnmatched)

\* The inductive invariant, beside RunInv.
OneInv ==
  /\ InTurn
  /\ OpenIsCurrent
  /\ SaidOnce
  /\ UnderWay
  /\ Timely
  /\ Aware
  /\ Mutual
  /\ Stopped

-----------------------------------------------------------------------------
(* A tick                                                                  *)

\* What RunInv says of the endpoints and the executor.
LEMMA RunFacts ==
  ASSUME RunInv
  PROVE  /\ IInv /\ NegotiationInv /\ WayShape
         /\ done \subseteq inFlight /\ inFlight \subseteq Nodes
         /\ collected \subseteq done
         /\ ready \in Seq(Nodes) /\ Len(ready) \in Nat
         /\ Executor!Queued \cap inFlight = {}
         /\ \A i \in 1..Len(ready) : ready[i] \in Executor!Queued
         /\ phase \in {"fill", "collect", "ended", "failed"}
         /\ phase \in {"fill", "collect"} => Nodes \ finished \subseteq Executor!Queued \cup inFlight
         /\ phase = "ended" => inFlight = {}
<1>1. /\ ready \in Seq(Nodes) /\ Len(ready) \in Nat /\ DOMAIN ready = 1..Len(ready)
  BY LenProperties DEF RunInv, Loop!IInv, Loop!ExecutorTypeOK
<1>2. Executor!Queued = Loop!Queued
  BY DEF Executor!Queued, Loop!Queued, Executor!Range, Loop!Range
<1>3. \A i \in 1..Len(ready) : ready[i] \in Executor!Queued
  BY <1>1 DEF Executor!Queued, Executor!Range
<1>4. QED
  BY <1>1, <1>2, <1>3
     DEF RunInv, NegotiationInv, Loop!IInv, Loop!ExecutorTypeOK,
         Loop!OneTickPerNode, Loop!NoActiveNodeForgotten, Loop!EndsIdleOrExhausted

\* What a step of a tick leaves the executor.
LEMMA TickFrame ==
  ASSUME IInv, NEW n \in Nodes, Ticks(n)
  PROVE  /\ NodeStep(n) /\ n \in Executor!Running
         /\ ready' = ready /\ inFlight' = inFlight /\ phase' = phase
         /\ \/ done' = done /\ ~Finish(n) /\ ~Continue(n)
            \/ done' = done \cup {n} /\ (Finish(n) \/ Continue(n))
<1>1. CASE EndTick(n)
  BY <1>1 DEF EndTick, Executor!Complete, NodeStep
<1>2. CASE MidTick(n)
  <2>1. NodeStep(n) /\ n \in Executor!Running /\ UNCHANGED schedulerVars
    BY <1>2 DEF MidTick, NodeStep
  <2>2. ~Finish(n) /\ ~Continue(n)
    <3> SUFFICES ASSUME step[n] = "finish", step'[n] = "idle" PROVE FALSE
      BY DEF Finish, Continue, At, GoTo, TypeInv, TypeOK
    <3>1. CASE Receive(n) \/ Send(n)
      BY <3>1 DEF Receive, Send, GoTo, TypeInv, TypeOK
    <3>2. CASE Handle(n) \/ Resolve(n)
      BY <3>2 DEF Handle, ReceivePropose, ReceiveAccept, ReceiveReject,
                  ReceiveConfirm, ReceiveCancel, ReceiveMatched, Handling,
                  Resolve, ResolveMatched, ResolveBusy, ResolveFree, Resolving,
                  At
    <3>3. CASE Expire(n) \/ Propose(n)
      BY <3>3 DEF Expire, Propose, At
    <3>4. QED
      BY <1>2, <3>1, <3>2, <3>3 DEF MidTick
  <2>3. QED
    BY <2>1, <2>2 DEF schedulerVars
<1>3. QED
  BY <1>1, <1>2 DEF Ticks

\* While one node is ticked all others are between their ticks.
LEMMA Solo ==
  ASSUME RunInv, InTurn, NEW n \in Executor!Running
  PROVE  /\ n \in Nodes /\ n \in inFlight /\ n \notin done
         /\ \A o \in Nodes \ {n} : /\ o \notin inFlight /\ o \notin Executor!Running
                                  /\ step[o] = "idle" /\ outbox[o] = {}
<1>1. n \in inFlight /\ n \notin done /\ n \in Nodes
  BY RunFacts DEF Executor!Running
<1>2. \A o \in Nodes \ {n} : o \notin inFlight /\ o \notin Executor!Running
  BY <1>1 DEF InTurn, Executor!Running
<1>3. QED
  BY <1>1, <1>2 DEF InTurn

\* Once a tick has handled its batch nothing is on its way to its node.
LEMMA NothingComes ==
  ASSUME RunInv, InTurn, NEW n \in Executor!Running, step[n] # "idle",
         batch[n] = <<>>, NEW x \in Message, x.to = n
  PROVE  ~OnWay(x)
<1>1. /\ IInv /\ n \in Nodes /\ x.from \in Nodes
      /\ \A o \in Nodes \ {n} : outbox[o] = {}
  BY RunFacts, Solo, IsMsg
<1>2. Way(n) = <<>>
  <2>1. mailbox[n] = <<>> /\ <<>> \in Seq(Message) /\ <<>> \o <<>> = <<>>
    BY <1>1, ConcatEmptySeq DEF InTurn
  <2>2. QED
    BY <2>1 DEF Way
<1>3. ~Travels(x)
  BY <1>2 DEF Travels
<1>4. x \notin outbox[n]
  <2> SUFFICES ASSUME x \in outbox[n] PROVE FALSE
    OBVIOUS
  <2>1. n \in Neighbors(x.from) /\ x.from = n
    BY <1>1 DEF InFlightSound, SoundFor
  <2>2. QED
    BY <1>1, <2>1, NotOwnNeighbor
<1>5. QED
  BY <1>1, <1>3, <1>4 DEF OnWay

\* Nor has it an offer left then.
LEMMA NothingIsOpen ==
  ASSUME RunInv, InTurn, NEW n \in Executor!Running,
         step[n] \notin {"idle", "handle"}, NEW x \in Message, x.to = n
  PROVE  ~Open(x)
<1>1. batch[n] = <<>> /\ offers[n] = NoOffers /\ n \in Nodes
  BY RunFacts, Solo DEF WayShape
<1>2. ~OnWay(x)
  BY <1>1, NothingComes
<1>3. ~Offered(x)
  BY <1>1, IsMsg DEF Offered, NoOffers
<1>4. QED
  BY <1>2, <1>3 DEF Open

\* With every partner's answer in time, no deadline passes.
LEMMA NotExpired ==
  ASSUME RunInv, Timely, NEW n \in Nodes
  PROVE  ~Expires(n)
BY DEF Timely, Expires

\* A negotiating node is active, so it is in the queue while another is ticked.
LEMMA PartnerIsQueued ==
  ASSUME RunInv, InTurn, NEW n \in Executor!Running, NEW m \in Nodes,
         m # n, m \notin finished
  PROVE  m \in Executor!Queued
<1>1. phase \in {"fill", "collect"}
  BY RunFacts, Solo DEF InTurn
<1>2. QED
  BY <1>1, RunFacts, Solo

LEMMA NegotiatingIsActive ==
  ASSUME Stopped, NEW a \in Nodes, NEW b \in Nodes, NEW k, Holds(a, b, k)
  PROVE  a \notin finished /\ IsNegotiating(a)
BY DEF Stopped, Holds, IsNegotiating

\* What becomes of a proposer that asks: it is answered.
LEMMA AsksKept ==
  ASSUME RunInv, OneInv, NEW n \in Nodes, NodeStep(n),
         NEW a \in Nodes, NEW b \in Nodes, NEW k, Asks(a, b, k)
  PROVE  \/ Asks(a, b, k)'
         \/ /\ a = n /\ Handle(n)
            /\ Head(batch[n]).from = b /\ Head(batch[n]).attempt = k
            /\ Head(batch[n]).type \in {"ACCEPT", "REJECT", "REJECT_MATCHED"}
<1> DEFINE h == Head(batch[n])
<1>0. IInv /\ NegotiationInv /\ WayShape
  BY RunFacts
<1>1. CASE a # n
  BY <1>0, <1>1, LocalFrame DEF Asks, Holds
<1>2. CASE a = n
  <2>0. IsNegotiating(n)
    BY <1>2 DEF IsNegotiating, Asks, Holds
  <2>1. CASE Keeps(n)
    BY <1>2, <2>1 DEF Keeps, Asks, Holds
  <2>2. ASSUME Handle(n), h.type \in {"CONFIRM", "CONFIRM_ACK"},
               Holds(n, h.from, h.attempt)
        PROVE  FALSE
    <3>1. h \in Message /\ h.to = n /\ OnWay(h)
      BY <1>0, <2>2, HandledMsg
    <3>2. ~Asks(n, h.from, h.attempt)
      BY <1>0, <2>2, <3>1 DEF NegotiationInv, AskingIsUncommitted
    <3>3. QED
      BY <1>2, <2>2, <3>2 DEF Asks, Holds
  <2>3. CASE Commit(n)
    BY <1>0, <2>2, <2>3, CommitHandles DEF Commit, Handling
  <2>4. CASE Refused(n)
    <3>1. h \in Message /\ OnWay(h)
      BY <1>0, <2>4, HandledMsg DEF Refused
    <3>2. h.type # "CANCEL"
      BY <3>1 DEF OneInv, OpenIsCurrent, Open, Current
    <3>3. QED
      BY <1>2, <2>4, <3>2 DEF Refused, Asks, Holds
  <2>5. CASE Confirms(n)
    BY <1>2, <2>5 DEF Confirms, Asks, Holds
  <2>6. QED
    BY <1>0, <2>0, <2>1, <2>3, <2>4, <2>5, NotExpired, NegotiationStep
       DEF OneInv, Accepts, Proposes
<1>3. QED
  BY <1>1, <1>2

\* What becomes of an endpoint that waits for a commitment: it commits.
LEMMA WaitsKept ==
  ASSUME RunInv, OneInv, NEW n \in Nodes, NodeStep(n),
         NEW a \in Nodes, NEW b \in Nodes, NEW k, Waits(a, b, k)
  PROVE  \/ Waits(a, b, k)'
         \/ /\ a = n /\ Handle(n)
            /\ Head(batch[n]).from = b /\ Head(batch[n]).attempt = k
            /\ Head(batch[n]).type \in {"CONFIRM", "CONFIRM_ACK"}
<1> DEFINE h == Head(batch[n])
<1>0. IInv /\ NegotiationInv /\ WayShape
  BY RunFacts
<1>1. CASE a # n
  BY <1>0, <1>1, LocalFrame DEF Waits, Holds
<1>2. CASE a = n
  <2>0. IsNegotiating(n)
    BY <1>2 DEF IsNegotiating, Waits, Holds
  <2>1. CASE Keeps(n)
    BY <1>2, <2>1 DEF Keeps, Waits, Holds
  <2>3. CASE Commit(n)
    BY <1>0, <1>2, <2>3, CommitHandles DEF Commit, Handling, Waits, Holds
  <2>4. CASE Refused(n)
    <3>1. h \in Message /\ h.to = n /\ OnWay(h)
      BY <1>0, <2>4, HandledMsg DEF Refused
    <3>2. h.type # "CANCEL"
          /\ (h.type \in {"REJECT", "REJECT_MATCHED"} => Asks(n, h.from, h.attempt))
      BY <3>1 DEF OneInv, OpenIsCurrent, Open, Current
    <3>3. QED
      BY <1>2, <2>4, <3>2 DEF Refused, Waits, Asks
  <2>5. ~Confirms(n)
    BY <1>2 DEF Confirms, Asks, Waits
  <2>6. QED
    BY <1>0, <2>0, <2>1, <2>3, <2>4, <2>5, NotExpired, NegotiationStep
       DEF OneInv, Accepts, Proposes
<1>3. QED
  BY <1>1, <1>2

\* What is open was so before, or the step queued it.
LEMMA OpenStep ==
  ASSUME IInv, NegotiationInv, NEW n \in Nodes, NodeStep(n), NEW x \in Message, Open(x)'
  PROVE  \/ Open(x) /\ ~(x.type = "PROPOSE" /\ Resolve(n) /\ x.to = n /\ Offered(x))
         \/ x \in outbox'[n] /\ ~Send(n) /\ x.from = n
<1>1. CASE x.type = "PROPOSE"
  BY <1>1, UnansweredStep DEF Open, Unanswered
<1>2. CASE x.type # "PROPOSE"
  BY <1>2, OnWayStep DEF Open, NegotiationInv
<1>3. QED
  BY <1>1, <1>2

\* The neighbour a node proposes to is free: the node would have heard.
LEMMA ProposalReachesFree ==
  ASSUME RunInv, OneInv, NEW n \in Executor!Running, step[n] = "propose",
         NEW m \in Neighbors(n), MayPropose(n, m)
  PROVE  ~IsMatched(m)
<1> SUFFICES ASSUME IsMatched(m) PROVE FALSE
  OBVIOUS
<1>1. m \in Nodes /\ n \in Nodes /\ n \in Neighbors(m) /\ ~IsMatched(n)
  BY Solo, NeighborsSymmetric DEF OneInv, MayPropose
<1>2. m \notin unavailable[n]
  BY DEF MayPropose, Eligible
<1>3. \E x \in Message : x.to = n /\ OnWay(x)
  BY <1>1, <1>2 DEF OneInv, Aware
<1>4. QED
  BY <1>3, NothingIsOpen DEF OneInv, Open

\* The neighbour a node proposes to is active: were it matched, the node
\* would have heard, and were it terminal_unmatched, the node would be matched.
LEMMA ProposalReachesActive ==
  ASSUME RunInv, OneInv, NEW n \in Executor!Running, step[n] = "propose",
         NEW m \in Neighbors(n), MayPropose(n, m)
  PROVE  m \notin finished
<1> SUFFICES ASSUME m \in finished PROVE FALSE
  OBVIOUS
<1>0. m \in Nodes /\ n \in Nodes /\ n \in Neighbors(m) /\ IInv /\ ~IsMatched(n)
  <2>1. n \in Nodes
    BY Solo DEF OneInv
  <2>2. {n, m} = {m, n}
    OBVIOUS
  <2>3. QED
    BY <2>1, <2>2, RunFacts DEF Neighbors, MayPropose
<1>1. ~IsMatched(m)
  BY ProposalReachesFree
<1>2. CASE m \in terminalUnmatched
  BY <1>0, <1>2 DEF TerminalUnmatchedIsIsolated
<1>3. QED
  BY <1>1, <1>2 DEF OneInv, Stopped

\* A message on its way is sound.
LEMMA WaySound ==
  ASSUME IInv, NEW x \in Message, OnWay(x)
  PROVE  x \in SoundFor(x.to)
<1>0. x.from \in Nodes /\ x.to \in Nodes
  BY IsMsg
<1>1. CASE x \in outbox[x.from]
  BY <1>0, <1>1 DEF InFlightSound
<1>2. CASE Travels(x)
  <2>1. batch[x.to] \in Seq(SoundFor(x.to)) /\ mailbox[x.to] \in Seq(SoundFor(x.to))
    BY <1>0 DEF InFlightSound
  <2>2. Way(x.to) \in Seq(SoundFor(x.to))
    BY <2>1, ConcatProperties DEF Way
  <2>3. QED
    BY <1>2, <2>2, ElementOfSeq DEF Travels
<1>3. QED
  BY <1>1, <1>2 DEF OnWay

\* A step of a tick leaves every other node between its ticks.
LEMMA InTurnStep ==
  ASSUME RunInv, InTurn, NEW n \in Nodes, Ticks(n)
  PROVE  InTurn'
<1>0. IInv /\ NodeStep(n) /\ n \in Executor!Running
  BY RunFacts, TickFrame
<1>1. phase' # "failed" /\ \A a, b \in inFlight' : a = b
  BY <1>0, TickFrame DEF InTurn
<1>2. ASSUME NEW o \in Nodes, o \notin inFlight' \ done'
      PROVE  step'[o] = "idle" /\ outbox'[o] = {}
  <2>1. CASE o # n
    BY <1>0, <2>1, Solo, LocalFrame, OutboxFrame
  <2>2. CASE o = n
    <3>1. Finish(n) \/ Continue(n)
      BY <1>0, <1>2, <2>2, TickFrame DEF Executor!Running
    <3>2. outbox[n] = {} /\ UNCHANGED outbox
      BY <3>1 DEF Finish, Continue, At
    <3>3. step'[n] = "idle"
      BY <1>0, <3>1 DEF Finish, Continue, GoTo, TypeInv, TypeOK
    <3>4. QED
      BY <2>2, <3>2, <3>3
  <2>3. QED
    BY <2>1, <2>2
<1>3. ASSUME NEW o \in Nodes, step'[o] # "idle"
      PROVE  mailbox'[o] = <<>>
  <2>1. o = n
    BY <1>0, <1>3, Solo, LocalFrame
  <2>2. CASE Receive(n)
    BY <1>0, <2>1, <2>2 DEF Receive, TypeInv, TypeOK
  <2>3. CASE Send(n)
    <3>1. PICK m \in outbox[n] : mailbox' = [mailbox EXCEPT ![m.to] = Append(@, m)]
      BY <2>3 DEF Send
    <3>2. m.from = n /\ m \in SoundFor(m.to)
      BY <1>0 DEF InFlightSound
    <3>3. m.to # n
      BY <3>2, NotOwnNeighbor DEF SoundFor
    <3>4. step[n] # "idle"
      BY <1>3, <2>1, <2>3 DEF Send
    <3>5. QED
      BY <1>0, <2>1, <3>1, <3>3, <3>4 DEF InTurn, TypeInv, TypeOK
  <2>4. CASE ~Receive(n) /\ ~Send(n)
    <3>1. step[n] # "idle" /\ ~Finish(n) /\ ~Continue(n)
      <4>1. ~Finish(n) /\ ~Continue(n)
        BY <1>0, <1>3, <2>1 DEF Finish, Continue, GoTo, TypeInv, TypeOK
      <4>2. QED
        BY <1>0, <2>4, <4>1, StepTable
    <3>2. UNCHANGED mailbox
      <4>1. CASE Handle(n)
        BY <4>1 DEF Handle, ReceivePropose, ReceiveAccept, ReceiveReject,
                    ReceiveConfirm, ReceiveCancel, ReceiveMatched, Consume
      <4>2. CASE Resolve(n)
        BY <4>2 DEF Resolve, ResolveMatched, ResolveBusy, ResolveFree,
                    EndResolution
      <4>3. CASE Expire(n) \/ Propose(n)
        BY <4>3 DEF Expire, Propose
      <4>4. QED
        BY <1>0, <2>4, <3>1, <4>1, <4>2, <4>3 DEF NodeStep
    <3>3. QED
      BY <2>1, <3>1, <3>2 DEF InTurn
  <2>5. QED
    BY <2>2, <2>3, <2>4
<1>4. QED
  BY <1>1, <1>2, <1>3 DEF InTurn, Executor!Running

\* Whoever has sent an acknowledgement holds no negotiation.
LEMMA AckEndsNegotiation ==
  ASSUME IInv, NEW x \in Message, OnWay(x), x.type = "CONFIRM_ACK"
  PROVE  /\ matchedTo[x.from] = x.to
         /\ \A b \in Nodes : \A k : ~Asks(x.from, b, k) /\ ~Waits(x.from, b, k)
<1>1. matchedTo[x.from] = x.to /\ x.from \in Nodes /\ x.to \in Nodes
  BY WaySound, IsMsg DEF SoundFor
<1>2. ~IsNegotiating(x.from)
  BY <1>1 DEF MatchedHasNoNegotiation, IsMatched
<1>3. QED
  BY <1>1, <1>2 DEF Asks, Waits, Holds, IsNegotiating

\* An open message is about the negotiation its endpoints are in, until it is
\* answered.
LEMMA OpenStaysCurrent ==
  ASSUME RunInv, OneInv, NEW n \in Nodes, Ticks(n),
         NEW x \in Message, Open(x), Open(x)'
  PROVE  Current(x)'
<1> DEFINE h == Head(batch[n])
<1>0. /\ IInv /\ NegotiationInv /\ WayShape /\ NodeStep(n) /\ n \in Executor!Running
      /\ x.from \in Nodes /\ x.to \in Nodes /\ x.type \in MessageType
      /\ Current(x)
  BY RunFacts, TickFrame, IsMsg DEF OneInv, OpenIsCurrent
<1>1. ASSUME Handle(n)
      PROVE  /\ h \in Message /\ h.to = n /\ h.from \in Nodes /\ OnWay(h)
             /\ Current(h)
             /\ h.type = "CONFIRM_ACK" =>
                  \A b \in Nodes : \A k : ~Asks(h.from, b, k) /\ ~Waits(h.from, b, k)
             /\ x.to = n /\ x.from = h.from /\ x.type # "PROPOSE" => Behind(h, x)
  <2>1. h \in Message /\ h.to = n /\ h.from \in Nodes /\ OnWay(h)
    BY <1>0, <1>1, HandledMsg
  <2>2. Current(h)
    BY <2>1 DEF OneInv, OpenIsCurrent, Open
  <2>3. x.to = n /\ x.from = h.from /\ x.type # "PROPOSE" => Behind(h, x)
    BY <1>0, <1>1, Handled DEF Open
  <2>4. QED
    BY <1>0, <2>1, <2>2, <2>3, AckEndsNegotiation
<1>2. SaidOnce /\ NothingAfterAccept
  BY <1>0 DEF OneInv, NegotiationInv
<1>3. CASE x.type = "PROPOSE"
  <2>1. Asks(x.from, x.to, x.attempt) /\ x.to \notin finished /\ Unanswered(x)
    BY <1>0, <1>3 DEF Current, Open, Unanswered
  <2>2. Asks(x.from, x.to, x.attempt)'
    <3> SUFFICES ASSUME x.from = n, Handle(n), h.from = x.to, h.attempt = x.attempt,
                        h.type \in {"ACCEPT", "REJECT", "REJECT_MATCHED"}
                 PROVE  FALSE
      BY <1>0, <2>1, AsksKept
    <3>1. CASE h.type = "ACCEPT"
      <4>1. Answers(h, x)
        BY <1>1, <3>1 DEF Answers
      <4>2. QED
        BY <1>0, <1>1, <1>3, <2>1, <4>1 DEF NegotiationInv, AnsweredOnce
    <3>2. CASE h.type \in {"REJECT", "REJECT_MATCHED"}
      BY <1>1, <1>2, <1>3, <2>1, <3>2 DEF SaidOnce
    <3>3. QED
      BY <3>1, <3>2
  <2>3. x.to \notin finished'
    <3> SUFFICES ASSUME x.to = n, Finish(n) PROVE FALSE
      BY <2>1, FinishedStep DEF Ticks, EndTick
    <3>1. step[n] = "finish"
      BY DEF Finish, At
    <3>2. QED
      BY <1>0, <3>1, NothingIsOpen DEF OneInv
  <2>4. QED
    BY <1>3, <2>2, <2>3 DEF Current
<1>4. CASE x.type = "ACCEPT"
  <2>1. Waits(x.from, x.to, x.attempt) /\ Asks(x.to, x.from, x.attempt)
    BY <1>0, <1>4 DEF Current
  <2>2. Waits(x.from, x.to, x.attempt)'
    <3> SUFFICES ASSUME x.from = n, Handle(n), h.from = x.to, h.attempt = x.attempt,
                        h.type \in {"CONFIRM", "CONFIRM_ACK"}
                 PROVE  FALSE
      BY <1>0, <2>1, WaitsKept
    <3>1. h.type = "CONFIRM" => Waits(h.from, n, x.attempt)
      BY <1>1 DEF Current
    <3>2. QED
      BY <1>0, <1>1, <2>1, <3>1 DEF Waits, Asks
  <2>3. Asks(x.to, x.from, x.attempt)'
    <3> SUFFICES ASSUME x.to = n, Handle(n), h.from = x.from, h.attempt = x.attempt,
                        h.type \in {"ACCEPT", "REJECT", "REJECT_MATCHED"}
                 PROVE  FALSE
      BY <1>0, <2>1, AsksKept
    <3>1. Behind(h, x)
      BY <1>1, <1>4
    <3>2. h.type = "ACCEPT" => Waits(h.from, h.to, h.attempt)
      BY <1>1, <2>1
    <3>3. h.type # "ACCEPT"
      BY <1>1, <1>2, <1>4, <3>1, <3>2 DEF NothingAfterAccept, Harmless
    <3>4. QED
      BY <1>1, <1>2, <1>4, <3>1, <3>3 DEF SaidOnce
  <2>4. QED
    BY <1>4, <2>2, <2>3 DEF Current
<1>5. CASE x.type \in {"REJECT", "REJECT_MATCHED"}
  <2>1. Asks(x.to, x.from, x.attempt)
    BY <1>0, <1>5 DEF Current
  <2>2. Asks(x.to, x.from, x.attempt)'
    <3> SUFFICES ASSUME x.to = n, Handle(n), h.from = x.from, h.attempt = x.attempt,
                        h.type \in {"ACCEPT", "REJECT", "REJECT_MATCHED"}
                 PROVE  FALSE
      BY <1>0, <2>1, AsksKept
    <3>1. Behind(h, x)
      BY <1>1, <1>5
    <3>2. h.type = "ACCEPT" => Waits(h.from, h.to, h.attempt)
      BY <1>1 DEF Current
    <3>3. h.type # "ACCEPT"
      BY <1>1, <1>2, <1>5, <3>1, <3>2 DEF NothingAfterAccept, Harmless
    <3>4. QED
      BY <1>1, <1>2, <1>5, <3>1, <3>3 DEF SaidOnce
  <2>3. QED
    BY <1>5, <2>2 DEF Current
<1>6. CASE x.type = "CONFIRM"
  <2>1. /\ Waits(x.from, x.to, x.attempt) /\ Waits(x.to, x.from, x.attempt)
        /\ OnWay(x)
    BY <1>0, <1>6 DEF Current, Open
  <2>2. Waits(x.from, x.to, x.attempt)'
    <3> SUFFICES ASSUME x.from = n, Handle(n), h.from = x.to, h.attempt = x.attempt,
                        h.type \in {"CONFIRM", "CONFIRM_ACK"}
                 PROVE  FALSE
      BY <1>0, <2>1, WaitsKept
    <3>1. h.type # "CONFIRM"
      BY <1>1, <1>2, <1>6, <2>1 DEF SaidOnce
    <3>2. QED
      BY <1>0, <1>1, <2>1, <3>1
  <2>3. Waits(x.to, x.from, x.attempt)'
    <3> SUFFICES ASSUME x.to = n, Handle(n), h.from = x.from, h.attempt = x.attempt,
                        h.type \in {"CONFIRM", "CONFIRM_ACK"}
                 PROVE  FALSE
      BY <1>0, <2>1, WaitsKept
    <3>1. Behind(h, x)
      BY <1>1, <1>6
    <3>2. h.type # "CONFIRM"
      BY <1>1, <1>2, <1>6, <3>1 DEF SaidOnce
    <3>3. QED
      BY <1>0, <1>1, <2>1, <3>2
  <2>4. QED
    BY <1>6, <2>2, <2>3 DEF Current
<1>7. CASE x.type = "CONFIRM_ACK"
  <2>1. Waits(x.to, x.from, x.attempt) /\ OnWay(x)
    BY <1>0, <1>7 DEF Current, Open
  <2>2. Waits(x.to, x.from, x.attempt)'
    <3> SUFFICES ASSUME x.to = n, Handle(n), h.from = x.from, h.attempt = x.attempt,
                        h.type \in {"CONFIRM", "CONFIRM_ACK"}
                 PROVE  FALSE
      BY <1>0, <2>1, WaitsKept
    <3>1. h.type # "CONFIRM"
      <4>1. h.type = "CONFIRM" => Waits(x.from, n, x.attempt)
        BY <1>1 DEF Current
      <4>2. QED
        BY <1>0, <1>7, <2>1, <4>1, AckEndsNegotiation
    <3>2. QED
      BY <1>1, <1>2, <1>7, <3>1 DEF SaidOnce
  <2>3. QED
    BY <1>7, <2>2 DEF Current
<1>8. CASE x.type \in {"CANCEL", "MATCHED"}
  BY <1>0, <1>8 DEF Current
<1>9. QED
  BY <1>0, <1>3, <1>4, <1>5, <1>6, <1>7, <1>8 DEF MessageType

\* What a handler sends is about the negotiation it is in.
LEMMA SentIsCurrent ==
  ASSUME RunInv, OneInv, NEW n \in Nodes, Ticks(n),
         NEW x \in Message, x \in outbox'[n], ~Send(n), x.from = n
  PROVE  Current(x)'
<1> DEFINE h == Head(batch[n])
<1>0. /\ IInv /\ NegotiationInv /\ WayShape /\ NodeStep(n) /\ n \in Executor!Running
      /\ x.to \in Nodes /\ x.type \in MessageType /\ x.attempt \in 1..MaxEpoch
  BY RunFacts, TickFrame, IsMsg
<1>1. ASSUME Handle(n)
      PROVE  h \in Message /\ h.to = n /\ h.from \in Nodes \ {n} /\ Current(h)
  <2>1. h \in Message /\ h.to = n /\ h.from \in Nodes \ {n} /\ OnWay(h)
    BY <1>0, <1>1, HandledMsg
  <2>2. QED
    BY <2>1 DEF OneInv, OpenIsCurrent, Open
<1>2. ASSUME offers[n][x.to] = x.attempt
      PROVE  Asks(x.to, n, x.attempt)'
  <2>1. PICK p \in Message : /\ p.type = "PROPOSE" /\ p.from = x.to /\ p.to = n
                             /\ p.attempt = x.attempt /\ Offered(p)
    BY <1>0, <1>2, OfferedMsg
  <2>2. Asks(x.to, n, x.attempt) /\ x.to # n
    <3>1. Current(p)
      BY <2>1 DEF OneInv, OpenIsCurrent, Open
    <3>2. QED
      BY <1>0, <1>2, <2>1, <3>1, OfferedMsg DEF Current
  <2>3. QED
    BY <1>0, <2>2, LocalFrame DEF Asks, Holds
<1>3. ASSUME NEW k, NEW b \in Nodes \ {n}, Waits(b, n, k)
      PROVE  Waits(b, n, k)'
  BY <1>0, <1>3, LocalFrame DEF Waits, Holds
<1>4. CASE x.type = "PROPOSE"
  <2>1. Proposes(n) /\ Asks(n, x.to, x.attempt)'
    BY <1>0, <1>4, NewMessage
  <2>2. PICK m \in Nodes : /\ Begin(n, m, epoch[n] + 1, TRUE)
                           /\ MayPropose(n, m) /\ m \in Neighbors(n)
    BY <1>0, <2>1, ProposalIsSent
  <2>3. m = x.to
    BY <1>0, <2>1, <2>2 DEF Begin, Asks, Holds, TypeInv, TypeOK
  <2>4. step[n] = "propose" /\ finished' = finished
    BY <2>1 DEF Proposes, Propose, At, lifecycle
  <2>5. QED
    BY <1>0, <1>4, <2>1, <2>2, <2>3, <2>4, ProposalReachesActive DEF Current
<1>5. CASE x.type = "ACCEPT"
  BY <1>0, <1>2, <1>5, NewMessage DEF Current
<1>6. CASE x.type \in {"REJECT", "REJECT_MATCHED"}
  BY <1>0, <1>2, <1>6, NewMessage DEF Current
<1>7. CASE x.type = "CONFIRM"
  <2>1. /\ Confirms(n) /\ h.from = x.to /\ h.attempt = x.attempt
        /\ Waits(n, x.to, x.attempt)'
    BY <1>0, <1>7, NewMessage
  <2>2. Waits(x.to, n, x.attempt) /\ x.to # n
    BY <1>1, <2>1 DEF Confirms, Current
  <2>3. QED
    BY <1>0, <1>3, <1>7, <2>1, <2>2 DEF Current
<1>8. CASE x.type = "CONFIRM_ACK"
  <2>1. Handle(n) /\ h.type = "CONFIRM" /\ h.from = x.to /\ h.attempt = x.attempt
    BY <1>0, <1>8, NewMessage
  <2>2. Waits(x.to, n, x.attempt) /\ x.to # n
    BY <1>1, <2>1 DEF Current
  <2>3. QED
    BY <1>0, <1>3, <1>8, <2>2 DEF Current
<1>9. x.type # "CANCEL"
  BY <1>0, NewMessage, NotExpired DEF OneInv
<1>10. CASE x.type = "MATCHED"
  BY <1>10 DEF Current
<1>11. QED
  BY <1>0, <1>4, <1>5, <1>6, <1>7, <1>8, <1>9, <1>10 DEF MessageType

LEMMA OpenIsCurrentStep ==
  ASSUME RunInv, OneInv, NEW n \in Nodes, Ticks(n)
  PROVE  OpenIsCurrent'
<1>1. ASSUME NEW x \in Message, Open(x)' PROVE Current(x)'
  <2>1. IInv /\ NegotiationInv /\ NodeStep(n)
    BY RunFacts, TickFrame
  <2>2. QED
    BY <1>1, <2>1, OpenStep, OpenStaysCurrent, SentIsCurrent
<1>2. QED
  BY <1>1 DEF OpenIsCurrent

\* Nothing is said twice: an offer that has been refused is used up, and who
\* has confirmed or acknowledged is no longer asked to.
LEMMA SaidOnceStep ==
  ASSUME RunInv, OneInv, NEW n \in Nodes, Ticks(n)
  PROVE  SaidOnce'
<1> DEFINE h == Head(batch[n])
<1> SUFFICES
      ASSUME NEW x \in Message, NEW y \in Message, x.attempt = y.attempt
      PROVE  /\ x.type \in {"REJECT", "REJECT_MATCHED"} /\ OnWay(x)'
                  /\ y.type = "PROPOSE" /\ y.from = x.to /\ y.to = x.from =>
                    ~Unanswered(y)'
             /\ x.type \in {"REJECT", "REJECT_MATCHED"} /\ Behind(x, y)' =>
                  y.type \notin {"ACCEPT", "REJECT", "REJECT_MATCHED"}
             /\ x.type \in {"CONFIRM", "CONFIRM_ACK"} /\ Behind(x, y)' =>
                  y.type # x.type
             /\ x.type = "CONFIRM" /\ OnWay(x)' /\ y.type = "CONFIRM" /\ OnWay(y)' =>
                  ~(y.from = x.to /\ y.to = x.from)
  BY DEF SaidOnce
<1>0. /\ IInv /\ NegotiationInv /\ WayShape /\ NodeStep(n)
      /\ x.from \in Nodes /\ x.to \in Nodes /\ y.from \in Nodes /\ y.to \in Nodes
      /\ x.attempt \in 1..MaxEpoch /\ SaidOnce
  BY RunFacts, TickFrame, IsMsg DEF OneInv
<1>1. \A z \in Message : OnWay(z) => Current(z)
  BY DEF OneInv, OpenIsCurrent, Open
<1>2. ASSUME x.type \in {"REJECT", "REJECT_MATCHED"}, OnWay(x)',
             y.type = "PROPOSE", y.from = x.to, y.to = x.from, Unanswered(y)'
      PROVE  FALSE
  <2>1. CASE OnWay(x) /\ Unanswered(y)
    BY <1>0, <1>2, <2>1 DEF SaidOnce
  <2>2. CASE OnWay(x) /\ Proposes(n) /\ y.from = n
    <3>1. Asks(n, x.from, x.attempt)
      BY <1>1, <1>2, <2>2 DEF Current
    <3>2. QED
      BY <1>0, <2>2, <3>1 DEF Asks, Holds, Proposes, IsNegotiating
  <2>3. CASE x \in outbox'[n] /\ ~Send(n) /\ x.from = n
    <3>1. Resolve(n) /\ Offered(y)
      BY <1>0, <1>2, <2>3, NewMessage DEF Offered
    <3>2. QED
      BY <1>0, <1>2, <2>3, <3>1, UnansweredStep, OneKind
  <2>4. QED
    BY <1>0, <1>2, <2>1, <2>2, <2>3, OnWayStep, UnansweredStep
<1>3. ASSUME Behind(x, y)', ~Behind(x, y)
      PROVE  /\ OnWay(x) /\ y \in outbox'[n] /\ ~Send(n)
             /\ x.from = n /\ y.from = n /\ x.to = y.to
  BY <1>0, <1>3, BehindStep
<1>4. ASSUME x.type \in {"REJECT", "REJECT_MATCHED"}, Behind(x, y)',
             y.type \in {"ACCEPT", "REJECT", "REJECT_MATCHED"}
      PROVE  FALSE
  <2>1. ~Behind(x, y)
    BY <1>0, <1>4 DEF SaidOnce
  <2>2. offers[n][x.to] = x.attempt
    BY <1>0, <1>3, <1>4, <2>1, NewMessage
  <2>3. PICK p \in Message : /\ p.type = "PROPOSE" /\ p.from = x.to /\ p.to = n
                             /\ p.attempt = x.attempt /\ Offered(p)
    BY <1>0, <2>2, OfferedMsg
  <2>4. QED
    BY <1>0, <1>3, <1>4, <2>1, <2>3 DEF SaidOnce, Unanswered
<1>5. ASSUME x.type \in {"CONFIRM", "CONFIRM_ACK"}, Behind(x, y)', y.type = x.type
      PROVE  FALSE
  <2>1. ~Behind(x, y)
    BY <1>0, <1>5 DEF SaidOnce
  <2>2. CASE x.type = "CONFIRM"
    <3>1. Waits(n, x.to, x.attempt)
      BY <1>1, <1>3, <1>5, <2>1, <2>2 DEF Current
    <3>2. Asks(n, x.to, x.attempt)
      BY <1>0, <1>3, <1>5, <2>1, <2>2, NewMessage
    <3>3. QED
      BY <3>1, <3>2 DEF Waits, Asks
  <2>3. CASE x.type = "CONFIRM_ACK"
    <3>1. /\ Handle(n) /\ h.type = "CONFIRM" /\ h.from = x.to
          /\ h.attempt = x.attempt
      BY <1>0, <1>3, <1>5, <2>1, <2>3, NewMessage
    <3>2. h \in Message /\ h.to = n /\ OnWay(h)
      BY <1>0, <3>1, HandledMsg
    <3>3. Waits(n, x.to, x.attempt)
      BY <1>1, <3>1, <3>2 DEF Current
    <3>4. QED
      BY <1>0, <1>3, <1>5, <2>1, <2>3, <3>3, AckEndsNegotiation
  <2>4. QED
    BY <1>5, <2>2, <2>3
<1>6. ASSUME x.type = "CONFIRM", OnWay(x)', y.type = "CONFIRM", OnWay(y)',
             y.from = x.to, y.to = x.from
      PROVE  FALSE
  <2>1. ASSUME NEW z \in Message, z.type = "CONFIRM", z.attempt = x.attempt,
               z \in outbox'[n], ~Send(n), z.from = n
        PROVE  z.to # n /\ Asks(n, z.to, x.attempt)
    <3>1. Confirms(n) /\ Asks(n, z.to, x.attempt) /\ h.from = z.to
      BY <1>0, <2>1, NewMessage
    <3>2. QED
      BY <1>0, <3>1, HandledMsg DEF Confirms
  <2>2. ASSUME NEW z \in Message, z.type = "CONFIRM", z.attempt = x.attempt, OnWay(z)
        PROVE  Waits(z.from, z.to, x.attempt) /\ Waits(z.to, z.from, x.attempt)
    BY <1>1, <2>2 DEF Current
  <2>3. CASE OnWay(x) /\ OnWay(y)
    BY <1>0, <1>6, <2>3 DEF SaidOnce
  <2>4. CASE OnWay(x) /\ ~OnWay(y)
    <3>1. y \in outbox'[n] /\ ~Send(n) /\ y.from = n
      BY <1>0, <1>6, <2>4, OnWayStep
    <3>2. QED
      BY <1>6, <2>1, <2>2, <2>4, <3>1 DEF Asks, Waits
  <2>5. CASE ~OnWay(x)
    <3>1. x \in outbox'[n] /\ ~Send(n) /\ x.from = n
      BY <1>0, <1>6, <2>5, OnWayStep
    <3>2. Asks(n, x.to, x.attempt) /\ x.to # n
      BY <1>6, <2>1, <3>1
    <3>3. CASE OnWay(y)
      BY <1>6, <2>2, <3>1, <3>2, <3>3 DEF Asks, Waits
    <3>4. CASE ~OnWay(y)
      BY <1>0, <1>6, <3>2, <3>4, OnWayStep
    <3>5. QED
      BY <3>3, <3>4
  <2>6. QED
    BY <2>3, <2>4, <2>5
<1>7. QED
  BY <1>2, <1>4, <1>5, <1>6

\* The order of the ticks stands while a tick goes on.
LEMMA BeforeKept ==
  ASSUME RunInv, InTurn, NEW n \in Nodes, Ticks(n),
         NEW m \in Nodes, NEW o \in Nodes, Before(m, o)
  PROVE  Before(m, o)' \/ (m = n /\ (Finish(n) \/ Continue(n)))
<1>0. /\ IInv /\ NodeStep(n) /\ n \in Executor!Running
      /\ ready' = ready /\ inFlight' = inFlight
  BY RunFacts, TickFrame
<1>1. CASE m \in Executor!Running
  <2>1. m = n
    BY <1>0, <1>1, Solo
  <2>2. Finish(n) \/ Continue(n) \/ done' = done
    BY <1>0, TickFrame
  <2>3. QED
    BY <1>0, <1>1, <2>1, <2>2 DEF Before, Executor!Running
<1>2. CASE /\ m \in Executor!Queued /\ o \in inFlight
           /\ o \in done \/ step[o] # "idle"
  <2>1. o = n /\ n \notin done
    BY <1>0, <1>2, Solo, RunFacts
  <2>2. CASE Finish(n) \/ Continue(n)
    <3>1. n \in done'
      BY <1>0, <2>2, TickFrame
    <3>2. QED
      BY <1>0, <1>2, <2>1, <3>1 DEF Before, Executor!Queued, Executor!Range
  <2>3. CASE ~Finish(n) /\ ~Continue(n)
    <3>1. step'[n] # "idle"
      BY <1>0, <1>2, <2>1, <2>3, StepTable
    <3>2. QED
      BY <1>0, <1>2, <2>1, <3>1 DEF Before, Executor!Queued, Executor!Range
  <2>4. QED
    BY <2>2, <2>3
<1>3. CASE \E i, j \in 1..Len(ready) : i < j /\ ready[i] = m /\ ready[j] = o
  BY <1>0, <1>3 DEF Before
<1>4. QED
  BY <1>1, <1>2, <1>3 DEF Before

\* Whoever is asked in a tick has its own tick before the next of the asker.
LEMMA AskedInTime ==
  ASSUME RunInv, OneInv, NEW n \in Nodes, Ticks(n), step'[n] # "idle",
         NEW m \in Nodes, m # n, m \notin finished
  PROVE  Before(m, n)'
<1>1. /\ n \in Executor!Running /\ ready' = ready /\ inFlight' = inFlight
  BY RunFacts, TickFrame
<1>2. m \in Executor!Queued /\ n \in inFlight
  BY <1>1, PartnerIsQueued, Solo DEF OneInv
<1>3. QED
  BY <1>1, <1>2 DEF Before, Executor!Queued, Executor!Range

\* A proposal stays open until the node it is made to answers all it has been
\* offered.
LEMMA ProposalStep ==
  ASSUME RunInv, OneInv, NEW n \in Nodes, NodeStep(n),
         NEW x \in Message, x.type = "PROPOSE", Open(x), ~Open(x)'
  PROVE  Resolve(n) /\ x.to = n /\ offers[n][x.from] = x.attempt
<1> DEFINE h == Head(batch[n])
<1>0. /\ IInv /\ NegotiationInv /\ WayShape
      /\ x.from \in Nodes /\ x.to \in Nodes /\ x.attempt \in 1..MaxEpoch
      /\ \A z \in Message : Open(z) => Current(z)
  BY RunFacts, IsMsg DEF OneInv, OpenIsCurrent
<1>1. Asks(x.from, x.to, x.attempt)
  BY <1>0 DEF Current
<1>2. CASE OnWay(x)
  <2>1. Handle(n) /\ x = h /\ x.to = n
    BY <1>0, <1>2, OnWayKept, HandledMsg DEF Open
  <2>2. ReceivePropose(n)
    BY <2>1 DEF Handle, ReceiveAccept, ReceiveReject, ReceiveConfirm,
                ReceiveCancel, ReceiveMatched, Handling
  <2> DEFINE s == x.from
  <2>3. offers'[n][s] = IF x.attempt > offers[n][s] THEN x.attempt ELSE offers[n][s]
    BY <1>0, <2>1, <2>2 DEF ReceivePropose, TypeInv, TypeOK
  <2>4. offers[n][s] \in {0, x.attempt}
    <3> SUFFICES ASSUME offers[n][s] # 0 PROVE offers[n][s] = x.attempt
      OBVIOUS
    <3>1. PICK p \in Message : /\ p.type = "PROPOSE" /\ p.from = s /\ p.to = n
                               /\ p.attempt = offers[n][s] /\ Offered(p)
      BY <1>0, OfferedMsg
    <3>2. Asks(s, n, offers[n][s])
      BY <1>0, <3>1 DEF Current, Open
    <3>3. QED
      BY <1>1, <3>2 DEF Asks, Holds
  <2>5. Offered(x)'
    BY <1>0, <2>1, <2>3, <2>4 DEF Offered
  <2>6. QED
    BY <2>5 DEF Open
<1>3. CASE ~OnWay(x)
  <2>1. offers[x.to][x.from] = x.attempt /\ offers'[x.to][x.from] # x.attempt
    BY <1>3 DEF Open, Offered
  <2>2. x.to = n
    BY <1>0, <2>1, LocalFrame
  <2>3. CASE /\ Handle(n) /\ h.type = "PROPOSE" /\ h.from = x.from
             /\ offers'[n][x.from] = h.attempt
    <3>1. h \in Message /\ h.to = n /\ OnWay(h)
      BY <1>0, <2>3, HandledMsg
    <3>2. Asks(x.from, n, h.attempt)
      BY <1>0, <2>3, <3>1 DEF Current, Open
    <3>3. QED
      BY <1>1, <2>1, <2>2, <2>3, <3>2 DEF Asks, Holds
  <2>4. QED
    BY <1>0, <2>1, <2>2, <2>3, OffersStep
<1>4. QED
  BY <1>2, <1>3

\* The other nodes' negotiations are under way still: if what they have asked
\* for is what the step dealt with, it has answered it.
LEMMA OthersUnderWay ==
  ASSUME RunInv, OneInv, NEW n \in Nodes, Ticks(n),
         NEW o \in Nodes \ {n}, IsNegotiating(o)'
  PROVE  (Answered(o) \/ Requested(o))'
<1> DEFINE h == Head(batch[n])
<1>0. /\ IInv /\ NegotiationInv /\ WayShape /\ NodeStep(n) /\ n \in Executor!Running
      /\ tentative'[o] = tentative[o] /\ IsNegotiating(o)
      /\ \A z \in Message : Open(z) => Current(z)
  BY RunFacts, TickFrame, LocalFrame DEF IsNegotiating, OneInv, OpenIsCurrent
<1>1. ASSUME NEW y \in Message, y \in outbox'[n], y.from = n, y.to = o,
             Holds(o, n, y.attempt),
             y.type \in {"ACCEPT", "REJECT", "REJECT_MATCHED", "CONFIRM", "CONFIRM_ACK"}
      PROVE  Answered(o)'
  BY <1>0, <1>1 DEF Answered, OnWay, Holds
<1>2. CASE Answered(o)
  <2>1. PICK x \in Message :
          /\ x.to = o /\ Holds(o, x.from, x.attempt) /\ OnWay(x)
          /\ x.type \in {"ACCEPT", "REJECT", "REJECT_MATCHED", "CONFIRM", "CONFIRM_ACK"}
    BY <1>2 DEF Answered
  <2>2. OnWay(x)'
    BY <1>0, <2>1, OnWayKept, HandledMsg
  <2>3. QED
    BY <1>0, <2>1, <2>2 DEF Answered, Holds
<1>3. CASE Requested(o)
  <2>1. PICK x \in Message :
          /\ x.from = o /\ Holds(o, x.to, x.attempt) /\ Open(x)
          /\ x.type \in {"PROPOSE", "ACCEPT", "CONFIRM"}
          /\ Before(x.to, o)
    BY <1>3 DEF Requested
  <2>2. /\ x.to \in Nodes /\ x.attempt \in 1..MaxEpoch /\ Current(x)
    BY <1>0, <2>1, IsMsg
  <2>3. CASE Open(x)'
    <3>1. ~(x.to = n /\ (Finish(n) \/ Continue(n)))
      <4> SUFFICES ASSUME x.to = n, Finish(n) \/ Continue(n) PROVE FALSE
        OBVIOUS
      <4>1. step[n] = "finish"
        BY DEF Finish, Continue, At
      <4>2. QED
        BY <1>0, <2>1, <4>1, NothingIsOpen DEF OneInv
    <3>2. Before(x.to, o)'
      BY <2>1, <2>2, <3>1, BeforeKept DEF OneInv
    <3>3. QED
      BY <1>0, <2>1, <2>3, <3>2 DEF Requested, Holds
  <2>4. CASE x.type # "PROPOSE" /\ ~Open(x)'
    <3>1. Handle(n) /\ x = h /\ x.to = n
      BY <1>0, <2>1, <2>4, OnWayKept, HandledMsg DEF Open
    <3>2. CASE x.type = "ACCEPT"
      <4>1. Asks(n, h.from, h.attempt)
        BY <2>1, <2>2, <3>1, <3>2 DEF Current
      <4>2. QED
        BY <1>0, <1>1, <2>1, <3>1, <3>2, <4>1, ConfirmationIsSent
    <3>3. CASE x.type = "CONFIRM"
      <4>1. Holds(n, h.from, h.attempt)
        BY <2>1, <2>2, <3>1, <3>3 DEF Current, Waits
      <4>2. Commit(n)
        BY <1>0, <3>1, <3>3, <4>1, HandledIsHeeded
      <4>3. QED
        BY <1>0, <1>1, <2>1, <3>1, <3>3, <4>2, CommitIsAnnounced
    <3>4. QED
      BY <2>1, <2>4, <3>2, <3>3
  <2>5. CASE x.type = "PROPOSE" /\ ~Open(x)'
    <3>1. Resolve(n) /\ x.to = n /\ offers[n][o] = x.attempt
      BY <1>0, <2>1, <2>5, ProposalStep
    <3>2. PICK y \in Message :
            /\ y.type \in {"ACCEPT", "REJECT", "REJECT_MATCHED"}
            /\ y.from = n /\ y.to = o /\ y.attempt = offers[n][o]
            /\ y \in outbox'[n]
      BY <1>0, <2>2, <3>1, EveryOfferIsAnswered
    <3>3. QED
      BY <1>1, <2>1, <3>1, <3>2
  <2>6. QED
    BY <2>3, <2>4, <2>5
<1>4. QED
  BY <1>0, <1>2, <1>3 DEF OneInv, UnderWay

\* What the step's own node waits for stays under way.
LEMMA KeptUnderWay ==
  ASSUME RunInv, OneInv, NEW n \in Nodes, Ticks(n), Keeps(n), IsNegotiating(n)'
  PROVE  /\ Answered(n) => Answered(n)'
         /\ Requested(n) => Requested(n)'
<1> DEFINE h == Head(batch[n])
<1>0. /\ IInv /\ NegotiationInv /\ WayShape /\ NodeStep(n) /\ n \in Executor!Running
      /\ \A z \in Message : Open(z) => Current(z)
      /\ \A m, k : Holds(n, m, k)' <=> Holds(n, m, k)
      /\ IsNegotiating(n)
  BY RunFacts, TickFrame DEF Keeps, Holds, IsNegotiating, OneInv, OpenIsCurrent
<1>1. ASSUME Answered(n) PROVE Answered(n)'
  <2>1. PICK x \in Message :
          /\ x.to = n /\ Holds(n, x.from, x.attempt) /\ OnWay(x)
          /\ x.type \in {"ACCEPT", "REJECT", "REJECT_MATCHED", "CONFIRM", "CONFIRM_ACK"}
    BY <1>1 DEF Answered
  <2>2. ASSUME Handle(n), x = h PROVE FALSE
    <3>1. CASE x.type = "ACCEPT"
      <4>1. Asks(n, h.from, h.attempt)
        BY <1>0, <2>1, <2>2, <3>1 DEF Current, Open
      <4>2. Begin(n, h.from, h.attempt, FALSE)
        BY <1>0, <2>2, <3>1, <4>1, ConfirmationIsSent
      <4>3. QED
        BY <1>0, <4>1, <4>2 DEF Begin, Keeps, Asks, TypeInv, TypeOK
    <3>2. CASE x.type \in {"REJECT", "REJECT_MATCHED"}
      BY <1>0, <2>1, <2>2, <3>2, HandledIsHeeded
    <3>3. CASE x.type \in {"CONFIRM", "CONFIRM_ACK"}
      <4>1. Commit(n)
        BY <1>0, <2>1, <2>2, <3>3, HandledIsHeeded
      <4>2. QED
        BY <1>0, <4>1, ClearType DEF Commit, TypeInv, IsNegotiating, NoNegotiation
    <3>4. QED
      BY <2>1, <3>1, <3>2, <3>3
  <2>3. OnWay(x)'
    BY <1>0, <2>1, <2>2, OnWayKept
  <2>4. QED
    BY <1>0, <2>1, <2>3 DEF Answered
<1>2. ASSUME Requested(n) PROVE Requested(n)'
  <2>1. PICK x \in Message :
          /\ x.from = n /\ Holds(n, x.to, x.attempt) /\ Open(x)
          /\ x.type \in {"PROPOSE", "ACCEPT", "CONFIRM"}
          /\ Before(x.to, n)
    BY <1>2 DEF Requested
  <2>2. x.to \in Nodes \ {n}
    <3>1. x.to \in Neighbors(n)
      BY <1>0, <2>1 DEF AlongEdges, Holds
    <3>2. QED
      BY <3>1, NotOwnNeighbor DEF Neighbors
  <2>3. Open(x)'
    <3>1. OnWay(x) => OnWay(x)'
      BY <1>0, <2>2, OnWayKept, HandledMsg
    <3>2. Offered(x) => Offered(x)'
      BY <1>0, <2>2, LocalFrame DEF Offered
    <3>3. QED
      BY <2>1, <3>1, <3>2 DEF Open
  <2>4. Before(x.to, n)'
    BY <2>1, <2>2, BeforeKept DEF OneInv
  <2>5. QED
    BY <1>0, <2>1, <2>3, <2>4 DEF Requested
<1>3. QED
  BY <1>1, <1>2

\* A tick that drains the mailbox finds the answer there: nobody who was
\* asked has still to have its tick.
LEMMA DrainedIsAnswered ==
  ASSUME RunInv, OneInv, NEW n \in Nodes, Ticks(n), Receive(n), IsNegotiating(n)
  PROVE  Answered(n)'
<1>0. /\ IInv /\ NodeStep(n) /\ n \in Executor!Running /\ step[n] = "idle"
      /\ tentative' = tentative
  BY RunFacts, TickFrame DEF Receive, At, local
<1>1. Keeps(n) /\ IsNegotiating(n)'
  BY <1>0 DEF Keeps, IsNegotiating, Receive, local
<1>2. ~Requested(n)
  <2> SUFFICES ASSUME NEW x \in Message, Holds(n, x.to, x.attempt), Before(x.to, n)
               PROVE  FALSE
    BY DEF Requested
  <2>1. x.to # n
    <3>1. x.to \in Neighbors(n)
      BY <1>0 DEF AlongEdges, Holds, IsNegotiating
    <3>2. QED
      BY <3>1, NotOwnNeighbor
  <2>2. x.to \notin Executor!Running /\ n \notin done /\ n \in inFlight
    BY <1>0, <2>1, Solo, IsMsg DEF OneInv
  <2>3. \A j \in 1..Len(ready) : ready[j] # n
    BY <2>2, RunFacts
  <2>4. QED
    BY <1>0, <2>2, <2>3 DEF Before
<1>3. QED
  BY <1>1, <1>2, KeptUnderWay DEF OneInv, UnderWay

\* A negotiation begins with something the partner is asked for.
LEMMA OwnUnderWay ==
  ASSUME RunInv, OneInv, NEW n \in Nodes, Ticks(n), IsNegotiating(n)'
  PROVE  (Answered(n) \/ Requested(n))'
<1> DEFINE h == Head(batch[n])
<1>0. /\ IInv /\ NegotiationInv /\ WayShape /\ NodeStep(n) /\ n \in Executor!Running
      /\ \A z \in Message : Open(z) => Current(z)
      /\ Stopped
  BY RunFacts, TickFrame DEF OneInv, OpenIsCurrent
<1>1. ASSUME NEW m \in Nodes, NEW b,
             NEW y \in Message, y \in outbox'[n], y.from = n, y.to = m,
             y.type \in {"PROPOSE", "ACCEPT", "CONFIRM"},
             Begin(n, m, y.attempt, b),
             step'[n] # "idle", m # n, m \notin finished
      PROVE  Requested(n)'
  <2>1. Holds(n, m, y.attempt)'
    BY <1>0, <1>1 DEF Begin, Holds, TypeInv, TypeOK
  <2>2. Open(y)'
    BY <1>1 DEF Open, OnWay
  <2>3. Before(m, n)'
    BY <1>1, AskedInTime
  <2>4. QED
    BY <1>1, <2>1, <2>2, <2>3 DEF Requested
<1>2. CASE Keeps(n)
  <2>1. IsNegotiating(n)
    BY <1>2 DEF Keeps, IsNegotiating
  <2>2. QED
    BY <1>2, <2>1, KeptUnderWay DEF OneInv, UnderWay
<1>3. CASE Confirms(n)
  <2>1. h \in Message /\ h.to = n /\ h.from \in Nodes \ {n} /\ OnWay(h)
    BY <1>0, <1>3, HandledMsg DEF Confirms
  <2>2. /\ Begin(n, h.from, h.attempt, FALSE)
        /\ \E y \in Message : /\ y.type = "CONFIRM" /\ y.from = n /\ y.to = h.from
                              /\ y.attempt = h.attempt /\ y \in outbox'[n]
    BY <1>0, <1>3, ConfirmationIsSent DEF Confirms
  <2>3. h.from \notin finished
    <3>1. Waits(h.from, n, h.attempt)
      BY <1>0, <1>3, <2>1 DEF Confirms, Current, Open
    <3>2. QED
      BY <1>0, <2>1, <3>1, NegotiatingIsActive DEF Waits
  <2>4. step'[n] # "idle"
    <3>1. step[n] = "handle" /\ step' = step
      BY <1>3 DEF Confirms, Handle, ReceivePropose, ReceiveAccept, ReceiveReject,
                  ReceiveConfirm, ReceiveCancel, ReceiveMatched, Handling, At,
                  Consume
    <3>2. QED
      BY <3>1
  <2>5. QED
    BY <1>1, <2>1, <2>2, <2>3, <2>4
<1>4. CASE Accepts(n)
  <2>1. PICK w \in Nodes, y \in Message :
           /\ y.type = "ACCEPT" /\ y.from = n /\ y.to = w
           /\ y.attempt = offers[n][w] /\ y \in outbox'[n]
           /\ Begin(n, w, offers[n][w], FALSE)
    BY <1>0, <1>4, AcceptIsSent
  <2>2. PICK p \in Message : /\ p.type = "PROPOSE" /\ p.from = w /\ p.to = n
                             /\ p.attempt = y.attempt /\ Offered(p)
    <3>1. y.attempt # 0
      BY IsMsg
    <3>2. QED
      BY <1>0, <2>1, <3>1, OfferedMsg
  <2>3. w # n
    <3>1. y.attempt # 0
      BY IsMsg
    <3>2. QED
      BY <1>0, <2>1, <3>1, OfferedMsg
  <2>4. w \notin finished
    <3>1. Asks(w, n, p.attempt)
      BY <1>0, <2>2 DEF Current, Open
    <3>2. QED
      BY <1>0, <3>1, NegotiatingIsActive DEF Asks
  <2>5. step'[n] # "idle"
    BY <1>0, <1>4 DEF Accepts, Resolve, ResolveMatched, ResolveBusy, ResolveFree,
                      EndResolution, GoTo, TypeInv, TypeOK
  <2>6. QED
    BY <1>1, <2>1, <2>3, <2>4, <2>5
<1>5. CASE Proposes(n)
  <2>1. PICK m \in Nodes, y \in Message :
           /\ y.type = "PROPOSE" /\ y.from = n /\ y.to = m
           /\ y.attempt = epoch[n] + 1 /\ y \in outbox'[n]
           /\ Begin(n, m, epoch[n] + 1, TRUE)
           /\ MayPropose(n, m) /\ m \in Neighbors(n)
    BY <1>0, <1>5, ProposalIsSent
  <2>2. step[n] = "propose" /\ step'[n] # "idle"
    BY <1>0, <1>5 DEF Proposes, Propose, At, GoTo, TypeInv, TypeOK
  <2>3. m \notin finished /\ m # n
    BY <1>0, <2>1, <2>2, ProposalReachesActive, NotOwnNeighbor
  <2>4. QED
    BY <1>1, <2>1, <2>2, <2>3
<1>6. ~Refused(n) /\ ~Commit(n) /\ ~Expires(n)
  BY <1>0, ClearType DEF Refused, Commit, Expires, TypeInv, IsNegotiating,
                         NoNegotiation
<1>7. QED
  BY <1>0, <1>2, <1>3, <1>4, <1>5, <1>6, NegotiationStep

LEMMA UnderWayStep ==
  ASSUME RunInv, OneInv, NEW n \in Nodes, Ticks(n)
  PROVE  UnderWay'
<1>1. ASSUME NEW o \in Nodes, IsNegotiating(o)'
      PROVE  Answered(o)' \/ Requested(o)'
  BY <1>1, OthersUnderWay, OwnUnderWay
<1>2. QED
  BY <1>1 DEF UnderWay

\* The answer to a negotiation that is older than the tick is there when the
\* tick drains the mailbox, and deals with it.
LEMMA TimelyStep ==
  ASSUME RunInv, OneInv, NEW n \in Nodes, Ticks(n)
  PROVE  Timely'
<1>0. /\ IInv /\ NegotiationInv /\ WayShape /\ NodeStep(n) /\ n \in Executor!Running
  BY RunFacts, TickFrame
<1>1. ASSUME NEW o \in Nodes \ {n}
      PROVE  step'[o] = "idle"
  BY <1>0, <1>1, Solo, LocalFrame DEF OneInv
<1>2. ASSUME NEW m, NEW k, NEW b, Begin(n, m, k, b)
      PROVE  tentative'[n].left = ProposalTimeout
  BY <1>0, <1>2 DEF Begin, TypeInv, TypeOK
<1>3. CASE Confirms(n) \/ Accepts(n) \/ Proposes(n)
  <2>1. tentative'[n].left = ProposalTimeout
    BY <1>2, <1>3 DEF Confirms, Accepts, Proposes
  <2>2. QED
    BY <1>1, <2>1 DEF Timely
<1>4. CASE Refused(n) \/ Commit(n) \/ Expires(n)
  <2>1. ~IsNegotiating(n)'
    BY <1>0, <1>4, ClearType DEF Refused, Commit, Expires, TypeInv,
                                 IsNegotiating, NoNegotiation
  <2>2. QED
    BY <1>1, <2>1 DEF Timely
<1>5. CASE Keeps(n) /\ IsNegotiating(n)'
  <2>1. IsNegotiating(n) /\ (Answered(n) => Answered(n)')
    BY <1>5, KeptUnderWay DEF Keeps, IsNegotiating
  <2>2. tentative'[n].left = tentative[n].left \/ step'[n] = "idle"
    BY <1>0, <1>5 DEF Keeps, Continue, GoTo, TypeInv, TypeOK
  <2>3. /\ step[n] = "handle" => tentative[n].left = ProposalTimeout \/ Answered(n)
        /\ step[n] \in {"expire", "propose", "finish"} =>
             tentative[n].left = ProposalTimeout
    BY <2>1 DEF OneInv, Timely
  <2>4. CASE Receive(n) /\ step[n] = "idle" /\ step'[n] = "handle"
    <3>1. Answered(n)'
      BY <2>1, <2>4, DrainedIsAnswered
    <3>2. QED
      BY <1>1, <2>4, <3>1 DEF Timely
  <2>5. CASE (Send(n) \/ Handle(n)) /\ step' = step
    <3>1. step'[n] = step[n]
      BY <2>5
    <3>2. QED
      BY <1>1, <2>1, <2>2, <2>3, <3>1 DEF Timely
  <2>6. CASE Resolve(n) /\ step[n] = "handle" /\ batch[n] = <<>> /\ step'[n] = "expire"
    <3>1. ~Answered(n)
      BY <1>0, <2>6, NothingComes DEF OneInv, Answered
    <3>2. QED
      BY <1>1, <2>2, <2>3, <2>6, <3>1 DEF Timely
  <2>7. CASE \/ Expire(n) /\ step[n] = "expire" /\ step'[n] = "propose"
             \/ Propose(n) /\ step[n] = "propose" /\ step'[n] = "finish"
    BY <1>1, <2>2, <2>3, <2>7 DEF Timely
  <2>8. CASE step'[n] = "idle"
    BY <1>1, <2>8 DEF Timely
  <2>9. QED
    BY <1>0, <2>4, <2>5, <2>6, <2>7, <2>8, StepTable
<1>6. CASE ~IsNegotiating(n)'
  BY <1>1, <1>6 DEF Timely
<1>7. QED
  BY <1>0, <1>3, <1>4, <1>5, <1>6, NegotiationStep

\* A commitment is final and heard of by every neighbour.
LEMMA AwareStep ==
  ASSUME RunInv, OneInv, NEW n \in Nodes, Ticks(n)
  PROVE  Aware'
<1> DEFINE h == Head(batch[n])
<1>0. IInv /\ NegotiationInv /\ WayShape /\ NodeStep(n)
  BY RunFacts, TickFrame
<1> SUFFICES ASSUME NEW m \in Nodes, NEW o \in Nodes, IsMatched(m)',
                    o \in Neighbors(m), ~IsMatched(o)', m \notin unavailable'[o]
             PROVE  \E x \in Message : /\ x.from = m /\ x.to = o /\ OnWay(x)'
                                      /\ x.type \in {"MATCHED", "CONFIRM_ACK"}
  BY DEF Aware, Neighbors
<1>1. ~IsMatched(o) /\ m \notin unavailable[o]
  BY <1>0, MatchFinalStep, UnavailableKept DEF IsMatched
<1>2. CASE IsMatched(m)
  <2>1. PICK x \in Message : /\ x.from = m /\ x.to = o /\ OnWay(x)
                             /\ x.type \in {"MATCHED", "CONFIRM_ACK"}
    BY <1>1, <1>2 DEF OneInv, Aware
  <2>2. ASSUME Handle(n), x = h PROVE FALSE
    <3>1. o = n
      BY <1>0, <2>1, <2>2, HandledMsg
    <3>2. x.type # "MATCHED"
      BY <1>0, <2>1, <2>2, <3>1, UnavailableKept
    <3>3. Holds(n, h.from, h.attempt)
      BY <2>1, <2>2, <3>1, <3>2 DEF OneInv, OpenIsCurrent, Open, Current, Waits
    <3>4. Commit(n)
      BY <1>0, <2>1, <2>2, <3>2, <3>3, HandledIsHeeded
    <3>5. matchedTo'[n] = m
      BY <1>0, <2>1, <2>2, <3>4 DEF Commit, TypeInv, TypeOK
    <3>6. QED
      BY <3>1, <3>5 DEF IsMatched
  <2>3. QED
    BY <1>0, <2>1, <2>2, OnWayKept
<1>3. CASE ~IsMatched(m)
  <2>1. m = n /\ Commit(n) /\ Handle(n)
    BY <1>0, <1>3, OnlyCommitMatches, LocalFrame, CommitHandles DEF IsMatched
  <2>2. CASE o # h.from
    <3>1. PICK y \in Message : /\ y.type = "MATCHED" /\ y.from = n /\ y.to = o
                               /\ y \in outbox'[n]
      BY <1>0, <2>1, <2>2, CommitIsAnnounced
    <3>2. QED
      BY <2>1, <3>1 DEF OnWay
  <2>3. CASE o = h.from
    <3>1. h \in Message /\ h.to = n /\ OnWay(h)
      BY <1>0, <2>1, HandledMsg
    <3>2. h.type # "CONFIRM_ACK"
      BY <1>0, <1>1, <2>3, <3>1, AckEndsNegotiation DEF IsMatched
    <3>3. h.type = "CONFIRM"
      BY <2>1, <3>2 DEF Commit, Handling
    <3>4. PICK y \in Message : /\ y.type = "CONFIRM_ACK" /\ y.from = n /\ y.to = o
                               /\ y \in outbox'[n]
      BY <1>0, <2>1, <2>3, <3>3, CommitIsAnnounced
    <3>5. QED
      BY <2>1, <3>4 DEF OnWay
  <2>4. QED
    BY <2>2, <2>3
<1>4. QED
  BY <1>2, <1>3

\* A partner commits when the acknowledgement reaches it.
LEMMA MutualStep ==
  ASSUME RunInv, OneInv, NEW n \in Nodes, Ticks(n)
  PROVE  Mutual'
<1> DEFINE h == Head(batch[n])
<1>0. IInv /\ NegotiationInv /\ WayShape /\ NodeStep(n)
  BY RunFacts, TickFrame
<1> SUFFICES ASSUME NEW o \in Nodes, IsMatched(o)', matchedTo'[matchedTo'[o]] # o
             PROVE  \E x \in Message : /\ x.from = o /\ x.to = matchedTo'[o] /\ OnWay(x)'
                                      /\ x.type = "CONFIRM_ACK"
  BY DEF Mutual
<1>1. \A a, b \in Nodes : matchedTo[a] = b => matchedTo'[a] = b
  BY <1>0, MatchFinalStep DEF IsMatched
<1>2. CASE IsMatched(o)
  <2> DEFINE p == matchedTo[o]
  <2>1. p \in Nodes /\ matchedTo'[o] = p /\ matchedTo[p] # o
    <3>1. p \in Nodes
      BY <1>0, <1>2 DEF IsMatched, TypeInv, TypeOK
    <3>2. matchedTo'[o] = p
      BY <1>1, <3>1
    <3>3. matchedTo'[p] # o
      BY <3>2
    <3>4. QED
      BY <1>1, <3>1, <3>2, <3>3
  <2>2. PICK x \in Message : /\ x.from = o /\ x.to = p /\ OnWay(x)
                             /\ x.type = "CONFIRM_ACK"
    BY <1>2, <2>1 DEF OneInv, Mutual
  <2>3. ASSUME Handle(n), x = h PROVE FALSE
    <3>1. p = n
      BY <1>0, <2>2, <2>3, HandledMsg
    <3>2. Holds(n, h.from, h.attempt)
      BY <2>2, <2>3, <3>1 DEF OneInv, OpenIsCurrent, Open, Current, Waits
    <3>3. Commit(n)
      BY <1>0, <2>2, <2>3, <3>2, HandledIsHeeded
    <3>4. matchedTo'[n] = o
      BY <1>0, <2>2, <2>3, <3>3 DEF Commit, TypeInv, TypeOK
    <3>5. QED
      BY <2>1, <3>1, <3>4
  <2>4. QED
    BY <1>0, <2>1, <2>2, <2>3, OnWayKept
<1>3. CASE ~IsMatched(o)
  <2>1. o = n /\ Commit(n) /\ Handle(n)
    BY <1>0, <1>3, OnlyCommitMatches, LocalFrame, CommitHandles DEF IsMatched
  <2>2. h \in Message /\ h.to = n /\ OnWay(h) /\ h.from \in Nodes
    BY <1>0, <2>1, HandledMsg
  <2>3. matchedTo'[n] = h.from
    BY <1>0, <2>1 DEF Commit, TypeInv, TypeOK
  <2>4. h.type # "CONFIRM_ACK"
    BY <1>0, <1>1, <2>1, <2>2, <2>3, AckEndsNegotiation
  <2>5. h.type = "CONFIRM"
    BY <2>1, <2>4 DEF Commit, Handling
  <2>6. PICK y \in Message : /\ y.type = "CONFIRM_ACK" /\ y.from = n /\ y.to = h.from
                             /\ y \in outbox'[n]
    BY <1>0, <2>1, <2>5, CommitIsAnnounced
  <2>7. QED
    BY <2>1, <2>3, <2>6 DEF OnWay
<1>4. QED
  BY <1>2, <1>3

\* Only _finish_if_terminal ends a node's activity.
LEMMA OnlyFinishStops ==
  ASSUME NEW n \in Nodes, NodeStep(n)
  PROVE  Finish(n) \/ UNCHANGED lifecycle
BY DEF NodeStep, Continue, Receive, Send, Handle, ReceivePropose, ReceiveAccept,
       ReceiveReject, ReceiveConfirm, ReceiveCancel, ReceiveMatched, Consume,
       Resolve, ResolveMatched, ResolveBusy, ResolveFree, EndResolution, Expire,
       Propose, lifecycle, local

\* A node finishes between negotiations, at the end of its tick.
LEMMA StoppedStep ==
  ASSUME RunInv, OneInv, NEW n \in Nodes, Ticks(n)
  PROVE  Stopped'
<1>0. /\ IInv /\ NodeStep(n) /\ n \in Executor!Running
      /\ inFlight' = inFlight /\ done \subseteq done'
  BY RunFacts, TickFrame
<1>1. finished' \subseteq Nodes
  BY <1>0, OnlyFinishStops DEF Finish, lifecycle, TypeInv, TypeOK
<1>2. terminalUnmatched \subseteq terminalUnmatched'
  BY <1>0, OnlyFinishStops DEF Finish, lifecycle
<1>3. ASSUME NEW o \in finished', o \in finished
      PROVE  /\ ~IsNegotiating(o)' /\ o \notin inFlight' \ done'
             /\ IsMatched(o)' \/ o \in terminalUnmatched'
  <2>1. /\ ~IsNegotiating(o) /\ o \notin inFlight \ done
        /\ IsMatched(o) \/ o \in terminalUnmatched
    BY <1>3 DEF OneInv, Stopped, Executor!Running
  <2>2. o \in Nodes \ {n}
    BY <1>0, <1>1, <1>3, <2>1 DEF Executor!Running
  <2>3. tentative'[o] = tentative[o] /\ matchedTo'[o] = matchedTo[o]
    BY <1>0, <2>2, LocalFrame
  <2>4. QED
    BY <1>0, <1>2, <2>1, <2>3 DEF IsNegotiating, IsMatched
<1>4. ASSUME NEW o \in finished', o \notin finished
      PROVE  /\ ~IsNegotiating(o)' /\ o \notin inFlight' \ done'
             /\ IsMatched(o)' \/ o \in terminalUnmatched'
  <2>1. Finish(n) /\ o = n
    BY <1>0, <1>4, OnlyFinishStops DEF Finish, lifecycle
  <2>2. n \in done'
    BY <1>0, <2>1, TickFrame
  <2>3. ~IsNegotiating(n)
    BY <1>0, <2>1 DEF Finish, CanQuiesce, MatchedHasNoNegotiation
  <2>4. UNCHANGED <<tentative, matchedTo>>
    BY <2>1 DEF Finish, negotiation, knowledge
  <2>5. QED
    BY <2>1, <2>2, <2>3, <2>4 DEF Finish, IsNegotiating, IsMatched
<1>5. QED
  BY <1>3, <1>4 DEF Stopped, Executor!Running

\* A step of a tick keeps the invariant.
LEMMA TickKeepsOneInv ==
  ASSUME RunInv, OneInv, NEW n \in Nodes, Ticks(n)
  PROVE  OneInv'
BY InTurnStep, OpenIsCurrentStep, SaidOnceStep, UnderWayStep, TimelyStep,
   AwareStep, MutualStep, StoppedStep DEF OneInv

-----------------------------------------------------------------------------
(* The caller's loop                                                       *)

\* The loop touches no endpoint: it may only change who is ticked, and the
\* order in which active nodes will be.
LEMMA LoopFrame ==
  ASSUME OneInv, Schedule, InTurn',
         \A m, o \in Nodes \ finished : Before(m, o) => Before(m, o)',
         \A o \in finished : o \notin (Executor!Running)'
  PROVE  OneInv'
<1>0. UNCHANGED <<mailbox, batch, outbox, offers, step, tentative, epoch,
                  matchedTo, unavailable, finished, terminalUnmatched>>
  BY DEF Schedule, vars
<1>1. \A r : Way(r)' = Way(r)
  BY <1>0 DEF Way
<1>2. /\ \A x : OnWay(x)' = OnWay(x)
      /\ \A x, y : Behind(x, y)' = Behind(x, y)
  BY <1>0, <1>1 DEF OnWay, Behind, Travels
<1>3. /\ \A a, b, k : Asks(a, b, k)' = Asks(a, b, k)
      /\ \A a, b, k : Waits(a, b, k)' = Waits(a, b, k)
      /\ \A a, b, k : Holds(a, b, k)' = Holds(a, b, k)
      /\ \A a : IsMatched(a)' = IsMatched(a) /\ IsNegotiating(a)' = IsNegotiating(a)
  BY <1>0 DEF Asks, Waits, Holds, IsMatched, IsNegotiating
<1>4. /\ \A x : Offered(x)' = Offered(x) /\ Unanswered(x)' = Unanswered(x)
      /\ \A x : Open(x)' = Open(x)
  BY <1>0, <1>2 DEF Offered, Unanswered, Open
<1>5. OpenIsCurrent'
  BY <1>0, <1>3, <1>4 DEF OneInv, OpenIsCurrent, Current
<1>6. SaidOnce'
  BY <1>2, <1>4 DEF OneInv, SaidOnce
<1>7. \A o : Answered(o)' = Answered(o)
  BY <1>2, <1>3 DEF Answered
<1>8. UnderWay'
  <2>1. ASSUME NEW o \in Nodes, IsNegotiating(o), Requested(o)
        PROVE  Requested(o)'
    <3>1. PICK x \in Message :
            /\ x.from = o /\ Holds(o, x.to, x.attempt) /\ Open(x)
            /\ x.type \in {"PROPOSE", "ACCEPT", "CONFIRM"}
            /\ Before(x.to, o)
      BY <2>1 DEF Requested
    <3>2. x.to \in Nodes /\ x.from \in Nodes /\ Current(x) /\ Stopped
      BY <3>1, IsMsg DEF OneInv, OpenIsCurrent
    <3>3. o \notin finished /\ x.to \notin finished
      BY <2>1, <3>1, <3>2, NegotiatingIsActive DEF Stopped, Current, Asks, Waits
    <3>4. Before(x.to, o)'
      BY <3>1, <3>2, <3>3
    <3>5. QED
      BY <1>3, <1>4, <3>1, <3>4 DEF Requested
  <2>2. QED
    BY <1>3, <1>7, <2>1 DEF OneInv, UnderWay
<1>9. Timely'
  BY <1>0, <1>3, <1>7 DEF OneInv, Timely
<1>10. Aware'
  BY <1>0, <1>2, <1>3 DEF OneInv, Aware
<1>11. Mutual'
  BY <1>0, <1>2, <1>3 DEF OneInv, Mutual
<1>12. Stopped'
  BY <1>0, <1>3 DEF OneInv, Stopped
<1>13. QED
  BY <1>5, <1>6, <1>8, <1>9, <1>10, <1>11, <1>12 DEF OneInv

\* With one worker a tick is submitted to an empty pool.
LEMMA PoolIsEmpty ==
  ASSUME OneWorker, RunInv, Executor!MaySubmit
  PROVE  inFlight = {}
<1>1. IsFiniteSet(inFlight) /\ Cardinality(inFlight) \in Nat
  BY RunFacts, RunAssumption, FS_Subset, FS_CardinalityType
<1>2. Executor!Cardinality(inFlight) = Cardinality(inFlight)
  BY DEF Executor!Cardinality, Cardinality
<1>3. Cardinality(inFlight) = 0
  BY <1>1, <1>2 DEF Executor!MaySubmit, OneWorker
<1>4. QED
  BY <1>1, <1>3, FS_EmptySet

LEMMA SubmitKeepsOneInv ==
  ASSUME OneWorker, RunInv, OneInv, Executor!Submit, UNCHANGED vars
  PROVE  OneInv'
<1> DEFINE h == Head(ready)
<1>0. /\ inFlight = {} /\ done = {} /\ ready # <<>> /\ ready \in Seq(Nodes)
      /\ ready' = Tail(ready) /\ done' = done /\ phase' = phase
      /\ finished' = finished
      /\ inFlight' = IF h \in Nodes \ finished THEN {h} ELSE {}
  BY PoolIsEmpty, RunFacts DEF Executor!Submit, Executor!MaySubmit,
     Executor!PopReady, Executor!IsActive, vars
<1>1. /\ h \in Nodes /\ Len(ready) \in Nat /\ h = ready[1]
      /\ Len(Tail(ready)) = Len(ready) - 1
      /\ \A i \in 1..Len(Tail(ready)) : Tail(ready)[i] = ready[i + 1]
  BY <1>0, HeadTailProperties, LenProperties
<1>2. Schedule
  BY DEF Schedule, Executor!Scheduler
<1>3. InTurn'
  <2>1. \A o \in Nodes : step[o] = "idle" /\ outbox[o] = {}
    BY <1>0 DEF OneInv, InTurn, Executor!Running
  <2>2. \A a, b \in inFlight' : a = b
    BY <1>0
  <2>3. phase' # "failed"
    BY <1>0 DEF OneInv, InTurn
  <2>4. UNCHANGED <<step, outbox>>
    BY DEF vars
  <2>5. QED
    BY <2>1, <2>2, <2>3, <2>4 DEF InTurn
<1>4. ASSUME NEW m \in Nodes \ finished, NEW o \in Nodes \ finished, Before(m, o)
      PROVE  Before(m, o)'
  <2>1. PICK i, j \in 1..Len(ready) : i < j /\ ready[i] = m /\ ready[j] = o
    BY <1>0, <1>4 DEF Before, Executor!Running
  <2>2. CASE i = 1
    BY <1>0, <1>1, <2>1, <2>2 DEF Before, Executor!Running
  <2>3. CASE i # 1
    <3>1. /\ i - 1 \in 1..Len(Tail(ready)) /\ j - 1 \in 1..Len(Tail(ready))
          /\ i - 1 < j - 1
      BY <1>1, <2>1, <2>3
    <3>2. Tail(ready)[i - 1] = m /\ Tail(ready)[j - 1] = o
      BY <1>1, <2>1, <3>1
    <3>3. QED
      BY <1>0, <3>1, <3>2 DEF Before
  <2>4. QED
    BY <2>2, <2>3
<1>5. \A o \in finished : o \notin (Executor!Running)'
  BY <1>0 DEF Executor!Running
<1>6. QED
  BY <1>2, <1>3, <1>4, <1>5, LoopFrame

\* The node whose tick is collected queues behind all others.
LEMMA CollectKeepsOneInv ==
  ASSUME OneWorker, RunInv, OneInv, Executor!Collect, UNCHANGED vars
  PROVE  OneInv'
<1>1. PICK n \in collected :
        /\ done' = done \ {n} /\ inFlight' = inFlight \ {n}
        /\ ready' = IF n \in Nodes \ finished THEN Append(ready, n) ELSE ready
        /\ phase' \in {"fill", "collect"}
  BY DEF Executor!Collect, Executor!ResultRaises, Executor!Requeue,
         Executor!IsActive
<1>2. n \in Nodes /\ n \in done /\ n \in inFlight
  BY RunFacts
<1>3. inFlight = {n} /\ inFlight' = {} /\ done = {n}
  BY <1>1, <1>2, RunFacts DEF OneInv, InTurn
<1>4. Schedule /\ finished' = finished
  BY DEF Schedule, Executor!Scheduler, vars
<1>5. InTurn'
  <2>1. \A o \in Nodes : step[o] = "idle" /\ outbox[o] = {}
    BY <1>3 DEF OneInv, InTurn, Executor!Running
  <2>2. UNCHANGED <<step, outbox>>
    BY DEF vars
  <2>3. QED
    BY <1>1, <1>3, <2>1, <2>2 DEF InTurn
<1>6. /\ ready \in Seq(Nodes) /\ Len(ready) \in Nat
      /\ Len(Append(ready, n)) = Len(ready) + 1
      /\ \A i \in 1..Len(ready) : Append(ready, n)[i] = ready[i]
      /\ Append(ready, n)[Len(ready) + 1] = n
  BY <1>2, RunFacts, AppendProperties
<1>7. ASSUME NEW m \in Nodes \ finished, NEW o \in Nodes \ finished, Before(m, o)
      PROVE  Before(m, o)'
  <2>1. CASE m \in Executor!Queued /\ o \in inFlight
    <3>1. o = n
      BY <1>3, <2>1
    <3>2. PICK i \in 1..Len(ready) : ready[i] = m
      BY <1>6, <2>1 DEF Executor!Queued, Executor!Range
    <3>3. ready' = Append(ready, n)
      BY <1>1, <1>7, <3>1
    <3>4. /\ i \in 1..Len(ready') /\ Len(ready) + 1 \in 1..Len(ready')
          /\ i < Len(ready) + 1 /\ ready'[i] = m /\ ready'[Len(ready) + 1] = o
      BY <1>6, <3>1, <3>2, <3>3
    <3>5. QED
      BY <3>4 DEF Before
  <2>2. ASSUME NEW i \in 1..Len(ready), NEW j \in 1..Len(ready),
               i < j, ready[i] = m, ready[j] = o
        PROVE  Before(m, o)'
    <3>1. /\ i \in 1..Len(ready') /\ j \in 1..Len(ready')
          /\ ready'[i] = m /\ ready'[j] = o
      <4>1. CASE ready' = ready
        BY <2>2, <4>1
      <4>2. CASE ready' = Append(ready, n)
        BY <1>6, <2>2, <4>2
      <4>3. QED
        BY <1>1, <4>1, <4>2
    <3>2. QED
      BY <2>2, <3>1 DEF Before
  <2>3. m \notin Executor!Running
    BY <1>3 DEF Executor!Running
  <2>4. QED
    BY <1>7, <2>1, <2>2, <2>3 DEF Before
<1>8. \A o \in finished : o \notin (Executor!Running)'
  BY <1>3 DEF Executor!Running
<1>9. QED
  BY <1>4, <1>5, <1>7, <1>8, LoopFrame

LEMMA ScheduleKeepsOneInv ==
  ASSUME OneWorker, RunInv, OneInv, Schedule
  PROVE  OneInv'
<1>1. CASE Executor!Wait \/ Executor!End
  <2>1. /\ UNCHANGED <<ready, inFlight, done>> /\ phase' # "failed"
        /\ UNCHANGED <<step, outbox, mailbox, finished>>
    BY <1>1 DEF Executor!Wait, Executor!End, Schedule, vars
  <2>2. (Executor!Running)' = Executor!Running /\ (Executor!Queued)' = Executor!Queued
    BY <2>1 DEF Executor!Running, Executor!Queued, Executor!Range
  <2>3. InTurn'
    BY <2>1, <2>2 DEF OneInv, InTurn
  <2>4. \A m, o : Before(m, o) => Before(m, o)'
    BY <2>1, <2>2 DEF Before
  <2>5. \A o \in finished : o \notin (Executor!Running)'
    BY <2>2 DEF OneInv, Stopped
  <2>6. QED
    BY <2>3, <2>4, <2>5, LoopFrame
<1>2. QED
  BY <1>1, SubmitKeepsOneInv, CollectKeepsOneInv DEF Schedule, Executor!Scheduler

\* A run that has ended, or does nothing, leaves all as it is.
LEMMA StutterKeepsOneInv ==
  ASSUME OneInv, UNCHANGED runVars
  PROVE  OneInv'
<1>0. UNCHANGED <<mailbox, batch, outbox, offers, step, tentative, epoch,
                  matchedTo, unavailable, finished, terminalUnmatched,
                  ready, inFlight, done, phase>>
  BY DEF runVars, vars, schedulerVars
<1>1. (Executor!Running)' = Executor!Running /\ (Executor!Queued)' = Executor!Queued
  BY <1>0 DEF Executor!Running, Executor!Queued, Executor!Range
<1>2. \A r : Way(r)' = Way(r)
  BY <1>0 DEF Way
<1>3. /\ \A x : OnWay(x)' = OnWay(x)
      /\ \A x, y : Behind(x, y)' = Behind(x, y)
  BY <1>0, <1>2 DEF OnWay, Behind, Travels
<1>4. QED
  <2>1. /\ \A a, b, k : Asks(a, b, k)' = Asks(a, b, k)
        /\ \A a, b, k : Waits(a, b, k)' = Waits(a, b, k)
        /\ \A a, b, k : Holds(a, b, k)' = Holds(a, b, k)
        /\ \A a : IsMatched(a)' = IsMatched(a) /\ IsNegotiating(a)' = IsNegotiating(a)
    BY <1>0 DEF Asks, Waits, Holds, IsMatched, IsNegotiating
  <2>2. /\ \A x : Offered(x)' = Offered(x) /\ Unanswered(x)' = Unanswered(x)
        /\ \A x : Open(x)' = Open(x)
    BY <1>0, <1>3 DEF Offered, Unanswered, Open
  <2>3. InTurn' /\ OpenIsCurrent' /\ SaidOnce'
    BY <1>0, <1>1, <1>3, <2>1, <2>2
       DEF OneInv, InTurn, OpenIsCurrent, Current, SaidOnce
  <2>4. \A m, o : Before(m, o)' = Before(m, o)
    BY <1>0, <1>1 DEF Before
  <2>5. \A o : Answered(o)' = Answered(o) /\ Requested(o)' = Requested(o)
    BY <1>3, <2>1, <2>2, <2>4 DEF Answered, Requested
  <2>6. UnderWay' /\ Timely'
    BY <1>0, <2>1, <2>5 DEF OneInv, UnderWay, Timely
  <2>7. Aware' /\ Mutual' /\ Stopped'
    BY <1>0, <1>1, <1>3, <2>1 DEF OneInv, Aware, Mutual, Stopped
  <2>8. QED
    BY <2>3, <2>6, <2>7 DEF OneInv

-----------------------------------------------------------------------------
(* How long a run with one worker takes                                    *)

\* n has accepted, or has been accepted, and commits in its next tick.
Engaged(n) == IsNegotiating(n) /\ ~tentative[n].pending

\* n has proposed to a node that is free and has not answered.
Waiting(n) ==
  \E x \in Message : /\ x.type = "PROPOSE" /\ x.from = n /\ Open(x)
                     /\ ~IsMatched(x.to)

\* A tick ends with a match, a negotiation, or nobody left to propose to; a
\* proposal that is refused is replaced in the tick that hears of it.
Productive ==
  \A n \in Nodes :
    /\ step[n] = "handle" /\ tentative[n].pending => Answered(n)
    /\ step[n] \in {"expire", "propose"} => ~tentative[n].pending
    /\ step[n] = "finish" => /\ IsMatched(n) \/ IsNegotiating(n) \/ Eligible(n) = {}
                             /\ tentative[n].pending => Waiting(n)
    /\ n \in done => n \in finished \/ Engaged(n) \/ Waiting(n)

\* A tick numbers one attempt at most, so MaxEpoch is out of reach.
Attempts ==
  /\ \A n \in Nodes : epoch[n] <= scheduled
  /\ \A n \in Executor!Running :
       step[n] # "finish" => \A o \in Nodes : epoch[o] < scheduled

\* Who is still unmatched, and whose next tick will not just be waited out.
Unmatched == {n \in Nodes : ~IsMatched(n)}
Movers == {n \in Nodes \ (finished \cup inFlight) : ~Waiting(n)}

\* The ticks of the run, and those it may still take for each match.
Spent == scheduled + 2 * Cardinality(Nodes) * Cardinality(Unmatched)

TickBound == 2 * Cardinality(Nodes) * (Cardinality(Nodes) + 1)

\* k ticks are scheduled until n is in the one in which it commits.
Turn(n, k) ==
  \/ k \in 1..Len(ready) /\ ready[k] = n
  \/ n \in inFlight /\ k = Len(ready) + 1
  \/ /\ n \in Executor!Running /\ k = 0
     /\ step[n] = "idle" \/ (step[n] = "handle" /\ Answered(n))

\* Between two commitments every mover proposes once until somebody is
\* engaged, and the engaged node commits when its turn comes.
Budget ==
  \/ Spent + Cardinality(Nodes) + Cardinality(Movers) <= TickBound
  \/ \E n \in Nodes, k \in Nat : Engaged(n) /\ Turn(n, k) /\ Spent + k <= TickBound

\* The inductive invariant, beside RunInv and OneInv.
PaceInv == Productive /\ Attempts /\ Budget

LEMMA Counts ==
  /\ Cardinality(Nodes) \in Nat
  /\ \A S \in SUBSET Nodes : /\ IsFiniteSet(S) /\ Cardinality(S) \in Nat
                             /\ Cardinality(S) <= Cardinality(Nodes)
BY RunAssumption, FS_Subset, FS_CardinalityType

LEMMA BudgetTypes ==
  ASSUME RunInv
  PROVE  /\ scheduled \in Nat /\ scheduled <= MaxTicks
         /\ 2 * Cardinality(Nodes) * Cardinality(Unmatched) \in Nat
         /\ Spent \in Nat /\ TickBound \in Nat /\ Cardinality(Nodes) \in Nat
         /\ Movers \subseteq Nodes
         /\ Cardinality(Movers) \in Nat /\ Cardinality(Movers) <= Cardinality(Nodes)
<1>1. scheduled \in 0..MaxTicks /\ MaxTicks \in Nat
  BY RunAssumption DEF RunInv, Loop!IInv, Loop!ExecutorTypeOK
<1>2. Unmatched \subseteq Nodes /\ Movers \subseteq Nodes
  BY DEF Unmatched, Movers
<1>3. Cardinality(Nodes) \in Nat /\ Cardinality(Unmatched) \in Nat
      /\ Cardinality(Movers) \in Nat /\ Cardinality(Movers) <= Cardinality(Nodes)
  BY <1>2, Counts
<1> HIDE DEF Unmatched, Movers
<1>4. \A a, b \in Nat : 2 * a * b \in Nat
  OBVIOUS
<1>5. QED
  BY <1>1, <1>2, <1>3, <1>4 DEF Spent, TickBound

LEMMA QueuedOnce ==
  ASSUME RunInv
  PROVE  \A i, j \in 1..Len(ready) : ready[i] = ready[j] => i = j
<1>1. DOMAIN ready = 1..Len(ready)
  BY RunFacts, LenProperties
<1>2. Loop!IsInjective(ready)
  BY DEF RunInv, Loop!IInv, Loop!OneTickPerNode
<1>3. QED
  BY <1>1, <1>2 DEF Loop!IsInjective

\* The queue holds every node once, and the pool others.
LEMMA QueueFits ==
  ASSUME RunInv
  PROVE  /\ Len(ready) <= Cardinality(Nodes)
         /\ inFlight # {} => Len(ready) + 1 <= Cardinality(Nodes)
<1>1. /\ ready \in [1..Len(ready) -> Nodes] /\ Len(ready) \in Nat
      /\ \A i \in 1..Len(ready) : ready[i] \notin inFlight
  BY RunFacts, LenProperties
<1>2. Cardinality(1..Len(ready)) = Len(ready)
  <2>1. \A l \in Nat : Cardinality(1..l) = l
    BY FS_Interval
  <2>2. QED
    BY <1>1, <2>1
<1>3. ASSUME NEW T \in SUBSET Nodes, \A i \in 1..Len(ready) : ready[i] \in T
      PROVE  Len(ready) <= Cardinality(T)
  <2>1. ready \in Injection(1..Len(ready), T)
    BY <1>1, <1>3, QueuedOnce DEF Injection, IsInjective
  <2>2. QED
    BY <1>2, <2>1, Counts, FS_Injection
<1>4. ASSUME NEW n \in inFlight PROVE Len(ready) + 1 <= Cardinality(Nodes)
  <2>1. n \in Nodes /\ Cardinality(Nodes \ {n}) = Cardinality(Nodes) - 1
    BY <1>4, RunFacts, RunAssumption, FS_RemoveElement
  <2>2. Len(ready) <= Cardinality(Nodes \ {n})
    BY <1>1, <1>3
  <2>3. QED
    BY <1>1, <2>1, <2>2, Counts
<1>5. QED
  BY <1>1, <1>3, <1>4

\* Who waits goes on waiting, unless the node it waits for commits itself to
\* somebody in this step.
LEMMA WaitingKept ==
  ASSUME RunInv, OneInv, Productive, NEW n \in Nodes, Ticks(n),
         NEW o \in Nodes, Waiting(o), ~Commit(n)
  PROVE  Waiting(o)' \/ (Resolve(n) /\ Engaged(n)')
<1>0. /\ IInv /\ NodeStep(n) /\ n \in Executor!Running
      /\ UNCHANGED matchedTo
  BY RunFacts, TickFrame, OnlyCommitMatches
<1>1. PICK x \in Message : /\ x.type = "PROPOSE" /\ x.from = o /\ Open(x)
                           /\ ~IsMatched(x.to)
  BY DEF Waiting
<1>2. CASE Open(x)'
  BY <1>0, <1>1, <1>2 DEF Waiting, IsMatched
<1>3. CASE ~Open(x)'
  <2>1. Resolve(n) /\ x.to = n /\ offers[n][o] = x.attempt
    BY <1>0, <1>1, <1>3, ProposalStep
  <2>2. o \in Offerers(n)
    BY <1>1, <2>1, IsMsg DEF Offerers
  <2>3. step[n] = "handle" /\ batch[n] = <<>>
    BY <2>1 DEF Resolve, ResolveMatched, ResolveBusy, ResolveFree, Resolving, At
  <2>4. ~tentative[n].pending
    <3>1. ~Answered(n)
      BY <1>0, <2>3, NothingComes DEF OneInv, Answered
    <3>2. QED
      BY <2>3, <3>1 DEF Productive
  <2>5. CASE ResolveBusy(n)
    BY <2>1, <2>4, <2>5 DEF ResolveBusy, negotiation, Engaged, IsNegotiating
  <2>6. CASE ResolveFree(n)
    <3>1. PICK w \in Offerers(n) : Begin(n, w, offers[n][w], FALSE)
      BY <2>2, <2>6 DEF ResolveFree
    <3>2. w \in Nodes
      BY <3>1 DEF Offerers
    <3>3. tentative'[n].partner = w /\ ~tentative'[n].pending
      BY <1>0, <3>1 DEF Begin, TypeInv, TypeOK
    <3>4. QED
      BY <2>1, <3>2, <3>3 DEF Engaged, IsNegotiating
  <2>7. ~ResolveMatched(n)
    BY <1>1, <2>1 DEF ResolveMatched
  <2>8. QED
    BY <2>1, <2>5, <2>6, <2>7 DEF Resolve
<1>4. QED
  BY <1>2, <1>3

\* Who is engaged stays so until it commits.
LEMMA EngagedKept ==
  ASSUME RunInv, OneInv, NEW n \in Nodes, Ticks(n), ~Commit(n),
         NEW e \in Nodes, Engaged(e)
  PROVE  Engaged(e)' /\ (e = n => Keeps(n))
<1>0. IInv /\ WayShape /\ NodeStep(n)
  BY RunFacts, TickFrame
<1>1. PICK p \in Nodes, k \in 1..MaxEpoch : Waits(e, p, k)
  <2>1. tentative[e].partner \in Nodes /\ tentative[e].attempt \in 1..MaxEpoch
    BY <1>0, NegotiationType DEF Engaged, TypeInv, Negotiation
  <2>2. QED
    BY <2>1 DEF Engaged, Waits, Holds
<1>2. Waits(e, p, k)'
  <2> SUFFICES ASSUME e = n, Handle(n), Head(batch[n]).from = p,
                      Head(batch[n]).attempt = k,
                      Head(batch[n]).type \in {"CONFIRM", "CONFIRM_ACK"}
               PROVE  FALSE
    BY <1>0, <1>1, WaitsKept
  <2>1. Holds(n, Head(batch[n]).from, Head(batch[n]).attempt)
    BY <1>1 DEF Waits
  <2>2. QED
    BY <1>0, <2>1, HandledIsHeeded
<1>3. Engaged(e)'
  BY <1>1, <1>2 DEF Engaged, Waits, Holds, IsNegotiating
<1>4. ASSUME e = n PROVE Keeps(n)
  <2>1. ~Refused(n) /\ ~Expires(n)
    <3>1. Clear(n) => ~IsNegotiating(n)'
      BY <1>0, ClearType DEF TypeInv, IsNegotiating, NoNegotiation
    <3>2. QED
      BY <1>3, <1>4, <3>1 DEF Engaged, Refused, Expires
  <2>2. ~Confirms(n) /\ ~Accepts(n) /\ ~Proposes(n)
    BY <1>4 DEF Engaged, Confirms, Asks, Accepts, Proposes
  <2>3. QED
    BY <1>0, <2>1, <2>2, NegotiationStep
<1>5. QED
  BY <1>3, <1>4

\* Only a commitment changes who is unmatched, and it pays for 2N ticks.
LEMMA SpentStep ==
  ASSUME RunInv, OneInv, NEW n \in Nodes, Ticks(n)
  PROVE  /\ ~Commit(n) => Spent' = Spent
         /\ Commit(n) => Spent' = Spent - 2 * Cardinality(Nodes)
<1>0. IInv /\ NodeStep(n) /\ WayShape
  BY RunFacts, TickFrame
<1>1. scheduled' = scheduled
  BY DEF Ticks, MidTick, EndTick, Executor!Complete, schedulerVars
<1>2. CASE ~Commit(n)
  <2>1. Unmatched' = Unmatched
    BY <1>0, <1>2, OnlyCommitMatches DEF Unmatched, IsMatched
  <2>2. QED
    BY <1>1, <1>2, <2>1 DEF Spent
<1>3. CASE Commit(n)
  <2> DEFINE h == Head(batch[n])
  <2>1. h.from \in Nodes
    BY <1>0, <1>3, CommitHandles, HandledMsg
  <2>2. IsNegotiating(n) /\ ~IsMatched(n)
    BY <1>0, <1>3, <2>1 DEF Commit, Holds, IsNegotiating, MatchedHasNoNegotiation
  <2>3. Unmatched' = Unmatched \ {n} /\ n \in Unmatched
    BY <1>0, <1>3, <2>1, <2>2 DEF Commit, Unmatched, IsMatched, TypeInv, TypeOK
  <2>4. Unmatched \subseteq Nodes
    BY DEF Unmatched
  <2>5. /\ Cardinality(Unmatched \ {n}) = Cardinality(Unmatched) - 1
        /\ Cardinality(Unmatched) \in Nat /\ Cardinality(Nodes) \in Nat
    <3> HIDE DEF Unmatched
    <3> QED
      BY <2>3, <2>4, Counts, FS_RemoveElement
  <2>6. \A a, b \in Nat : 2 * a * (b - 1) = 2 * a * b - 2 * a
    OBVIOUS
  <2>7. /\ scheduled \in Nat /\ Spent' = scheduled + 2 * Cardinality(Nodes) * (Cardinality(Unmatched) - 1)
    BY <1>1, <2>3, <2>5, BudgetTypes DEF Spent
  <2>8. QED
    BY <1>3, <2>5, <2>6, <2>7 DEF Spent
<1>4. QED
  BY <1>2, <1>3

\* A step of a tick takes nothing from the budget.
LEMMA BudgetStep ==
  ASSUME RunInv, OneInv, Productive, Budget, NEW n \in Nodes, Ticks(n)
  PROVE  Budget'
<1>0. /\ IInv /\ NegotiationInv /\ WayShape /\ NodeStep(n) /\ n \in Executor!Running
      /\ n \in inFlight /\ inFlight \subseteq Nodes
      /\ ready' = ready /\ inFlight' = inFlight /\ finished \subseteq finished'
  BY RunFacts, TickFrame, Solo, FinishedStep DEF OneInv, Ticks, EndTick
<1>1. /\ Spent \in Nat /\ TickBound \in Nat /\ TickBound' = TickBound
      /\ Cardinality(Nodes) \in Nat /\ Cardinality(Nodes)' = Cardinality(Nodes)
      /\ Cardinality(Movers) \in Nat
      /\ Len(ready) \in Nat /\ Len(ready) + 1 <= Cardinality(Nodes)
  BY <1>0, BudgetTypes, QueueFits, RunFacts DEF TickBound
<1>2. Movers' \subseteq Nodes
  BY DEF Movers
<1>3. Cardinality(Movers') \in Nat /\ Cardinality(Movers') <= Cardinality(Nodes)
  <2> HIDE DEF Movers
  <2> QED
    BY <1>2, Counts
<1>4. ASSUME NEW e \in Nodes, NEW k \in Nat, Engaged(e)', Turn(e, k)',
             Spent' + k <= TickBound
      PROVE  Budget'
  BY <1>1, <1>4 DEF Budget
<1>5. CASE Commit(n)
  <2>1. Spent <= TickBound
    BY <1>1 DEF Budget
  <2>2. Spent' = Spent - 2 * Cardinality(Nodes)
    BY <1>5, SpentStep
  <2>3. Spent' + Cardinality(Nodes) + Cardinality(Movers') <= TickBound
    BY <1>1, <1>3, <2>1, <2>2
  <2>4. QED
    BY <1>1, <2>3 DEF Budget
<1>6. ASSUME ~Commit(n), NEW e \in Nodes, NEW k \in Nat, Engaged(e), Turn(e, k),
             Spent + k <= TickBound
      PROVE  Budget'
  <2>1. Engaged(e)' /\ (e = n => Keeps(n)) /\ Spent' = Spent
    BY <1>6, EngagedKept, SpentStep
  <2>2. CASE k \in 1..Len(ready) /\ ready[k] = e
    BY <1>0, <1>4, <1>6, <2>1, <2>2 DEF Turn
  <2>3. CASE e \in inFlight /\ k = Len(ready) + 1
    BY <1>0, <1>4, <1>6, <2>1, <2>3 DEF Turn
  <2>4. CASE /\ e \in Executor!Running /\ k = 0
             /\ step[e] = "idle" \/ (step[e] = "handle" /\ Answered(e))
    <3>1. e = n
      BY <1>0, <2>4, Solo DEF OneInv
    <3>2. Keeps(n) /\ IsNegotiating(n) /\ IsNegotiating(n)'
      BY <1>6, <2>1, <3>1 DEF Engaged
    <3>3. CASE Receive(n) /\ step'[n] = "handle"
      <4>1. Answered(n)'
        BY <3>2, <3>3, DrainedIsAnswered
      <4>2. n \in (Executor!Running)'
        <5>1. ~Finish(n) /\ ~Continue(n)
          BY <1>0, <3>3 DEF Finish, Continue, GoTo, TypeInv, TypeOK
        <5>2. QED
          BY <1>0, <5>1, TickFrame DEF Executor!Running
      <4>3. QED
        BY <1>4, <1>6, <2>1, <2>4, <3>1, <3>3, <4>1, <4>2 DEF Turn
    <3>4. CASE (Send(n) \/ Handle(n)) /\ step' = step
      <4>1. Answered(n) => Answered(n)'
        BY <3>2, KeptUnderWay
      <4>2. n \in (Executor!Running)'
        <5>1. ~Finish(n) /\ ~Continue(n)
          <6> SUFFICES ASSUME Finish(n) \/ Continue(n) PROVE FALSE
            OBVIOUS
          <6>1. step[n] = "finish" /\ step'[n] = "idle"
            BY <1>0 DEF Finish, Continue, At, GoTo, TypeInv, TypeOK
          <6>2. QED
            BY <3>4, <6>1
        <5>2. QED
          BY <1>0, <5>1, TickFrame DEF Executor!Running
      <4>3. QED
        BY <1>4, <1>6, <2>1, <2>4, <3>1, <3>4, <4>1, <4>2 DEF Turn
    <3>5. ~(Resolve(n) /\ step[n] = "handle" /\ batch[n] = <<>>)
      BY <1>0, <2>4, <3>1, NothingComes DEF OneInv, Answered
    <3>6. QED
      BY <1>0, <2>4, <3>1, <3>3, <3>4, <3>5, StepTable
  <2>5. QED
    BY <1>6, <2>2, <2>3, <2>4 DEF Turn
<1>7. ASSUME ~Commit(n), Spent + Cardinality(Nodes) + Cardinality(Movers) <= TickBound
      PROVE  Budget'
  <2>1. Spent' = Spent
    BY <1>7, SpentStep
  <2>2. CASE \E e \in Nodes : Engaged(e)'
    <3>1. PICK e \in Nodes : Engaged(e)'
      BY <2>2
    <3>2. e \in Executor!Queued \cup inFlight
      <4>1. OneInv'
        BY TickKeepsOneInv
      <4>2. e \notin finished'
        BY <3>1, <4>1 DEF OneInv, Stopped, Engaged
      <4>3. phase \in {"fill", "collect"}
        BY <1>0, RunFacts DEF OneInv, InTurn
      <4>4. QED
        BY <1>0, <4>2, <4>3, RunFacts
    <3>3. CASE e \in inFlight
      <4>1. PICK k \in Nat : k = Len(ready) + 1
        BY <1>1
      <4>2. Spent' + k <= TickBound /\ Turn(e, k)'
        BY <1>0, <1>1, <1>7, <2>1, <3>3, <4>1 DEF Turn
      <4>3. QED
        BY <1>4, <3>1, <4>1, <4>2
    <3>4. CASE e \in Executor!Queued
      <4>1. PICK i \in 1..Len(ready) : ready[i] = e
        BY <3>4, RunFacts, LenProperties DEF Executor!Queued, Executor!Range
      <4>2. Turn(e, i)'
        BY <1>0, <4>1 DEF Turn
      <4>3. i \in Nat /\ Spent' + i <= TickBound
        BY <1>1, <1>7, <2>1
      <4>4. QED
        BY <1>4, <3>1, <4>2, <4>3
    <3>5. QED
      BY <3>2, <3>3, <3>4
  <2>3. CASE \A e \in Nodes : ~Engaged(e)'
    <3>1. Movers' \subseteq Movers
      <4> SUFFICES ASSUME NEW o \in Nodes, o \notin finished', o \notin inFlight,
                          ~Waiting(o)'
                   PROVE  ~Waiting(o)
        BY <1>0 DEF Movers
      <4>1. QED
        BY <1>7, <2>3, WaitingKept
    <3>2. Cardinality(Movers') <= Cardinality(Movers)
      <4>1. Movers \subseteq Nodes
        BY BudgetTypes
      <4> HIDE DEF Movers
      <4>2. IsFiniteSet(Movers)
        BY <4>1, Counts
      <4>3. QED
        BY <3>1, <4>2, FS_Subset
    <3>3. Spent' + Cardinality(Nodes) + Cardinality(Movers') <= TickBound
      BY <1>1, <1>3, <1>7, <2>1, <3>2
    <3>4. QED
      BY <1>1, <3>3 DEF Budget
  <2>4. QED
    BY <2>2, <2>3
<1>8. QED
  BY <1>5, <1>6, <1>7 DEF Budget

\* What a step of a tick leaves pending was answered or asked for in it.
LEMMA ProductiveStep ==
  ASSUME RunInv, OneInv, Productive, Attempts, MaySkip = FALSE,
         MaxEpoch >= MaxTicks, NEW n \in Nodes, Ticks(n)
  PROVE  Productive'
<1>0. /\ IInv /\ NegotiationInv /\ WayShape /\ NodeStep(n) /\ n \in Executor!Running
      /\ done \subseteq inFlight /\ n \notin done
  BY RunFacts, TickFrame, Solo DEF OneInv
<1>1. ASSUME /\ step'[n] = "handle" /\ tentative'[n].pending => Answered(n)'
             /\ step'[n] \in {"expire", "propose"} => ~tentative'[n].pending
             /\ step'[n] = "finish" =>
                  /\ IsMatched(n)' \/ IsNegotiating(n)' \/ Eligible(n)' = {}
                  /\ tentative'[n].pending => Waiting(n)'
             /\ Finish(n) \/ Continue(n) => n \in finished' \/ Engaged(n)' \/ Waiting(n)'
      PROVE  Productive'
  <2>1. ASSUME NEW o \in Nodes \ {n} PROVE step'[o] = "idle" /\ o \notin done'
    <3>1. step[o] = "idle" /\ o \notin inFlight
      BY <1>0, Solo DEF OneInv
    <3>2. QED
      BY <1>0, <3>1, TickFrame, LocalFrame
  <2>2. n \in done' => Finish(n) \/ Continue(n)
    BY <1>0, TickFrame
  <2>3. QED
    BY <1>1, <2>1, <2>2 DEF Productive
<1>2. step[n] # "handle" => ~Commit(n) /\ ~Resolve(n)
  BY DEF Commit, Handling, At, Resolve, ResolveMatched, ResolveBusy, ResolveFree,
         Resolving
<1>3. tentative[n].pending => IsNegotiating(n)
  BY <1>0, NegotiationType DEF TypeInv, NoNegotiation
<1>4. tentative'[n].pending => Keeps(n) \/ Proposes(n)
  <2>1. CASE Confirms(n) \/ Accepts(n)
    BY <1>0, <2>1 DEF Confirms, Accepts, Begin, TypeInv, TypeOK
  <2>2. CASE Refused(n) \/ Commit(n) \/ Expires(n)
    BY <1>0, <2>2, ClearType DEF Refused, Commit, Expires, TypeInv, NoNegotiation
  <2>3. QED
    BY <1>0, <2>1, <2>2, NegotiationStep
<1>5. CASE Receive(n) /\ step'[n] = "handle"
  <2>1. tentative' = tentative /\ step[n] = "idle"
    BY <1>5 DEF Receive, At, local
  <2>2. tentative'[n].pending => Answered(n)'
    BY <1>3, <1>5, <2>1, DrainedIsAnswered
  <2>3. ~Finish(n) /\ ~Continue(n)
    BY <2>1 DEF Finish, Continue, At
  <2>4. QED
    BY <1>1, <1>5, <2>2, <2>3
<1>6. CASE (Send(n) \/ Handle(n)) /\ step[n] = "handle" /\ step'[n] = "handle"
  <2>1. ~Proposes(n)
    BY <1>6 DEF Proposes, Propose, At
  <2>2. ASSUME tentative'[n].pending PROVE Answered(n)'
    <3>1. Keeps(n) /\ tentative[n].pending
      BY <1>4, <2>1, <2>2 DEF Keeps
    <3>2. Answered(n) /\ IsNegotiating(n)'
      BY <1>3, <1>6, <3>1 DEF Productive, Keeps, IsNegotiating
    <3>3. QED
      BY <3>1, <3>2, KeptUnderWay
  <2>3. ~Finish(n) /\ ~Continue(n)
    BY <1>6 DEF Finish, Continue, At
  <2>4. QED
    BY <1>1, <1>6, <2>2, <2>3
<1>7. CASE Send(n) /\ step' = step /\ step[n] # "handle"
  <2>1. UNCHANGED <<tentative, matchedTo, unavailable>> /\ outbox[n] # {}
    BY <1>7 DEF Send, negotiation, knowledge
  <2>2. Waiting(n) => Waiting(n)'
    BY <1>2, <1>7, WaitingKept
  <2>3. ~Finish(n) /\ ~Continue(n)
    BY <2>1 DEF Finish, Continue, At
  <2>4. step'[n] = step[n]
    BY <1>7
  <2>5. QED
    BY <1>1, <1>7, <2>1, <2>2, <2>3, <2>4
       DEF Productive, IsMatched, IsNegotiating, Eligible
<1>8. CASE Resolve(n) /\ step[n] = "handle" /\ batch[n] = <<>> /\ step'[n] = "expire"
  <2>1. ~Answered(n)
    BY <1>0, <1>8, NothingComes DEF OneInv, Answered
  <2>2. ~tentative'[n].pending
    BY <1>4, <1>8, <2>1 DEF Productive, Keeps, Proposes, Propose, At
  <2>3. ~Finish(n) /\ ~Continue(n)
    BY <1>8 DEF Finish, Continue, At
  <2>4. QED
    BY <1>1, <1>8, <2>2, <2>3
<1>9. CASE Expire(n) /\ step[n] = "expire" /\ step'[n] = "propose"
  <2>1. ~tentative'[n].pending
    BY <1>4, <1>9 DEF Productive, Keeps, Proposes, Propose, At
  <2>2. ~Finish(n) /\ ~Continue(n)
    BY <1>9 DEF Finish, Continue, At
  <2>3. QED
    BY <1>1, <1>9, <2>1, <2>2
<1>10. CASE Propose(n) /\ step[n] = "propose" /\ step'[n] = "finish"
  <2>0. /\ ~Finish(n) /\ ~Continue(n) /\ UNCHANGED <<matchedTo, unavailable>>
        /\ ~tentative[n].pending
    BY <1>10 DEF Finish, Continue, At, Propose, knowledge, Productive
  <2>1. ASSUME NEW m \in Neighbors(n), MayPropose(n, m),
               Begin(n, m, epoch[n] + 1, TRUE),
               Queue(n, {Msg("PROPOSE", n, m, epoch[n] + 1)})
        PROVE  IsNegotiating(n)' /\ Waiting(n)'
    <3>1. ~IsMatched(m)
      BY <1>0, <1>10, <2>1, ProposalReachesFree
    <3>2. m \in Nodes /\ epoch[n] + 1 \in 1..MaxEpoch
      BY <1>0, <2>1 DEF Neighbors, MayPropose, TypeInv, TypeOK
    <3>3. PICK y \in Message : /\ y = Msg("PROPOSE", n, m, epoch[n] + 1)
                               /\ y.type = "PROPOSE" /\ y.from = n /\ y.to = m
      BY <3>2, MsgFields DEF MessageType
    <3>4. y \in outbox'[n]
      BY <1>0, <2>1, <3>3 DEF Queue, TypeInv, TypeOK
    <3>5. Open(y)'
      BY <3>3, <3>4 DEF Open, OnWay
    <3>6. IsNegotiating(n)'
      BY <1>0, <2>1, <3>2 DEF Begin, IsNegotiating, TypeInv, TypeOK
    <3>7. QED
      BY <2>0, <3>1, <3>3, <3>5, <3>6 DEF Waiting, IsMatched
  <2>2. ASSUME \A m \in Neighbors(n) : ~MayPropose(n, m), UNCHANGED negotiation
        PROVE  /\ IsMatched(n)' \/ IsNegotiating(n)' \/ Eligible(n)' = {}
               /\ ~tentative'[n].pending
    <3>1. epoch[n] < MaxEpoch
      <4>1. epoch[n] < scheduled
        BY <1>0, <1>10 DEF Attempts
      <4>2. epoch[n] \in Nat
        BY <1>0 DEF TypeInv, TypeOK
      <4>3. QED
        BY <4>1, <4>2, BudgetTypes, RunAssumption
    <3>2. IsMatched(n) \/ IsNegotiating(n) \/ Eligible(n) = {}
      BY <2>2, <3>1 DEF MayPropose, Eligible
    <3>3. QED
      BY <2>0, <2>2, <3>2 DEF negotiation, IsMatched, IsNegotiating, Eligible
  <2>3. QED
    <3>1. CASE \E m \in Neighbors(n) :
                 /\ MayPropose(n, m)
                 /\ Begin(n, m, epoch[n] + 1, TRUE)
                 /\ Queue(n, {Msg("PROPOSE", n, m, epoch[n] + 1)})
      BY <1>1, <1>10, <2>0, <2>1, <3>1
    <3>2. CASE (\A m \in Neighbors(n) : ~MayPropose(n, m)) /\ UNCHANGED negotiation
      BY <1>1, <1>10, <2>0, <2>2, <3>2
    <3>3. QED
      BY <1>10, <3>1, <3>2 DEF Propose
<1>11. CASE (Finish(n) \/ Continue(n)) /\ step[n] = "finish" /\ step'[n] = "idle"
  <2>1. n \in finished' \/ Engaged(n)' \/ Waiting(n)'
    <3>1. CASE Finish(n)
      BY <3>1 DEF Finish
    <3>2. CASE Continue(n)
      <4>1. IsNegotiating(n) /\ (tentative[n].pending => Waiting(n))
        BY <1>11, <3>2 DEF Productive, Continue, CanQuiesce
      <4>2. ~Commit(n) /\ ~Resolve(n)
        BY <1>2, <1>11
      <4>3. QED
        BY <4>1, <4>2, WaitingKept, EngagedKept DEF Engaged
    <3>3. QED
      BY <1>11, <3>1, <3>2
  <2>2. QED
    BY <1>1, <1>11, <2>1
<1>12. QED
  BY <1>0, <1>5, <1>6, <1>7, <1>8, <1>9, <1>10, <1>11, StepTable

\* A step numbers the next attempt of its node, or adopts one of a neighbour.
LEMMA AttemptsStep ==
  ASSUME RunInv, OneInv, Attempts, NEW n \in Nodes, Ticks(n)
  PROVE  Attempts'
<1>0. /\ IInv /\ NegotiationInv /\ WayShape /\ NodeStep(n) /\ n \in Executor!Running
      /\ epoch \in [Nodes -> 0..MaxEpoch] /\ scheduled \in Nat
      /\ (Executor!Running)' \subseteq Executor!Running
  BY RunFacts, TickFrame, BudgetTypes DEF TypeInv, TypeOK, Executor!Running
<1>1. scheduled' = scheduled
  BY DEF Ticks, MidTick, EndTick, Executor!Complete, schedulerVars
<1>2. \A o \in Nodes \ {n} : epoch'[o] = epoch[o]
  BY <1>0, LocalFrame
<1>3. \A o \in Executor!Running : o = n
  BY <1>0, Solo DEF OneInv
<1>4. epoch[n] <= scheduled /\ (step[n] # "finish" => \A o \in Nodes : epoch[o] < scheduled)
  BY <1>0 DEF Attempts
<1>5. ASSUME epoch'[n] \in Nat, epoch'[n] <= epoch[n] \/ \E m \in Nodes : epoch'[n] <= epoch[m]
      PROVE  Attempts'
  <2>1. \A o \in Nodes : epoch'[o] <= scheduled
    BY <1>0, <1>2, <1>5 DEF Attempts
  <2>2. ASSUME n \in (Executor!Running)', step'[n] # "finish", NEW o \in Nodes
        PROVE  epoch'[o] < scheduled
    <3>1. step[n] # "finish"
      <4> SUFFICES ASSUME step[n] = "finish" PROVE FALSE
        OBVIOUS
      <4>1. Finish(n) \/ Continue(n)
        BY <1>0, <2>2, StepTable
      <4>2. n \in done'
        BY <1>0, <4>1, TickFrame
      <4>3. QED
        BY <2>2, <4>2 DEF Executor!Running
    <3>2. QED
      BY <1>0, <1>2, <1>4, <1>5, <3>1
  <2>3. QED
    BY <1>0, <1>1, <1>3, <2>1, <2>2 DEF Attempts
<1>6. CASE Keeps(n) \/ Refused(n) \/ Commit(n) \/ Expires(n)
  BY <1>0, <1>5, <1>6 DEF Keeps, Refused, Commit, Expires, Clear
<1>7. CASE Confirms(n)
  <2> DEFINE h == Head(batch[n])
  <2>1. tentative[n].attempt = h.attempt /\ Begin(n, h.from, h.attempt, FALSE)
    BY <1>7 DEF Confirms, Asks, Holds
  <2>2. h.attempt <= epoch[n]
    BY <1>0, <2>1 DEF NegotiationInv, FreshAttempts
  <2>3. epoch'[n] = IF h.attempt > epoch[n] THEN h.attempt ELSE epoch[n]
    BY <1>0, <2>1 DEF Begin
  <2>4. h.attempt \in Nat
    <3>1. tentative[n].attempt \in Nat
      BY <1>0, NegotiationType DEF TypeInv, Negotiation, NoNegotiation
    <3>2. QED
      BY <2>1, <3>1
  <2>5. QED
    BY <1>0, <1>5, <2>2, <2>3, <2>4
<1>8. CASE Accepts(n)
  <2>1. PICK w \in Offerers(n) : Begin(n, w, offers[n][w], FALSE)
    BY <1>8 DEF Accepts
  <2>2. w \in Nodes /\ offers[n][w] <= epoch[w] /\ offers[n][w] \in Nat
    BY <1>0 DEF Offerers, NegotiationInv, FreshAttempts, TypeInv, TypeOK
  <2>3. epoch'[n] = IF offers[n][w] > epoch[n] THEN offers[n][w] ELSE epoch[n]
    BY <1>0, <2>1 DEF Begin
  <2>4. QED
    BY <1>0, <1>5, <2>2, <2>3
<1>9. CASE Proposes(n)
  <2>1. PICK m \in Neighbors(n) : Begin(n, m, epoch[n] + 1, TRUE)
    BY <1>9 DEF Proposes
  <2>2. epoch'[n] = epoch[n] + 1
    BY <1>0, <2>1 DEF Begin
  <2>3. step[n] = "propose" /\ step'[n] = "finish"
    BY <1>0, <1>9 DEF Proposes, Propose, At, GoTo, TypeInv, TypeOK
  <2>4. \A o \in Nodes : epoch'[o] <= scheduled
    BY <1>0, <1>2, <1>4, <2>2, <2>3
  <2>5. QED
    BY <1>0, <1>1, <1>3, <2>3, <2>4 DEF Attempts
<1>10. QED
  BY <1>0, <1>6, <1>7, <1>8, <1>9, NegotiationStep

\* Who is ticked next does not wait any more: the answer has been sent.
LEMMA HeadIsAnswered ==
  ASSUME OneWorker, RunInv, OneInv, Executor!MaySubmit
  PROVE  ~Waiting(Head(ready))
<1> DEFINE h == Head(ready)
<1> SUFFICES ASSUME NEW x \in Message, x.type = "PROPOSE", x.from = h, Open(x)
             PROVE  FALSE
  BY DEF Waiting
<1>1. /\ inFlight = {} /\ h = ready[1] /\ h \in Nodes /\ 1 \in 1..Len(ready)
      /\ NegotiationInv /\ Unanswered(x)
  BY PoolIsEmpty, RunFacts, HeadTailProperties, LenProperties, IsMsg
     DEF Executor!MaySubmit, Open, Unanswered
<1>2. Asks(h, x.to, x.attempt)
  BY DEF OneInv, OpenIsCurrent, Current
<1>3. ~Requested(h)
  BY <1>1, QueuedOnce DEF Requested, Before, Executor!Running
<1>4. Answered(h)
  <2>1. x.to # None
    BY IsMsg
  <2>2. IsNegotiating(h)
    BY <1>2, <2>1 DEF Asks, Holds, IsNegotiating
  <2>3. QED
    BY <1>1, <1>3, <2>2 DEF OneInv, UnderWay
<1>5. PICK y \in Message :
        /\ y.to = h /\ Holds(h, y.from, y.attempt) /\ OnWay(y)
        /\ y.type \in {"ACCEPT", "REJECT", "REJECT_MATCHED", "CONFIRM", "CONFIRM_ACK"}
  BY <1>4 DEF Answered
<1>6. y.from = x.to /\ y.attempt = x.attempt
  BY <1>2, <1>5 DEF Asks, Holds
<1>7. y.type # "ACCEPT"
  BY <1>1, <1>5, <1>6 DEF NegotiationInv, AnsweredOnce, Answers
<1>8. y.type \notin {"REJECT", "REJECT_MATCHED"}
  BY <1>1, <1>5, <1>6 DEF OneInv, SaidOnce
<1>9. y.type \notin {"CONFIRM", "CONFIRM_ACK"}
  BY <1>1, <1>2, <1>5, <1>6 DEF NegotiationInv, AskingIsUncommitted
<1>10. QED
  BY <1>5, <1>7, <1>8, <1>9

\* What the caller's loop leaves alone.
LEMMA SameEndpoints ==
  ASSUME UNCHANGED vars
  PROVE  /\ UNCHANGED <<step, tentative, epoch, finished>>
         /\ \A o : /\ Answered(o)' = Answered(o) /\ Waiting(o)' = Waiting(o)
                   /\ Engaged(o)' = Engaged(o) /\ IsMatched(o)' = IsMatched(o)
                   /\ IsNegotiating(o)' = IsNegotiating(o)
                   /\ Eligible(o)' = Eligible(o)
         /\ Unmatched' = Unmatched
<1>0. UNCHANGED <<mailbox, batch, outbox, offers, step, tentative, epoch,
                  matchedTo, unavailable, finished>>
  BY DEF vars
<1>1. \A r : Way(r)' = Way(r)
  BY <1>0 DEF Way
<1>2. /\ \A x : OnWay(x)' = OnWay(x) /\ Offered(x)' = Offered(x)
      /\ \A a, b, k : Holds(a, b, k)' = Holds(a, b, k)
      /\ \A a : IsMatched(a)' = IsMatched(a) /\ IsNegotiating(a)' = IsNegotiating(a)
                /\ Eligible(a)' = Eligible(a)
  BY <1>0, <1>1 DEF OnWay, Travels, Offered, Holds, IsMatched, IsNegotiating, Eligible
<1>3. \A x : Open(x)' = Open(x)
  BY <1>2 DEF Open
<1>4. \A o : Answered(o)' = Answered(o) /\ Waiting(o)' = Waiting(o)
             /\ Engaged(o)' = Engaged(o)
  BY <1>0, <1>2, <1>3 DEF Answered, Waiting, Engaged
<1>5. QED
  BY <1>0, <1>2, <1>4 DEF Unmatched

LEMMA ProductiveKept ==
  ASSUME Productive, UNCHANGED vars, done' \subseteq done
  PROVE  Productive'
BY SameEndpoints DEF Productive

\* A tick is taken from the budget when it is submitted.
LEMMA SubmitKeepsPace ==
  ASSUME OneWorker, RunInv, OneInv, PaceInv, Executor!Submit, UNCHANGED vars
  PROVE  PaceInv'
<1> DEFINE h == Head(ready)
<1>0. /\ inFlight = {} /\ done = {} /\ ready # <<>> /\ ready \in Seq(Nodes)
      /\ ready' = Tail(ready) /\ done' = done /\ finished' = finished
      /\ inFlight' = IF h \in Nodes \ finished THEN {h} ELSE {}
      /\ scheduled' = IF h \in Nodes \ finished THEN scheduled + 1 ELSE scheduled
      /\ Executor!MaySubmit
  BY PoolIsEmpty, RunFacts DEF Executor!Submit, Executor!MaySubmit,
     Executor!PopReady, Executor!IsActive, vars
<1>1. /\ h \in Nodes /\ Len(ready) \in Nat /\ h = ready[1]
      /\ Len(Tail(ready)) = Len(ready) - 1
      /\ \A i \in 1..Len(Tail(ready)) : Tail(ready)[i] = ready[i + 1]
  BY <1>0, HeadTailProperties, LenProperties
<1>2. /\ scheduled \in Nat /\ Spent \in Nat /\ TickBound \in Nat
      /\ Movers \subseteq Nodes /\ Cardinality(Movers) \in Nat
      /\ Cardinality(Nodes) \in Nat
      /\ TickBound' = TickBound /\ Cardinality(Nodes)' = Cardinality(Nodes)
      /\ IInv
  BY BudgetTypes, RunFacts DEF TickBound
<1>3. Spent' = IF h \in Nodes \ finished THEN Spent + 1 ELSE Spent
  <2>1. PICK p \in Nat : p = 2 * Cardinality(Nodes) * Cardinality(Unmatched)
    BY BudgetTypes
  <2>2. Spent = scheduled + p /\ Spent' = scheduled' + p
    BY <2>1, SameEndpoints DEF Spent
  <2>3. QED
    BY <1>0, <1>2, <2>1, <2>2
<1>4. Productive'
  BY <1>0, ProductiveKept DEF PaceInv
<1>5. Attempts'
  <2>1. \A o \in Nodes : epoch[o] <= scheduled /\ epoch[o] \in Nat
    BY <1>2 DEF PaceInv, Attempts, TypeInv, TypeOK
  <2>2. epoch' = epoch
    BY SameEndpoints
  <2>3. scheduled' = scheduled \/ scheduled' = scheduled + 1
    BY <1>0
  <2>4. scheduled' = scheduled + 1 \/ (Executor!Running)' = {}
    BY <1>0 DEF Executor!Running
  <2>5. \A o \in Nodes : epoch'[o] <= scheduled'
    BY <1>2, <2>1, <2>2, <2>3
  <2>6. (Executor!Running)' # {} => \A o \in Nodes : epoch'[o] < scheduled'
    BY <1>2, <2>1, <2>2, <2>4
  <2>7. QED
    BY <2>5, <2>6 DEF Attempts
<1>6. ASSUME NEW e \in Nodes, NEW k \in Nat, Engaged(e), Turn(e, k),
             Spent + k <= TickBound
      PROVE  Budget'
  <2>1. k \in 1..Len(ready) /\ ready[k] = e
    BY <1>0, <1>6 DEF Turn, Executor!Running
  <2>2. e \notin finished /\ step[e] = "idle"
    BY <1>0, <1>6 DEF OneInv, Stopped, InTurn, Engaged, Executor!Running
  <2>3. Engaged(e)' /\ step' = step
    BY <1>6, SameEndpoints
  <2>5. CASE k = 1
    <3>1. e = h /\ inFlight' = {e} /\ Spent' = Spent + 1
      BY <1>0, <1>1, <1>3, <2>1, <2>2, <2>5
    <3>2. Turn(e, 0)'
      BY <1>0, <2>2, <2>3, <3>1 DEF Turn, Executor!Running
    <3>3. Spent' + 0 <= TickBound
      BY <1>2, <1>6, <2>5, <3>1
    <3>4. QED
      BY <1>2, <2>3, <3>2, <3>3 DEF Budget
  <2>6. CASE k # 1
    <3>1. PICK j \in Nat : j = k - 1 /\ j \in 1..Len(Tail(ready))
      BY <1>1, <2>1, <2>6
    <3>2. Turn(e, j)'
      BY <1>0, <1>1, <2>1, <3>1 DEF Turn
    <3>3. Spent' + j <= TickBound
      BY <1>2, <1>6, <1>3, <3>1
    <3>4. QED
      BY <1>2, <2>3, <3>2, <3>3 DEF Budget
  <2>7. QED
    BY <2>5, <2>6
<1>7. ASSUME Spent + Cardinality(Nodes) + Cardinality(Movers) <= TickBound
      PROVE  Budget'
  <2>1. \A o : Waiting(o)' = Waiting(o)
    BY SameEndpoints
  <2>2. CASE h \in Nodes \ finished
    <3>1. Movers' = Movers \ {h}
      BY <1>0, <2>1, <2>2 DEF Movers
    <3>2. h \in Movers
      BY <1>0, <2>2, HeadIsAnswered DEF Movers
    <3>3. Spent' = Spent + 1
      BY <1>3, <2>2
    <3> HIDE DEF Movers, h
    <3>4. Cardinality(Movers') = Cardinality(Movers) - 1
      BY <1>2, <3>1, <3>2, Counts, FS_RemoveElement
    <3>5. QED
      BY <1>2, <1>7, <3>3, <3>4 DEF Budget
  <2>3. CASE h \notin Nodes \ finished
    <3>1. Movers' = Movers
      BY <1>0, <2>1, <2>3 DEF Movers
    <3>2. Spent' = Spent
      BY <1>3, <2>3
    <3>3. QED
      BY <1>2, <1>7, <3>1, <3>2 DEF Budget
  <2>4. QED
    BY <2>2, <2>3
<1>8. QED
  BY <1>4, <1>5, <1>6, <1>7 DEF PaceInv, Budget

\* The node collected has finished, waits, or is engaged; then it is queued.
LEMMA CollectKeepsPace ==
  ASSUME OneWorker, RunInv, OneInv, PaceInv, Executor!Collect, UNCHANGED vars
  PROVE  PaceInv'
<1>1. PICK n \in collected :
        /\ done' = done \ {n} /\ inFlight' = inFlight \ {n}
        /\ ready' = IF n \in Nodes \ finished THEN Append(ready, n) ELSE ready
        /\ scheduled' = scheduled
  BY DEF Executor!Collect, Executor!ResultRaises, Executor!Requeue,
         Executor!IsActive
<1>2. n \in Nodes /\ n \in done /\ n \in inFlight
  BY RunFacts
<1>3. inFlight = {n} /\ inFlight' = {} /\ done = {n} /\ finished' = finished
  BY <1>1, <1>2, RunFacts, SameEndpoints DEF OneInv, InTurn
<1>4. /\ ready \in Seq(Nodes) /\ Len(ready) \in Nat
      /\ Len(Append(ready, n)) = Len(ready) + 1
      /\ \A i \in 1..Len(ready) : Append(ready, n)[i] = ready[i]
      /\ Append(ready, n)[Len(ready) + 1] = n
      /\ Len(ready) + 1 <= Cardinality(Nodes)
  BY <1>2, RunFacts, AppendProperties, QueueFits
<1>5. /\ Spent \in Nat /\ TickBound \in Nat /\ Cardinality(Movers) \in Nat
      /\ Cardinality(Nodes) \in Nat
      /\ TickBound' = TickBound /\ Cardinality(Nodes)' = Cardinality(Nodes)
      /\ Spent' = Spent
  BY <1>1, BudgetTypes, SameEndpoints DEF TickBound, Spent
<1>6. Productive'
  BY <1>1, ProductiveKept DEF PaceInv
<1>7. Attempts'
  BY <1>1, <1>3, SameEndpoints DEF PaceInv, Attempts, Executor!Running
<1>8. ASSUME NEW e \in Nodes, NEW k \in Nat, Engaged(e), Spent + k <= TickBound,
             \/ k \in 1..Len(ready) /\ ready[k] = e
             \/ e = n /\ k = Len(ready) + 1
      PROVE  Budget'
  <2>1. Engaged(e)'
    BY <1>8, SameEndpoints
  <2>2. k \in 1..Len(ready') /\ ready'[k] = e
    <3>1. e \notin finished
      BY <1>8 DEF OneInv, Stopped, Engaged
    <3>2. CASE n \in finished
      BY <1>1, <1>8, <3>1, <3>2
    <3>3. CASE n \notin finished
      <4>1. ready' = Append(ready, n)
        BY <1>1, <1>2, <3>3
      <4>2. QED
        BY <1>4, <1>8, <4>1
    <3>4. QED
      BY <3>2, <3>3
  <2>3. Turn(e, k)'
    BY <2>2 DEF Turn
  <2>4. QED
    BY <1>5, <1>8, <2>1, <2>3 DEF Budget
<1>9. ASSUME Spent + Cardinality(Nodes) + Cardinality(Movers) <= TickBound
      PROVE  Budget'
  <2>1. CASE Engaged(n)
    <3>1. PICK k \in Nat : k = Len(ready) + 1
      BY <1>4
    <3>2. Spent + k <= TickBound
      BY <1>4, <1>5, <1>9, <3>1
    <3>3. QED
      BY <1>2, <1>8, <2>1, <3>1, <3>2
  <2>2. CASE n \in finished \/ Waiting(n)
    <3>1. Movers' = Movers
      BY <1>3, <2>2, SameEndpoints DEF Movers
    <3>2. QED
      BY <1>5, <1>9, <3>1 DEF Budget
  <2>3. QED
    BY <1>2, <2>1, <2>2 DEF PaceInv, Productive
<1>10. ASSUME NEW e \in Nodes, NEW k \in Nat, Engaged(e), Turn(e, k),
              Spent + k <= TickBound
       PROVE  Budget'
  BY <1>3, <1>8, <1>10 DEF Turn, Executor!Running
<1>11. QED
  BY <1>6, <1>7, <1>9, <1>10 DEF PaceInv, Budget

\* Waiting for a tick, and the end, cost nothing.
LEMMA IdlingKeepsPace ==
  ASSUME PaceInv, UNCHANGED <<vars, ready, inFlight, done, scheduled>>
  PROVE  PaceInv'
<1>0. /\ UNCHANGED vars /\ UNCHANGED <<ready, inFlight, done, scheduled>>
      /\ (Executor!Running)' = Executor!Running
  BY DEF Executor!Running
<1>1. Productive'
  BY <1>0, ProductiveKept DEF PaceInv
<1>2. Attempts'
  BY <1>0, SameEndpoints DEF PaceInv, Attempts
<1>3. Spent' = Spent /\ TickBound' = TickBound /\ Movers' = Movers
      /\ Cardinality(Nodes)' = Cardinality(Nodes)
  BY <1>0, SameEndpoints DEF Spent, TickBound, Movers
<1>4. \A e, k : Turn(e, k)' = Turn(e, k) /\ Engaged(e)' = Engaged(e)
  BY <1>0, SameEndpoints DEF Turn
<1>5. Budget'
  BY <1>3, <1>4 DEF PaceInv, Budget
<1>6. QED
  BY <1>1, <1>2, <1>5 DEF PaceInv

-----------------------------------------------------------------------------
(* A run                                                                   *)

\* When a run starts nothing is sent and nobody is in a negotiation.
LEMMA OneInvInit ==
  ASSUME OneWorker, RunInit
  PROVE  OneInv
<1>0. /\ inFlight = {} /\ phase = "fill" /\ finished = {}
      /\ \A n \in Nodes : /\ step[n] = "idle" /\ outbox[n] = {}
                          /\ mailbox[n] = <<>> /\ batch[n] = <<>>
                          /\ matchedTo[n] = None /\ offers[n] = NoOffers
                          /\ tentative[n] = NoNegotiation
  BY DEF RunInit, Init, Executor!ExecutorInit, OneWorker
<1>1. ASSUME NEW x \in Message PROVE ~OnWay(x) /\ ~Open(x)
  <2>1. x.from \in Nodes /\ x.to \in Nodes /\ x.attempt \in 1..MaxEpoch
    BY IsMsg
  <2>2. Way(x.to) = <<>>
    <3>1. <<>> \o <<>> = <<>>
      BY ConcatEmptySeq
    <3>2. QED
      BY <1>0, <2>1, <3>1 DEF Way
  <2>3. ~Travels(x)
    BY <2>2 DEF Travels
  <2>4. ~Offered(x)
    BY <1>0, <2>1 DEF Offered, NoOffers
  <2>5. QED
    BY <1>0, <2>1, <2>3, <2>4 DEF OnWay, Open
<1>2. ASSUME NEW n \in Nodes PROVE ~IsMatched(n) /\ ~IsNegotiating(n)
  <2>1. matchedTo[n] = None /\ tentative[n] = NoNegotiation
    BY <1>0
  <2>2. QED
    BY <2>1 DEF IsMatched, IsNegotiating, NoNegotiation
<1>3. \A x, y \in Message : ~Behind(x, y)
  BY <1>1, BehindOnWay
<1>4. InTurn
  BY <1>0 DEF InTurn
<1>5. OpenIsCurrent /\ SaidOnce
  BY <1>1, <1>3 DEF OpenIsCurrent, SaidOnce
<1>6. UnderWay /\ Timely /\ Aware /\ Mutual /\ Stopped
  BY <1>0, <1>2 DEF UnderWay, Timely, Aware, Mutual, Stopped
<1>7. QED
  BY <1>4, <1>5, <1>6 DEF OneInv

\* The budget a run starts with is every tick it may take.
LEMMA PaceInvInit ==
  ASSUME OneWorker, RunInit
  PROVE  PaceInv
<1>0. /\ inFlight = {} /\ done = {} /\ scheduled = 0
      /\ \A n \in Nodes : /\ step[n] = "idle" /\ epoch[n] = 0
                          /\ tentative[n] = NoNegotiation
  BY DEF RunInit, Init, Executor!ExecutorInit
<1>1. Productive /\ Attempts
  BY <1>0 DEF Productive, Attempts, Executor!Running
<1>2. Unmatched \subseteq Nodes /\ Movers \subseteq Nodes
  BY DEF Unmatched, Movers
<1> HIDE DEF Unmatched, Movers
<1>3. /\ Cardinality(Nodes) \in Nat /\ Cardinality(Unmatched) \in Nat
      /\ Cardinality(Movers) \in Nat
      /\ Cardinality(Unmatched) <= Cardinality(Nodes)
      /\ Cardinality(Movers) <= Cardinality(Nodes)
  BY <1>2, Counts
<1>4. \A c, u \in Nat : u <= c => 2 * c * u + c + c <= 2 * c * (c + 1)
  <2> SUFFICES ASSUME NEW c \in Nat, NEW u \in Nat, u <= c
               PROVE  2 * c * u + c + c <= 2 * c * (c + 1)
    OBVIOUS
  <2>1. PICK d \in Nat : c = u + d
    BY c - u \in Nat
  <2>2. c * c = c * u + c * d /\ c * d \in Nat /\ c * u \in Nat
    BY <2>1
  <2>3. 2 * c * (c + 1) = 2 * (c * c) + 2 * c /\ 2 * c * u = 2 * (c * u)
    OBVIOUS
  <2>4. QED
    BY <2>2, <2>3
<1>5. 2 * Cardinality(Nodes) * Cardinality(Unmatched) + Cardinality(Nodes)
        + Cardinality(Nodes) <= TickBound
  BY <1>3, <1>4 DEF TickBound
<1>6. \A a, b \in Nat : 2 * a * b \in Nat
  OBVIOUS
<1>7. Spent + Cardinality(Nodes) + Cardinality(Movers) <= TickBound
  BY <1>0, <1>3, <1>5, <1>6 DEF Spent, TickBound
<1>8. QED
  BY <1>1, <1>7 DEF PaceInv, Budget

HIDE DEF IInv

\* With one worker the invariant holds throughout a run, of endpoints alone
\* and of whole nodes.
LEMMA OneInvHolds ==
  ASSUME OneWorker
  PROVE  RunSpec \/ NodeSpec => [](RunInv /\ OneInv)
<1>1. RunInit => OneInv
  BY OneInvInit
<1>2. RunInv /\ OneInv /\ [RunNext]_runVars => OneInv'
  <2> SUFFICES ASSUME RunInv, OneInv, [RunNext]_runVars PROVE OneInv'
    OBVIOUS
  <2>1. CASE Schedule
    BY <2>1, ScheduleKeepsOneInv
  <2>2. ASSUME NEW n \in Nodes, MidTick(n) \/ EndTick(n) PROVE OneInv'
    BY <2>2, TickKeepsOneInv DEF Ticks
  <2>3. CASE Ended \/ UNCHANGED runVars
    BY <2>3, StutterKeepsOneInv DEF Ended
  <2>4. QED
    BY <2>1, <2>2, <2>3 DEF RunNext
<1>3. QED
  BY <1>1, <1>2, AnyRun, PTL DEF RunSafe

\* expire_if_needed finds no deadline passed: the partner's tick and with it
\* its answer come between two ticks of whoever waits for them.
THEOREM NoDeadlinePassesCorrect ==
  ASSUME OneWorker
  PROVE  RunSpec \/ NodeSpec => []NoDeadlinePasses
<1>1. RunInv /\ OneInv => NoDeadlinePasses
  <2> SUFFICES ASSUME OneInv, NEW n \in Nodes, step[n] = "expire", ExpireDue(n)
               PROVE  FALSE
    BY DEF NoDeadlinePasses
  <2>1. IsNegotiating(n) /\ tentative[n].left <= 0
    BY DEF ExpireDue
  <2>2. tentative[n].left = ProposalTimeout
    BY <2>1 DEF OneInv, Timely
  <2>3. QED
    BY <2>1, <2>2
<1>2. QED
  BY <1>1, OneInvHolds, PTL

\* _collect_results drops no match of a quiescent run: an acknowledgement
\* that is still on its way waits for a node that has not finished.
THEOREM QuiescentIsMutualCorrect ==
  ASSUME OneWorker
  PROVE  RunSpec \/ NodeSpec => []QuiescentIsMutual
<1>1. RunInv /\ OneInv => QuiescentIsMutual
  <2> SUFFICES ASSUME RunInv, OneInv, Quiescent, NEW n \in Nodes, IsMatched(n),
                      matchedTo[matchedTo[n]] # n
               PROVE  FALSE
    BY DEF QuiescentIsMutual
  <2>1. Nodes \subseteq finished
    BY DEF Quiescent, Executor!WatchdogExhausted, RunInv, Loop!IInv,
           Loop!EndsIdleOrExhausted, Loop!WatchdogExhausted
  <2>2. PICK x \in Message : /\ x.from = n /\ x.to = matchedTo[n] /\ OnWay(x)
                             /\ x.type = "CONFIRM_ACK"
    BY DEF OneInv, Mutual
  <2>3. x.to \in Nodes /\ x.from \in Nodes
    BY <2>2, IsMsg
  <2>4. Waits(x.to, x.from, x.attempt)
    BY <2>2 DEF OneInv, OpenIsCurrent, Open, Current
  <2>5. IsNegotiating(x.to)
    BY <2>3, <2>4 DEF Waits, Holds, IsNegotiating
  <2>6. QED
    BY <2>1, <2>3, <2>5 DEF OneInv, Stopped
<1>2. QED
  BY <1>1, OneInvHolds, PTL

\* What ALGORITHM_FLOW.md promises of every run is true of the quiescent
\* ones with one worker: they leave no edge with both ends unmatched.
THEOREM QuiescentIsMaximalCorrect ==
  ASSUME OneWorker
  PROVE  RunSpec \/ NodeSpec => []QuiescentIsMaximal
<1>1. QED
  BY QuiescentIsMutualCorrect, MutualRunsAreMaximal, PTL

LEMMA PaceInvHolds ==
  ASSUME OneWorker, MaySkip = FALSE, MaxEpoch >= MaxTicks
  PROVE  RunSpec => [](RunInv /\ OneInv /\ PaceInv)
<1>1. RunInit => PaceInv
  BY PaceInvInit
<1>2. RunInv /\ OneInv /\ PaceInv /\ [RunNext]_runVars => PaceInv'
  <2> SUFFICES ASSUME RunInv, OneInv, PaceInv, [RunNext]_runVars PROVE PaceInv'
    OBVIOUS
  <2>1. CASE Schedule
    <3>1. CASE Executor!Wait \/ Executor!End
      BY <2>1, <3>1, IdlingKeepsPace DEF Schedule, Executor!Wait, Executor!End
    <3>2. QED
      BY <2>1, <3>1, SubmitKeepsPace, CollectKeepsPace
         DEF Schedule, Executor!Scheduler
  <2>2. ASSUME NEW n \in Nodes, MidTick(n) \/ EndTick(n) PROVE PaceInv'
    BY <2>2, ProductiveStep, AttemptsStep, BudgetStep DEF Ticks, PaceInv
  <2>3. CASE Ended \/ UNCHANGED runVars
    BY <2>3, IdlingKeepsPace DEF Ended, runVars, schedulerVars
  <2>4. QED
    BY <2>1, <2>2, <2>3 DEF RunNext
<1>3. QED
  BY <1>1, <1>2, OneInvHolds, AnyRun, PTL DEF RunSafe

\* The outcome of a run is never "watchdog_exhausted": with one worker,
\* policies that always select somebody, and a watchdog of 2N(N + 1) ticks
\* for N nodes, the queue runs empty before the ticks are used up.  (MaxEpoch,
\* the model's bound on attempt numbers, must not be the smaller limit.)
THEOREM EndsQuiescentCorrect ==
  ASSUME OneWorker, MaySkip = FALSE, MaxTicks >= TickBound, MaxEpoch >= MaxTicks
  PROVE  RunSpec => []EndsQuiescent
<1>1. RunInv /\ OneInv /\ PaceInv => EndsQuiescent
  <2> SUFFICES ASSUME RunInv, OneInv, PaceInv, phase = "ended"
               PROVE  Quiescent
    BY DEF EndsQuiescent
  <2>1. inFlight = {} /\ (Nodes \ finished = {} \/ scheduled >= MaxTicks)
    BY DEF RunInv, Loop!IInv, Loop!EndsIdleOrExhausted, Loop!WatchdogExhausted
  <2>2. Nodes \ finished = {}
    <3> SUFFICES ASSUME NEW a \in Nodes \ finished, scheduled >= MaxTicks
                 PROVE  FALSE
      BY <2>1
    <3>1. /\ scheduled \in Nat /\ TickBound \in Nat /\ MaxTicks \in Nat
          /\ Cardinality(Movers) \in Nat /\ Cardinality(Nodes) \in Nat
          /\ 2 * Cardinality(Nodes) * Cardinality(Unmatched) \in Nat
      BY BudgetTypes, RunAssumption
    <3>2. Cardinality(Nodes) # 0
      BY RunAssumption, FS_EmptySet
    <3>3. Spent >= TickBound
      BY <3>1 DEF Spent
    <3>4. ASSUME NEW e \in Nodes, NEW k \in Nat, Turn(e, k) PROVE k # 0
      BY <2>1, <3>4, RunFacts DEF Turn, Executor!Running
    <3>5. Spent \in Nat
      BY BudgetTypes
    <3>6. QED
      BY <3>1, <3>2, <3>3, <3>4, <3>5 DEF PaceInv, Budget
  <2>3. ~Executor!WatchdogExhausted
    BY <2>2 DEF Executor!WatchdogExhausted
  <2>4. \A n \in Nodes : IsTerminal(n)
    BY <2>2 DEF OneInv, Stopped, IsTerminal
  <2>5. QED
    BY <2>3, <2>4 DEF Quiescent
<1>2. QED
  BY <1>1, PaceInvHolds, PTL

\* What ALGORITHM_FLOW.md promises is then true of every run that returns: it
\* leaves no edge with both ends unmatched.
THEOREM ProposingReturnsMaximal ==
  ASSUME OneWorker, MaySkip = FALSE, MaxTicks >= TickBound, MaxEpoch >= MaxTicks
  PROVE  RunSpec => []ReturnsMaximal
<1>1. EndsQuiescent /\ QuiescentIsMaximal => ReturnsMaximal
  BY DEF EndsQuiescent, QuiescentIsMaximal, ReturnsMaximal
<1>2. QED
  BY <1>1, EndsQuiescentCorrect, QuiescentIsMaximalCorrect, PTL

=============================================================================
