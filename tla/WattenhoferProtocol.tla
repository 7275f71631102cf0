-------------------------- MODULE WattenhoferProtocol --------------------------
(***************************************************************************)
(* The staged advisor of each endpoint.  A phase is a valid stage and then *)
(* RoundsPerPhase rounds of select, eliminate, match and cleanup; a stage  *)
(* sends its messages and a SYNC to every neighbour, and is left in a tick *)
(* whose notices are those of exactly the expected neighbours.             *)
(*                                                                         *)
(* An endpoint drains its mailbox, tells the advisor which neighbours are  *)
(* matched and whether it is itself, and then gives it the messages; what  *)
(* the endpoint does beyond that is EndpointProtocol, and reduced here to  *)
(* committing to a neighbour at some tick (Drain and EndTick, which        *)
(* DistributedNode replaces by the endpoint itself).  As there, a handler  *)
(* is one step and its sends go out one by one.  Random choices are left   *)
(* open.                                                                   *)
(*                                                                         *)
(* stage_notices is not kept: it always holds the senders of the SYNCs of  *)
(* the current stage.  chosen_imposed_neighbors is never read.             *)
(***************************************************************************)
EXTENDS Topology, Sequences

CONSTANTS
  None,             \* no neighbour
  MaxPhases,        \* max_phases
  RoundsPerPhase,   \* rounds_per_phase
  ValidThreshold,   \* watt_valid_threshold, in percent
  ThresholdDecay,   \* threshold_decay, in percent
  MayPass,          \* whether a select or eliminate probability is below one
  Committers        \* endpoints that may commit to a match during the run

ASSUME AdvisorAssumption ==
  /\ None \notin Nodes
  /\ MaxPhases \in Nat \ {0} /\ RoundsPerPhase \in Nat \ {0}
  /\ ValidThreshold \in 10..100 /\ ThresholdDecay \in 0..25
  /\ MayPass \in BOOLEAN
  /\ Committers \subseteq Nodes

VARIABLES
  mailbox,      \* one queue per recipient
  batch,        \* the drained messages a tick still has to handle
  outbox,       \* what the running handler still has to send
  step,         \* where the node is in its tick
  advisor,      \* the advisor's fields
  matchedTo,    \* "matched_to" of the endpoint
  unavailable,  \* UNAVAILABLE_NEIGHBORS of the endpoint
  finished      \* nodes that are not ticked any more

vars == <<mailbox, batch, outbox, step, advisor, matchedTo, unavailable,
          finished>>
endpoint == <<matchedTo, unavailable, finished>>

-----------------------------------------------------------------------------
(* Messages and the advisor's fields                                       *)

Stage == {"valid", "select", "eliminate", "match", "cleanup"}

\* A place in the protocol: phase, round, stage.
Place == [phase : 0..MaxPhases, round : 0..RoundsPerPhase, stage : Stage]

Message ==
  [type : {"CANDIDATE", "SELECT", "ELIMINATE", "MATCH", "CLEANUP", "SYNC",
           "MATCHED"},
   from : Nodes, to : Nodes, at : Place]

Advisor ==
  [at : Place, started : BOOLEAN, terminal : BOOLEAN,
   candidates : SUBSET Nodes,         \* local_candidate_neighbors
   valid : SUBSET Nodes,              \* valid_neighbors
   selected : Nodes \cup {None},      \* selected_neighbor
   imposed : SUBSET Nodes,            \* imposed_neighbors
   retained : SUBSET Nodes,           \* retained_neighbors
   choice : Nodes \cup {None},        \* match_choice
   notices : SUBSET Nodes,            \* match_notices
   advised : Nodes \cup {None},       \* advised_neighbor
   privatelyMatched : BOOLEAN,        \* _private_matched
   gone : SUBSET Nodes,               \* _private_unavailable_neighbors
   syncs : SUBSET (Nodes \X Place)]   \* sync_notices

TypeOK ==
  /\ mailbox \in [Nodes -> Seq(Message)]
  /\ batch \in [Nodes -> Seq(Message)]
  /\ outbox \in [Nodes -> SUBSET Message]
  /\ step \in [Nodes -> {"idle", "retire", "start", "handle"}]
  /\ advisor \in [Nodes -> Advisor]
  /\ matchedTo \in [Nodes -> Nodes \cup {None}]
  /\ unavailable \in [Nodes -> SUBSET Nodes]
  /\ finished \subseteq Nodes

NewAdvisor ==
  [at |-> [phase |-> 0, round |-> 0, stage |-> "valid"],
   started |-> FALSE, terminal |-> FALSE, candidates |-> {}, valid |-> {},
   selected |-> None, imposed |-> {}, retained |-> {}, choice |-> None,
   notices |-> {}, advised |-> None, privatelyMatched |-> FALSE,
   gone |-> {}, syncs |-> {}]

AdvisorInit ==
  /\ mailbox = [n \in Nodes |-> <<>>]
  /\ batch = [n \in Nodes |-> <<>>]
  /\ outbox = [n \in Nodes |-> {}]
  /\ step = [n \in Nodes |-> "idle"]
  /\ advisor = [n \in Nodes |-> NewAdvisor]

Init ==
  /\ AdvisorInit
  /\ matchedTo = [n \in Nodes |-> None]
  /\ unavailable = [n \in Nodes |-> {}]
  /\ finished = {}

\* The messages of one type that advisor a of n sends to a set of nodes.
ToAll(n, a, type, S) ==
  {[type |-> type, from |-> n, to |-> m, at |-> a.at] : m \in S}

\* The advisor of n becomes a, and n has to send these messages.
Become(n, a, messages) ==
  /\ advisor' = [advisor EXCEPT ![n] = a]
  /\ outbox' = [outbox EXCEPT ![n] = messages]

At(n, s) == step[n] = s /\ outbox[n] = {}

GoTo(n, s) == step' = [step EXCEPT ![n] = s]

\* Mutant: a neighbour sees the SYNC before what it concludes.
SyncFirst(m) == IF m.type = "SYNC" THEN 0 ELSE 1

\* Every handler sends what it concludes, then CLEANUPs, then SYNCs; the order
\* within each of them is that of a neighbour list or a set.
Turn(m) == CASE m.type = "SYNC" -> 2 [] m.type = "CLEANUP" -> 1 [] OTHER -> 0

Send(n) ==
  /\ \E m \in outbox[n] :
       /\ \A k \in outbox[n] : Turn(m) <= Turn(k)
       /\ mailbox' = [mailbox EXCEPT ![m.to] = Append(@, m)]
       /\ outbox' = [outbox EXCEPT ![n] = @ \ {m}]
  /\ UNCHANGED <<batch, step, advisor, endpoint>>

-----------------------------------------------------------------------------
(* The start of a tick                                                     *)

MarkUnavailable(a, S) == [a EXCEPT !.valid = @ \ S, !.gone = @ \cup S]

StageNotices(a) == {s \in Nodes : <<s, a.at>> \in a.syncs}

Expected(n, a) == Neighbors(n) \ a.gone

\* Mutant: one notice is enough.
SynchronizedBySome(n, a) ==
  /\ ~a.terminal
  /\ Expected(n, a) # {} => StageNotices(a) \cap Expected(n, a) # {}

\* _advance_if_synchronized's early return, negated.
Synchronized(n, a) == ~a.terminal /\ StageNotices(a) = Expected(n, a)

\* A tick without mail of an advisor that cannot advance changes nothing.
IdleTick(n) ==
  /\ At(n, "idle") /\ n \notin finished
  /\ mailbox[n] = <<>> /\ advisor[n].started
  /\ ~Synchronized(n, advisor[n])
  /\ UNCHANGED vars

TakeMail(n) ==
  /\ batch' = [batch EXCEPT ![n] = mailbox[n]]
  /\ mailbox' = [mailbox EXCEPT ![n] = <<>>]

\* The endpoint drains its mailbox, and may commit to a neighbour m that is
\* not known to be matched; it tells the others at once.
Drain(n) ==
  LET announced == {mailbox[n][i].from : i \in
                      {j \in DOMAIN mailbox[n] : mailbox[n][j].type = "MATCHED"}}
      marked == MarkUnavailable(advisor[n], announced)
      Nextstep(matched) == GoTo(n, IF matched THEN "retire"
                                   ELSE IF advisor[n].started THEN "handle"
                                   ELSE "start")
  IN
  /\ At(n, "idle") /\ n \notin finished
  /\ TakeMail(n)
  /\ unavailable' = [unavailable EXCEPT ![n] = @ \cup announced]
  /\ \/ /\ mailbox[n] # <<>> \/ ~advisor[n].started
           \/ Synchronized(n, advisor[n])
        /\ Become(n, marked, {})
        /\ Nextstep(FALSE)
        /\ UNCHANGED matchedTo
     \/ /\ n \in Committers
        /\ \E m \in Neighbors(n) \ unavailable'[n] :
             /\ matchedTo[m] \in {None, n}
             /\ matchedTo' = [matchedTo EXCEPT ![n] = m]
             /\ Become(n, marked, ToAll(n, marked, "MATCHED", Neighbors(n) \ {m}))
        /\ Nextstep(TRUE)
  /\ UNCHANGED finished

\* retire_from_shared_matcher
Retire(n) ==
  LET a == advisor[n] IN
  /\ At(n, "retire")
  /\ IF a.terminal \/ matchedTo[n] = None
     THEN UNCHANGED <<advisor, outbox>>
     ELSE Become(n, [a EXCEPT !.privatelyMatched = TRUE, !.terminal = TRUE],
                 ToAll(n, a, "CLEANUP", Neighbors(n)))
  /\ GoTo(n, IF a.started THEN "handle" ELSE "start")
  /\ UNCHANGED <<mailbox, batch, endpoint>>

\* The neighbours whose edges weigh at least the decayed threshold's share
\* of the heaviest.
Candidates(n, a) ==
  LET eligible == IF a.privatelyMatched \/ matchedTo[n] # None
                  THEN {}
                  ELSE Neighbors(n) \ (unavailable[n] \cup a.gone)
      decay == ThresholdDecay * a.at.phase
      share == ValidThreshold * (IF decay < 100 THEN 100 - decay ELSE 0)
  IN {m \in eligible : \A k \in eligible :
        10000 * EdgeWeight(n, m) >= EdgeWeight(n, k) * share}

BeginPhase(n, a) ==
  LET c == Candidates(n, a)
      b == [a EXCEPT !.candidates = c, !.valid = {}, !.imposed = {},
                     !.at.stage = "valid"]
  IN Become(n, b, ToAll(n, b, "CANDIDATE", c) \cup ToAll(n, b, "SYNC", Neighbors(n)))

Start(n) ==
  /\ At(n, "start")
  /\ BeginPhase(n, [advisor[n] EXCEPT !.started = TRUE])
  /\ GoTo(n, "handle")
  /\ UNCHANGED <<mailbox, batch, endpoint>>

-----------------------------------------------------------------------------
(* tick: the messages                                                      *)

\* The next message of the batch is of this type.
Handling(n, type) ==
  At(n, "handle") /\ batch[n] # <<>> /\ Head(batch[n]).type = type

\* The advisor has become a, and the message is handled.
Handled(n, a, messages) ==
  /\ Become(n, a, messages)
  /\ batch' = [batch EXCEPT ![n] = Tail(@)]
  /\ UNCHANGED <<mailbox, step, endpoint>>

IsCurrentRound(a, m) == m.at.phase = a.at.phase /\ m.at.round = a.at.round

ReceiveCandidate(n) ==
  LET a == advisor[n]
      m == Head(batch[n])
  IN /\ Handling(n, "CANDIDATE")
     /\ Handled(n, IF m.from \in a.candidates /\ m.at.phase = a.at.phase
                   THEN [a EXCEPT !.valid = @ \cup {m.from}]
                   ELSE a, {})

ReceiveSelect(n) ==
  LET a == advisor[n]
      m == Head(batch[n])
  IN /\ Handling(n, "SELECT")
     /\ Handled(n, IF IsCurrentRound(a, m)
                   THEN [a EXCEPT !.imposed = @ \cup {m.from}]
                   ELSE a, {})

ReceiveEliminate(n) ==
  LET a == advisor[n]
      m == Head(batch[n])
  IN /\ Handling(n, "ELIMINATE")
     /\ Handled(n, IF IsCurrentRound(a, m)
                   THEN [a EXCEPT !.retained = @ \cup {m.from}]
                   ELSE a, {})

\* _finalize_match, unless there is a match already.
CanFinalize(n, a) == ~a.privatelyMatched /\ matchedTo[n] = None

Finalized(n, a, m) ==
  IF CanFinalize(n, a)
  THEN [a EXCEPT !.privatelyMatched = TRUE, !.advised = m, !.valid = {},
                 !.gone = @ \cup (Neighbors(n) \ {m})]
  ELSE a

Cleanups(n, a, m) ==
  IF CanFinalize(n, a) THEN ToAll(n, a, "CLEANUP", Neighbors(n) \ {m}) ELSE {}

\* Mutant: it need not be the advisor's own choice.
ChoseAnyone(a, m) == TRUE

Chose(a, m) == a.choice = m

ReceiveMatch(n) ==
  LET a == advisor[n]
      m == Head(batch[n])
      b == [a EXCEPT !.notices = @ \cup {m.from}]
  IN /\ Handling(n, "MATCH")
     /\ \/ /\ IsCurrentRound(a, m) /\ Chose(a, m.from)
           /\ Handled(n, Finalized(n, b, m.from), Cleanups(n, a, m.from))
        \/ /\ ~(IsCurrentRound(a, m) /\ Chose(a, m.from))
           /\ Handled(n, IF IsCurrentRound(a, m) THEN b ELSE a, {})

ReceiveCleanup(n) ==
  /\ Handling(n, "CLEANUP")
  /\ Handled(n, MarkUnavailable(advisor[n], {Head(batch[n]).from}), {})

Record(a, m) == a.syncs \cup {<<m.from, m.at>>}

ReceiveSync(n) ==
  LET a == advisor[n]
  IN /\ Handling(n, "SYNC")
     /\ Handled(n, [a EXCEPT !.syncs = Record(a, Head(batch[n]))], {})

\* The endpoint has seen it; the advisor's tick ignores it.
IgnoreMatched(n) ==
  Handling(n, "MATCHED") /\ Handled(n, advisor[n], {})

Handle(n) ==
  \/ ReceiveCandidate(n) \/ ReceiveSelect(n) \/ ReceiveEliminate(n)
  \/ ReceiveMatch(n) \/ ReceiveCleanup(n) \/ ReceiveSync(n)
  \/ IgnoreMatched(n)

-----------------------------------------------------------------------------
(* tick: _advance_if_synchronized, and the end of the tick                 *)

\* Enter a stage: send its messages, then a SYNC to every neighbour.
Enter(n, a, messages) ==
  Become(n, a, messages \cup ToAll(n, a, "SYNC", Neighbors(n)))

Leaving(n, stage) ==
  Synchronized(n, advisor[n]) /\ advisor[n].at.stage = stage

\* What a random draw may return, and whether it may be skipped.
Draws(S) == IF S = {} \/ MayPass THEN S \cup {None} ELSE S

To(n, a, type, m) == IF m = None THEN {} ELSE ToAll(n, a, type, {m})

BeginSelect(n, a) ==
  \E m \in Draws(a.valid) :
    LET b == [a EXCEPT !.selected = m, !.notices = {}, !.retained = {},
                       !.at.stage = "select"]
    IN Enter(n, b, To(n, b, "SELECT", m))

BeginEliminate(n) ==
  /\ Leaving(n, "select")
  /\ \E m \in Draws(advisor[n].imposed) :
       LET b == [advisor[n] EXCEPT !.retained = @ \cup ({m} \ {None}),
                                   !.at.stage = "eliminate"]
       IN Enter(n, b, To(n, b, "ELIMINATE", m))

\* Mutant: any valid edge will do.
ValidEdges(a) == a.valid

RetainedEdges(a) == a.retained

BeginMatching(n) ==
  LET a == [advisor[n] EXCEPT !.choice = None, !.at.stage = "match"] IN
  /\ Leaving(n, "eliminate")
  /\ IF RetainedEdges(a) = {} \/ ~CanFinalize(n, a)
     THEN Enter(n, a, {})
     ELSE \E m \in RetainedEdges(a) :
            LET b == [a EXCEPT !.choice = m] IN
            IF m \in a.notices
            THEN Enter(n, Finalized(n, b, m),
                       ToAll(n, b, "MATCH", {m}) \cup Cleanups(n, b, m))
            ELSE Enter(n, b, ToAll(n, b, "MATCH", {m}))

BeginCleanup(n) ==
  /\ Leaving(n, "match")
  /\ Enter(n, [advisor[n] EXCEPT !.at.stage = "cleanup"], {})

IsOver(a) == a.at.phase >= MaxPhases

\* The next round, the next phase, or the end.
EndRound(n) ==
  LET a == [advisor[n] EXCEPT !.at.round = @ + 1, !.imposed = {}]
      b == [a EXCEPT !.at.phase = @ + 1]
  IN /\ Leaving(n, "cleanup")
     /\ \/ a.at.round < RoundsPerPhase /\ BeginSelect(n, a)
        \/ /\ a.at.round = RoundsPerPhase
           /\ IF IsOver(b)
              THEN Become(n, [b EXCEPT !.terminal = TRUE], {})
              ELSE BeginPhase(n, [b EXCEPT !.at.round = 0])

Advance(n) ==
  \/ Leaving(n, "valid") /\ BeginSelect(n, advisor[n])
  \/ BeginEliminate(n)
  \/ BeginMatching(n)
  \/ BeginCleanup(n)
  \/ EndRound(n)

\* All messages are handled.
Settle(n) ==
  /\ At(n, "handle") /\ batch[n] = <<>>
  /\ \/ Advance(n)
     \/ ~Synchronized(n, advisor[n]) /\ UNCHANGED <<advisor, outbox>>
  /\ GoTo(n, "idle")
  /\ UNCHANGED <<mailbox, batch>>

\* The endpoint finishes if it is matched or may conclude that it cannot be.
EndTick(n) ==
  /\ Settle(n)
  /\ \/ matchedTo[n] = None /\ UNCHANGED finished
     \/ /\ matchedTo[n] # None \/ Neighbors(n) \subseteq unavailable[n]
        /\ finished' = finished \cup {n}
  /\ UNCHANGED <<matchedTo, unavailable>>

-----------------------------------------------------------------------------
(* recommendations                                                         *)

\* Mutant: vertex 0 is a neighbour like any other.
IsSome(m) == m # None

\* A neighbour in a Boolean context: vertex 0 is false.
IsTruthy(m) == m \notin {None, 0}

\* advised_neighbor or match_choice or selected_neighbor
Favourite(a) ==
  IF IsTruthy(a.advised) THEN a.advised
  ELSE IF IsTruthy(a.choice) THEN a.choice ELSE a.selected

\* The neighbours a node is recommended; candidates before one is selected.
Recommendations(n) ==
  LET a == advisor[n] IN
  IF Favourite(a) = None THEN a.candidates \ unavailable[n]
  ELSE IF matchedTo[n] # None THEN {}
  ELSE {Favourite(a)} \ unavailable[n]

-----------------------------------------------------------------------------
NodeStep(n) ==
  Send(n) \/ Drain(n) \/ Retire(n) \/ Start(n) \/ Handle(n) \/ EndTick(n)

Terminated ==
  finished = Nodes /\ (\A n \in Nodes : outbox[n] = {}) /\ UNCHANGED vars

Next == (\E n \in Nodes : NodeStep(n) \/ IdleTick(n)) \/ Terminated

Fairness == \A n \in Nodes : WF_vars(NodeStep(n))

Spec == Init /\ [][Next]_vars /\ Fairness

-----------------------------------------------------------------------------
(* Properties                                                              *)

\* How many stages lie before a place.
Position(p) ==
  p.phase * (4 * RoundsPerPhase + 1)
  + IF p.round = RoundsPerPhase \/ p.stage = "valid"
    THEN 0
    ELSE CASE p.stage = "select" -> 4 * p.round + 1
           [] p.stage = "eliminate" -> 4 * p.round + 2
           [] p.stage = "match" -> 4 * p.round + 3
           [] p.stage = "cleanup" -> 4 * p.round + 4

\* The barrier: an advisor is at most one stage ahead of each neighbour that
\* it has not written off, whatever the neighbour has written off.
InStep ==
  \A n \in Nodes : \A m \in Neighbors(n) \ advisor[n].gone :
    Position(advisor[n].at) <= Position(advisor[m].at) + 1

InMatching(n) == advisor[n].at.stage \in {"match", "cleanup"} /\ ~advisor[n].terminal

\* A retained edge is retained at both ends once both are past the eliminate
\* stage of the same round and neither has written the other off.
RetainedIsMutual ==
  \A n, m \in Nodes :
    /\ InMatching(n) /\ InMatching(m)
    /\ advisor[n].at.phase = advisor[m].at.phase
    /\ advisor[n].at.round = advisor[m].at.round
    /\ m \in advisor[n].retained
    /\ m \notin advisor[n].gone /\ n \notin advisor[m].gone
    => n \in advisor[m].retained

\* An advisor that finalises takes an edge retained in this round.
AdvisedIsRetained ==
  [][\A n \in Nodes : advisor[n].advised = None /\ advisor'[n].advised # None
       => advisor'[n].advised \in advisor'[n].retained]_vars

\* n is advised to take m by the matching stage of its running round.
TakesNow(n, m) ==
  /\ advisor[n].advised = m /\ advisor[n].choice = m
  /\ advisor[n].at.stage \in {"match", "cleanup"}

\* While a round lasts its advice does not conflict: nobody else is advised in
\* it to take a neighbour that an advisor is advised to take, nor is the
\* neighbour ever advised to take somebody else.
AdviceAgrees ==
  \A n, m \in Nodes : TakesNow(n, m) =>
    /\ advisor[m].advised \in {None, n}
    /\ \A k \in Nodes \ {n} : ~TakesNow(k, m)

\* Every advisor performs its phases and is done.
AdvisorsTerminate == \A n \in Nodes : <>advisor[n].terminal

=============================================================================
