------------------------ MODULE DistributedNodeProofs ------------------------
(***************************************************************************)
(* A run of whole nodes is a run of the orchestrator, and that one a run   *)
(* of the endpoints and of the executor; so what is proved of each of them *)
(* holds of the whole, for every graph, pool, watchdog and set of          *)
(* policies.                                                               *)
(***************************************************************************)
EXTENDS DistributedNode, EndpointProtocolProofs, FiniteSetTheorems,
        WellFoundedInduction

\* The executor's lemmas, of the executor this run has.
Loop == INSTANCE ParallelNodeExecutorProofs
  WITH active <- Nodes \ finished, raised <- {}

\* What is true of the matches a run makes: they are along edges.
MatchedAlongEdges ==
  \A n \in Nodes : IsMatched(n) => matchedTo[n] \in Neighbors(n)

\* What the endpoints and the executor each keep.
RunInv == IInv /\ NegotiationInv /\ MatchedAlongEdges /\ Loop!IInv

\* What both kinds of run do.
RunSafe == RunInit /\ [][RunNext]_runVars

-----------------------------------------------------------------------------
(* Whole nodes run as the orchestrator has them run                        *)

\* The advisor's and the vote's steps are nothing to the endpoint; every
\* other step of a node is one of its endpoint.
LEMMA NodeStepIsRunStep ==
  ASSUME NodeNext
  PROVE  RunNext \/ UNCHANGED runVars
<1>1. CASE (Schedule \/ Ended) /\ UNCHANGED partVars
  BY <1>1 DEF RunNext
<1>2. ASSUME NEW n \in Nodes, NodeStepOf(n)
      PROVE  MidTick(n) \/ EndTick(n) \/ UNCHANGED runVars
  <2>1. CASE Drain(n) \/ EndpointStep(n) \/ SelectProposal(n)
    BY <1>2, <2>1 DEF NodeStepOf, Drain, EndpointStep, SelectProposal, MidTick
  <2>2. CASE AdvisorStep(n) \/ CastVote(n)
    BY <2>2 DEF AdvisorStep, CastVote
  <2>3. CASE NodeEndTick(n)
    BY <2>3 DEF NodeEndTick
  <2> QED BY <1>2, <2>1, <2>2, <2>3 DEF NodeStepOf
<1> QED BY <1>1, <1>2 DEF NodeNext, RunNext

\* Refinement: advisors, policies and votes choose among what the endpoints
\* and the executor may do, and add nothing to it.
THEOREM NodeImplementsRun == NodeSpec => RunSafe
<1>1. NodeInit => RunInit
  BY DEF NodeInit
<1>2. [NodeNext]_nodeVars => [RunNext]_runVars
  BY NodeStepIsRunStep DEF nodeVars
<1> QED BY <1>1, <1>2, PTL DEF NodeSpec, RunSafe

-----------------------------------------------------------------------------
(* A run's steps are steps of its endpoints and of its executor            *)

LEMMA RunStepIsEndpointStep ==
  ASSUME [RunNext]_runVars
  PROVE  [Next]_vars
<1>1. CASE Schedule \/ Ended \/ UNCHANGED runVars
  BY <1>1 DEF Schedule, Ended, runVars
<1>2. CASE \E n \in Nodes : MidTick(n) \/ EndTick(n)
  BY <1>2 DEF MidTick, EndTick, NodeStep, Next
<1> QED BY <1>1, <1>2 DEF RunNext

\* A node becomes inactive with the last step of its tick.
LEMMA FinishedStep ==
  ASSUME NEW n \in Nodes
  PROVE  /\ Finish(n) => finished' = finished \cup {n}
         /\ Continue(n) => finished' = finished
         /\ MidTick(n) => finished' = finished
BY DEF MidTick, Finish, Continue, Receive, Send, Handle, ReceivePropose,
       ReceiveAccept, ReceiveReject, ReceiveConfirm, ReceiveCancel,
       ReceiveMatched, Consume, Resolve, ResolveMatched, ResolveBusy,
       ResolveFree, EndResolution, Expire, Propose, lifecycle, local

\* Both instances count alike.
LEMMA SameCardinality ==
  ASSUME NEW S
  PROVE  Executor!Cardinality(S) = Loop!Cardinality(S)
BY Zenon DEF Executor!Cardinality, Loop!Cardinality

LEMMA RunStepIsExecutorStep ==
  ASSUME [RunNext]_runVars
  PROVE  [Loop!Next]_(Loop!executorVars)
<1>1. CASE Schedule
  <2>1. finished' = finished /\ Executor!Scheduler
    BY <1>1 DEF Schedule, vars
  <2> QED BY <2>1, SameCardinality
          DEF Loop!Next, Loop!Scheduler, Loop!Submit, Loop!MaySubmit,
              Loop!PopReady, Loop!IsActive, Loop!Wait, Loop!Collect,
              Loop!ResultRaises, Loop!Requeue, Loop!End,
              Loop!NothingInFlight, Executor!Scheduler, Executor!Submit,
              Executor!MaySubmit, Executor!PopReady, Executor!IsActive,
              Executor!Wait, Executor!Collect, Executor!ResultRaises,
              Executor!Requeue, Executor!End, Executor!NothingInFlight
<1>2. ASSUME NEW n \in Nodes, EndTick(n)
      PROVE  Loop!Tick(n)
  <2>1. finished' \in {finished, finished \cup {n}}
    BY <1>2, FinishedStep DEF EndTick
  <2> QED BY <1>2, <2>1
          DEF EndTick, Executor!Complete, Executor!Running, Loop!Tick,
              Loop!Complete, Loop!Running
<1>3. CASE \E n \in Nodes : MidTick(n)
  BY <1>3, FinishedStep DEF MidTick, schedulerVars, Loop!executorVars
<1>4. CASE Ended \/ UNCHANGED runVars
  BY <1>4 DEF Ended, runVars, vars, schedulerVars, Loop!executorVars
<1> QED BY <1>1, <1>2, <1>3, <1>4 DEF RunNext, Loop!Next

LEMMA MatchedAlongEdgesStep ==
  ASSUME IInv, MatchedAlongEdges, [Next]_vars
  PROVE  MatchedAlongEdges'
<1>1. CASE UNCHANGED matchedTo
  BY <1>1 DEF MatchedAlongEdges, IsMatched
<1>2. ASSUME NEW n \in Nodes, NodeStep(n), Commit(n)
      PROVE  MatchedAlongEdges'
  <2>1. Head(batch[n]).from \in Neighbors(n)
    BY <1>2, HeadSound DEF Commit, Handling
  <2>2. /\ matchedTo'[n] = Head(batch[n]).from
        /\ \A o \in Nodes \ {n} : matchedTo'[o] = matchedTo[o]
    BY <1>2 DEF Commit, IInv, TypeInv, TypeOK
  <2> QED BY <2>1, <2>2 DEF MatchedAlongEdges, IsMatched
<1> QED BY <1>1, <1>2, OnlyCommitMatches DEF Next, Terminated, vars

LEMMA RunInvariant == RunSafe => []RunInv
<1>1. Loop!ExecutorAssumption
  BY RunAssumption DEF Loop!ExecutorAssumption, IsFiniteSet, Loop!IsFiniteSet
<1>2. RunInit => RunInv
  <2> SUFFICES ASSUME RunInit PROVE RunInv
    OBVIOUS
  <2>1. IInv /\ NegotiationInv /\ MatchedAlongEdges
    BY IInvInit, NegotiationInvInit DEF RunInit, Init, MatchedAlongEdges, IsMatched
  <2>2. Loop!ExecutorInit(Nodes \ finished)
    BY SameCardinality
    DEF RunInit, Loop!ExecutorInit, Loop!Bijection, Loop!Injection,
        Loop!Surjection, Loop!IsInjective, Executor!ExecutorInit,
        Executor!Bijection, Executor!Injection, Executor!Surjection,
        Executor!IsInjective
  <2>3. Loop!IInv
    BY <1>1, <2>2, Loop!ExecutorInitKeeps
  <2> QED BY <2>1, <2>3 DEF RunInv
<1>3. RunInv /\ [RunNext]_runVars => RunInv'
  <2> SUFFICES ASSUME RunInv, [RunNext]_runVars PROVE RunInv'
    OBVIOUS
  <2>1. IInv' /\ NegotiationInv' /\ MatchedAlongEdges'
    BY RunStepIsEndpointStep, IInvStep, NegotiationInvStep,
       MatchedAlongEdgesStep DEF RunInv
  <2>2. Loop!IInv'
    BY <1>1, RunStepIsExecutorStep, Loop!IInvStep DEF RunInv
  <2> QED BY <2>1, <2>2 DEF RunInv
<1> QED BY <1>2, <1>3, PTL DEF RunSafe

LEMMA AnyRun == RunSpec \/ NodeSpec => RunSafe /\ []RunInv
<1>1. RunSpec => RunSafe
  BY PTL DEF RunSpec, RunSafe
<1> QED BY <1>1, NodeImplementsRun, RunInvariant, PTL

-----------------------------------------------------------------------------
(* What follows for a run                                                  *)

\* No node of a run writes off a neighbour that is still free.
THEOREM RunUnavailableCorrect ==
  RunSpec \/ NodeSpec => []UnavailableIsMatched
<1>1. RunInv => UnavailableIsMatched
  BY DEF RunInv, IInv
<1> QED BY <1>1, AnyRun, PTL

\* Whatever the policies and the advisor select, no node finishes unmatched
\* while a neighbour is unmatched.
THEOREM RunTerminalUnmatchedCorrect ==
  RunSpec \/ NodeSpec => []TerminalUnmatchedIsIsolated
<1>1. RunInv => TerminalUnmatchedIsIsolated
  BY DEF RunInv, IInv
<1> QED BY <1>1, AnyRun, PTL

\* A node's match outlives everything else that happens in a run.
THEOREM RunMatchIsFinalCorrect == RunSpec \/ NodeSpec => MatchIsFinal
<1>1. RunInv /\ [RunNext]_runVars =>
        [\A n \in Nodes :
           matchedTo[n] # None => matchedTo'[n] = matchedTo[n]]_vars
  <2> SUFFICES ASSUME RunInv, Next
               PROVE  \A n \in Nodes :
                        matchedTo[n] # None => matchedTo'[n] = matchedTo[n]
    BY RunStepIsEndpointStep
  <2>1. CASE \E n \in Nodes : NodeStep(n)
    BY <2>1, MatchFinalStep DEF RunInv, IInv, IsMatched
  <2>2. CASE Terminated
    BY <2>2 DEF Terminated, vars
  <2> QED BY <2>1, <2>2 DEF Next
<1> QED BY <1>1, AnyRun, PTL DEF MatchIsFinal, RunSafe

\* The pool is empty once run_until_idle has returned, so that no thread
\* changes the states that execute() reads without a lock.
THEOREM ReportIsStableCorrect == RunSpec \/ NodeSpec => ReportIsStable
<1>1. RunInv /\ [RunNext]_runVars =>
        [phase = "ended" =>
           UNCHANGED <<ReportedMatching, FinalWeight, terminalUnmatched>>]_runVars
  <2> SUFFICES ASSUME RunInv, RunNext, phase = "ended"
               PROVE  UNCHANGED <<ReportedMatching, FinalWeight, terminalUnmatched>>
    OBVIOUS
  <2>1. inFlight = {}
    BY DEF RunInv, Loop!IInv, Loop!EndsIdleOrExhausted
  <2>2. ASSUME NEW n \in Nodes PROVE ~MidTick(n) /\ ~EndTick(n)
    BY <2>1 DEF MidTick, EndTick, Executor!Complete, Executor!Running
  <2>3. UNCHANGED vars
    BY <2>2 DEF RunNext, Schedule, Ended, runVars
  <2>4. ReportedMatching' = ReportedMatching
    BY <2>3 DEF vars, ReportedMatching
  <2> QED BY <2>3, <2>4 DEF vars, FinalWeight
<1> QED BY <1>1, AnyRun, PTL DEF ReportIsStable, RunSafe

\* A quiescent run falls short of a maximal matching only by a match that one
\* of its nodes believes in and the other does not: edges that no negotiation
\* has reached are never among what it leaves.
THEOREM MutualRunsAreMaximal ==
  RunSpec \/ NodeSpec => [](QuiescentIsMutual => QuiescentIsMaximal)
<1>1. RunInv => (QuiescentIsMutual => QuiescentIsMaximal)
  <2> SUFFICES ASSUME RunInv, QuiescentIsMutual, Quiescent,
                      NEW e \in Edges, Abstract!Free(e)
               PROVE  FALSE
    BY DEF QuiescentIsMaximal, Abstract!IsMaximal
  <2>1. PICK u, v \in Nodes : u # v /\ e = {u, v}
    BY EdgeEnds
  <2>2. ASSUME NEW n \in e
        PROVE  n \in Nodes /\ ~IsMatched(n)
    <3>1. n \in Nodes
      BY <2>1, <2>2
    <3>2. ASSUME IsMatched(n)
          PROVE  FALSE
      <4> DEFINE m == matchedTo[n]
      <4>1. m \in Neighbors(n) /\ matchedTo[m] = n
        BY <3>1, <3>2 DEF RunInv, MatchedAlongEdges, QuiescentIsMutual
      <4>2. {n, m} \in Edges /\ m \in Nodes
        BY <4>1 DEF Neighbors
      <4>3. n # m
        BY <4>2, EdgeEnds
      <4>4. {n, m} \in ReportedMatching
        BY <4>1, <4>2, <4>3 DEF ReportedMatching
      <4> QED BY <2>2, <4>4 DEF Abstract!Free, Abstract!Covered
    <3> QED BY <3>1, <3>2
  <2>3. u \in terminalUnmatched /\ v \in Neighbors(u)
    BY <2>1, <2>2 DEF Quiescent, IsTerminal, Neighbors
  <2>4. IsMatched(v)
    BY <2>3 DEF RunInv, IInv, TerminalUnmatchedIsIsolated
  <2> QED BY <2>1, <2>2, <2>4
<1> QED BY <1>1, AnyRun, PTL

\* Refinement: the matching a run of whole nodes reports is built up edge by
\* edge and never taken back.
THEOREM RunImplementsMatching == RunSpec \/ NodeSpec => ImplementsMatching
<1>1. RunInit => Abstract!Init
  BY AbstractInit DEF RunInit
<1>2. RunInv /\ [RunNext]_runVars => [Abstract!Next]_ReportedMatching
  BY RunStepIsEndpointStep, AbstractStep DEF RunInv
<1> QED BY <1>1, <1>2, AnyRun, PTL
        DEF RunSafe, ImplementsMatching, Abstract!Safe

-----------------------------------------------------------------------------
(* The advisors of whole nodes                                             *)

\* The advisors' lemmas, of the advisors these nodes have.
Advising == INSTANCE WattenhoferProtocolProofs
  WITH mailbox <- advisorMail, batch <- advisorBatch, outbox <- advisorOutbox,
       step <- advisorStep, Committers <- {}

\* Both instances speak of the same.
LEMMA SameParts ==
  /\ \A n, s : Advisors!At(n, s) <=> Advising!At(n, s)
  /\ \A n, s : Advisors!GoTo(n, s) <=> Advising!GoTo(n, s)
  /\ \A n, a, M : Advisors!Become(n, a, M) <=> Advising!Become(n, a, M)
  /\ \A n, a, t, S : Advisors!ToAll(n, a, t, S) = Advising!ToAll(n, a, t, S)
  /\ \A n : Advisors!Neighbors(n) = Advising!Neighbors(n)
  /\ \A n, a, m : Advisors!Finalized(n, a, m) = Advising!Finalized(n, a, m)
  /\ \A n, a, m : Advisors!Cleanups(n, a, m) = Advising!Cleanups(n, a, m)
  /\ \A n, a : Advisors!CanFinalize(n, a) <=> Advising!CanFinalize(n, a)
  /\ \A n, a : Advisors!Synchronized(n, a) <=> Advising!Synchronized(n, a)
  /\ \A n, s : Advisors!Leaving(n, s) <=> Advising!Leaving(n, s)
  /\ \A n, a : Advisors!BeginPhase(n, a) <=> Advising!BeginPhase(n, a)
  /\ \A n, a, M : Advisors!Enter(n, a, M) <=> Advising!Enter(n, a, M)
  /\ \A S : Advisors!Draws(S) = Advising!Draws(S)
  /\ \A n, a, t, m : Advisors!To(n, a, t, m) = Advising!To(n, a, t, m)
BY DEF Advisors!At, Advising!At, Advisors!GoTo, Advising!GoTo,
       Advisors!Become, Advising!Become, Advisors!ToAll, Advising!ToAll,
       Advisors!Neighbors, Advising!Neighbors, Advisors!Finalized,
       Advising!Finalized, Advisors!Cleanups, Advising!Cleanups,
       Advisors!CanFinalize, Advising!CanFinalize, Advisors!Synchronized,
       Advising!Synchronized, Advisors!StageNotices, Advising!StageNotices,
       Advisors!Expected, Advising!Expected, Advisors!Leaving,
       Advising!Leaving, Advisors!BeginPhase, Advising!BeginPhase,
       Advisors!Candidates, Advising!Candidates, Advisors!EdgeWeight,
       Advising!EdgeWeight, Advisors!Enter, Advising!Enter, Advisors!Draws,
       Advising!Draws, Advisors!To, Advising!To

LEMMA SameRetire ==
  ASSUME NEW n, Advisors!Retire(n)
  PROVE  Advising!Retire(n)
BY SameParts DEF Advisors!Retire, Advising!Retire, Advisors!endpoint,
                 Advising!endpoint

LEMMA SameStart ==
  ASSUME NEW n, Advisors!Start(n)
  PROVE  Advising!Start(n)
BY SameParts DEF Advisors!Start, Advising!Start, Advisors!endpoint,
                 Advising!endpoint

LEMMA SameHandle ==
  ASSUME NEW n, Advisors!Handle(n)
  PROVE  Advising!Handle(n)
BY SameParts
   DEF Advisors!Handle, Advising!Handle, Advisors!Handling, Advising!Handling,
       Advisors!Handled, Advising!Handled, Advisors!ReceiveCandidate,
       Advising!ReceiveCandidate, Advisors!ReceiveSelect,
       Advising!ReceiveSelect, Advisors!ReceiveEliminate,
       Advising!ReceiveEliminate, Advisors!ReceiveMatch,
       Advising!ReceiveMatch, Advisors!ReceiveCleanup,
       Advising!ReceiveCleanup, Advisors!ReceiveSync, Advising!ReceiveSync,
       Advisors!IgnoreMatched, Advising!IgnoreMatched, Advisors!Record,
       Advising!Record, Advisors!MarkUnavailable, Advising!MarkUnavailable,
       Advisors!Chose, Advising!Chose, Advisors!IsCurrentRound,
       Advising!IsCurrentRound, Advisors!endpoint, Advising!endpoint

LEMMA SameSettle ==
  ASSUME NEW n, Advisors!Settle(n)
  PROVE  Advising!Settle(n)
<1>1. \A a : Advisors!BeginSelect(n, a) <=> Advising!BeginSelect(n, a)
  BY SameParts DEF Advisors!BeginSelect, Advising!BeginSelect
<1>2. Advisors!BeginEliminate(n) <=> Advising!BeginEliminate(n)
  BY SameParts DEF Advisors!BeginEliminate, Advising!BeginEliminate
<1>3. Advisors!BeginMatching(n) <=> Advising!BeginMatching(n)
  BY SameParts DEF Advisors!BeginMatching, Advising!BeginMatching,
                   Advisors!RetainedEdges, Advising!RetainedEdges
<1>4. Advisors!BeginCleanup(n) <=> Advising!BeginCleanup(n)
  BY SameParts DEF Advisors!BeginCleanup, Advising!BeginCleanup
<1>5. Advisors!EndRound(n) <=> Advising!EndRound(n)
  BY SameParts, <1>1 DEF Advisors!EndRound, Advising!EndRound,
                         Advisors!IsOver, Advising!IsOver
<1>6. Advisors!Advance(n) <=> Advising!Advance(n)
  BY SameParts, <1>1, <1>2, <1>3, <1>4, <1>5 DEF Advisors!Advance, Advising!Advance
<1> QED BY SameParts, <1>6 DEF Advisors!Settle, Advising!Settle

\* Outside of its turn an advisor has nothing to send, and between the ticks
\* of its node nothing to do.
InTheirTurn ==
  \A n \in Nodes :
    /\ step[n] # "propose" => advisorOutbox[n] = {}
    /\ step[n] \in {"idle", "finish"} => advisorStep[n] = "idle"

AdvisorInv == InTheirTurn /\ Advising!Kept

LEMMA AdvisorTypesHold ==
  ASSUME Advising!Kept
  PROVE  /\ advisorMail \in [Nodes -> Seq(Advising!Message)]
         /\ advisorOutbox \in [Nodes -> SUBSET Advising!Message]
         /\ advisorStep \in [Nodes -> {"idle", "retire", "start", "handle"}]
         /\ advisor \in [Nodes -> Advising!Advisor]
BY DEF Advising!Kept, Advising!Basics, Advising!AdvisorTypes

LEMMA AdvisorsAssumed == Advising!TopologyAssumption /\ Advising!AdvisorAssumption
BY TopologyAssumption, EndpointAssumption, NodeAssumption
   DEF Advising!TopologyAssumption, Advising!AdvisorAssumption

\* A tick's part for the advisor is one of the advisor's steps.
LEMMA AdvisorStepIsAdvising ==
  ASSUME NEW n \in Nodes, AdvisorStep(n)
  PROVE  Advising!StepOf(n)
<1>1. UNCHANGED matchedTo
  BY DEF AdvisorStep, runVars, vars
<1>2. Advising!MatchesStay
  BY <1>1 DEF Advising!MatchesStay
<1>3. CASE Advisors!Send(n) \/ Advisors!Retire(n) \/ Advisors!Start(n)
  BY <1>2, <1>3, SameRetire, SameStart
     DEF Advising!StepOf, Advisors!Send, Advising!Send, Advisors!Turn,
         Advising!Turn, Advisors!endpoint, Advising!endpoint
<1>4. CASE Advisors!Handle(n) \/ Advisors!Settle(n)
  BY <1>2, <1>4, SameHandle, SameSettle DEF Advising!StepOf
<1> QED BY <1>3, <1>4 DEF AdvisorStep

\* The advisors of other nodes notice nothing of a step.
LEMMA AdvisorFrame ==
  ASSUME Advising!Kept, NEW n \in Nodes, AdvisorStep(n), NEW m \in Nodes \ {n}
  PROVE  advisorOutbox'[m] = advisorOutbox[m] /\ advisorStep'[m] = advisorStep[m]
<1>1. advisorOutbox'[m] = advisorOutbox[m]
  BY AdvisorsAssumed, AdvisorStepIsAdvising, Advising!OutboxFrame DEF Advising!Kept
<1>2. advisorStep \in [Nodes -> {"idle", "retire", "start", "handle"}]
  BY AdvisorTypesHold
<1>3. UNCHANGED advisorStep \/ \E s : advisorStep' = [advisorStep EXCEPT ![n] = s]
  BY DEF AdvisorStep, Advisors!Send, Advisors!Retire, Advisors!Start,
         Advisors!Settle, Advisors!Handle, Advisors!ReceiveCandidate,
         Advisors!ReceiveSelect, Advisors!ReceiveEliminate,
         Advisors!ReceiveMatch, Advisors!ReceiveCleanup,
         Advisors!ReceiveSync, Advisors!IgnoreMatched, Advisors!Handled,
         Advisors!GoTo
<1> QED BY <1>1, <1>2, <1>3

LEMMA InTheirTurnStep ==
  ASSUME IInv, AdvisorInv, NEW n \in Nodes, NodeStepOf(n)
  PROVE  InTheirTurn'
<1>1. /\ step \in [Nodes -> Step]
      /\ advisorOutbox \in [Nodes -> SUBSET Advising!Message]
      /\ advisorStep \in [Nodes -> {"idle", "retire", "start", "handle"}]
  BY AdvisorTypesHold DEF IInv, TypeInv, TypeOK, AdvisorInv
<1>2. CASE Drain(n)
  BY <1>1, <1>2
     DEF AdvisorInv, InTheirTurn, Drain, Receive, At, GoTo, advisorVars,
         Advisors!TakeMail, Advisors!Become, Advisors!GoTo
<1>3. CASE EndpointStep(n)
  <2>1. UNCHANGED <<advisorOutbox, advisorStep>>
    BY <1>3 DEF EndpointStep, partVars, advisorVars
  <2>2. CASE Send(n) \/ Handle(n)
    <3>1. UNCHANGED step
      BY <2>2 DEF Send, Handle, ReceivePropose, ReceiveAccept, ReceiveReject,
                  ReceiveConfirm, ReceiveCancel, ReceiveMatched, Consume
    <3> QED BY <2>1, <3>1 DEF AdvisorInv, InTheirTurn
  <2>3. CASE Resolve(n)
    <3>1. step[n] = "handle" /\ step' = [step EXCEPT ![n] = "expire"]
      BY <2>3 DEF Resolve, ResolveMatched, ResolveBusy, ResolveFree, Resolving,
                  EndResolution, GoTo, At
    <3> QED BY <1>1, <2>1, <3>1 DEF AdvisorInv, InTheirTurn
  <2>4. CASE Expire(n)
    <3>1. step[n] = "expire" /\ step' = [step EXCEPT ![n] = "propose"]
      BY <2>4 DEF Expire, GoTo, At
    <3> QED BY <1>1, <2>1, <3>1 DEF AdvisorInv, InTheirTurn
  <2> QED BY <1>3, <2>2, <2>3, <2>4 DEF EndpointStep
<1>4. CASE AdvisorStep(n)
  <2>1. /\ UNCHANGED step /\ step[n] = "propose"
        /\ \A m \in Nodes \ {n} : /\ advisorOutbox'[m] = advisorOutbox[m]
                                  /\ advisorStep'[m] = advisorStep[m]
    <3>1. UNCHANGED step /\ step[n] = "propose"
      BY <1>4 DEF AdvisorStep, At, runVars, vars
    <3> QED BY <1>4, <3>1, AdvisorFrame DEF AdvisorInv
  <2> QED BY <1>1, <2>1 DEF AdvisorInv, InTheirTurn
<1>5. CASE SelectProposal(n)
  BY <1>1, <1>5 DEF AdvisorInv, InTheirTurn, SelectProposal, AdvisorDone,
                    Advisors!At, Propose, At, GoTo, advisorVars
<1>6. CASE CastVote(n)
  BY <1>6 DEF AdvisorInv, InTheirTurn, CastVote, runVars, vars, advisorVars
<1>7. CASE NodeEndTick(n)
  BY <1>1, <1>7 DEF AdvisorInv, InTheirTurn, NodeEndTick, EndTick, Finish,
                    Continue, At, GoTo, advisorVars
<1> QED BY <1>2, <1>3, <1>4, <1>5, <1>6, <1>7 DEF NodeStepOf

\* The neighbours whose announcements an endpoint drains are matched.
LEMMA DrainIsNote ==
  ASSUME IInv, AdvisorInv, HasAdvisor, NEW n \in Nodes, Drain(n)
  PROVE  Advising!StepOf(n)
<1> DEFINE announced == {mailbox[n][i].from : i \in
                  {j \in DOMAIN mailbox[n] : mailbox[n][j].type = "MATCHED"}}
           a == advisor[n]
<1>1. /\ step[n] = "idle" /\ UNCHANGED matchedTo
      /\ Advisors!TakeMail(n) /\ Advisors!GoTo(n, "retire")
      /\ Advisors!Become(n, Advisors!MarkUnavailable(a, announced), {})
  BY DEF Drain, Receive, At, local
<1>2. Advising!At(n, "idle")
  BY <1>1 DEF AdvisorInv, InTheirTurn, Advising!At
<1>3. announced \in SUBSET Nodes /\ \A m \in announced : matchedTo[m] # None
  <2>1. ASSUME NEW i \in DOMAIN mailbox[n], mailbox[n][i].type = "MATCHED"
        PROVE  mailbox[n][i].from \in Nodes /\ matchedTo[mailbox[n][i].from] # None
    <3>1. mailbox[n] \in Seq(SoundFor(n))
      BY DEF IInv, InFlightSound
    <3>2. mailbox[n][i] \in SoundFor(n)
      BY <3>1
    <3> QED BY <2>1, <3>2 DEF SoundFor, IsMatched, Message
  <2> QED BY <2>1
<1>4. Advising!TakeMail(n)
  BY <1>1 DEF Advisors!TakeMail, Advising!TakeMail
<1>5. Advising!Become(n, Advising!MarkUnavailable(a, announced),
                      Advising!ToAll(n, a, "MATCHED", {}))
  <2>1. Advising!ToAll(n, a, "MATCHED", {}) = {}
    BY DEF Advising!ToAll
  <2> HIDE DEF announced
  <2> QED BY <1>1, <2>1, SameParts
          DEF Advisors!MarkUnavailable, Advising!MarkUnavailable
<1>6. Advising!Note(n)
  <2> HIDE DEF announced
  <2>1. {} \in SUBSET Nodes /\ {} \subseteq Advising!Neighbors(n)
    OBVIOUS
  <2>2. Advising!GoTo(n, "retire")
    BY <1>1, SameParts
  <2> QED BY <1>2, <1>3, <1>4, <1>5, <2>1, <2>2 DEF Advising!Note
<1>7. Advising!MatchesStay
  BY <1>1 DEF Advising!MatchesStay
<1> QED BY <1>6, <1>7 DEF Advising!StepOf

\* An endpoint commits while its advisor has nothing to send.
LEMMA EndpointStepsAside ==
  ASSUME IInv, AdvisorInv, NEW n \in Nodes, EndpointStep(n)
  PROVE  /\ Advising!MatchesStay
         /\ UNCHANGED <<advisorMail, advisorBatch, advisorOutbox, advisorStep, advisor>>
<1>1. UNCHANGED <<advisorMail, advisorBatch, advisorOutbox, advisorStep, advisor>>
  BY DEF EndpointStep, partVars, advisorVars
<1>2. NodeStep(n)
  BY DEF EndpointStep, NodeStep
<1>3. ASSUME NEW m \in Nodes, matchedTo[m] # None
      PROVE  matchedTo'[m] # None
  BY <1>2, <1>3, MatchFinalStep DEF IsMatched, IInv
<1>4. ASSUME NEW m \in Nodes, matchedTo[m] = None, matchedTo'[m] # None
      PROVE  advisorOutbox'[m] = {}
  <2>1. Commit(n) /\ m = n
    <3>1. UNCHANGED matchedTo \/ Commit(n)
      BY <1>2, OnlyCommitMatches
    <3>2. Commit(n)
      BY <1>4, <3>1
    <3> QED BY <1>4, <3>2 DEF Commit, IInv, TypeInv, TypeOK
  <2>2. step[n] = "handle"
    BY <2>1 DEF Commit, Handling, At
  <2> QED BY <1>1, <2>1, <2>2 DEF AdvisorInv, InTheirTurn
<1> QED BY <1>1, <1>3, <1>4 DEF Advising!MatchesStay

LEMMA AdvisorInvInit ==
  ASSUME NodeInit
  PROVE  AdvisorInv
<1>1. InTheirTurn
  BY DEF NodeInit, Advisors!AdvisorInit, InTheirTurn
<1>2. matchedTo \in [Nodes -> Nodes \cup {None}]
  BY DEF NodeInit, RunInit, Init
<1>3. Advising!AdvisorInit
  BY DEF NodeInit, Advisors!AdvisorInit, Advising!AdvisorInit,
         Advisors!NewAdvisor, Advising!NewAdvisor
<1> QED BY <1>1, <1>2, <1>3, AdvisorsAssumed, Advising!KeptInit DEF AdvisorInv

LEMMA AdvisorInvStep ==
  ASSUME RunInv, AdvisorInv, [NodeNext]_nodeVars
  PROVE  AdvisorInv'
<1> DEFINE Aside == /\ Advising!MatchesStay
                    /\ UNCHANGED <<advisorMail, advisorBatch, advisorOutbox,
                                   advisorStep, advisor>>
<1>1. ASSUME Aside
      PROVE  Advising!Kept'
  BY <1>1, AdvisorsAssumed, Advising!KeptAside DEF AdvisorInv
<1>2. ASSUME UNCHANGED <<advisorVars, matchedTo>>
      PROVE  Aside
  BY <1>2 DEF advisorVars, Advising!MatchesStay
<1>3. CASE UNCHANGED nodeVars \/ ((Schedule \/ Ended) /\ UNCHANGED partVars)
  <2>1. UNCHANGED <<advisorVars, matchedTo, step>>
    BY <1>3 DEF Schedule, Ended, nodeVars, runVars, vars, partVars
  <2>2. InTheirTurn'
    BY <2>1 DEF AdvisorInv, InTheirTurn, advisorVars
  <2> QED BY <1>1, <1>2, <2>1, <2>2 DEF AdvisorInv
<1>4. ASSUME NEW n \in Nodes, NodeStepOf(n)
      PROVE  Advising!Kept'
  <2>1. CASE Advising!StepOf(n)
    BY <2>1, AdvisorsAssumed, Advising!KeptStep DEF AdvisorInv
  <2>2. CASE Aside
    BY <1>1, <2>2
  <2>3. CASE Drain(n)
    <3>1. CASE HasAdvisor
      BY <2>1, <2>3, <3>1, DrainIsNote DEF RunInv
    <3>2. CASE ~HasAdvisor
      BY <1>2, <2>2, <2>3, <3>2 DEF Drain, Receive, local
    <3> QED BY <3>1, <3>2
  <2>4. CASE EndpointStep(n)
    BY <2>2, <2>4, EndpointStepsAside DEF RunInv
  <2>5. CASE AdvisorStep(n)
    BY <2>1, <2>5, AdvisorStepIsAdvising
  <2>6. CASE SelectProposal(n) \/ CastVote(n) \/ NodeEndTick(n)
    <3>1. UNCHANGED <<advisorVars, matchedTo>>
      BY <2>6 DEF SelectProposal, CastVote, NodeEndTick, EndTick, Propose,
                  Finish, Continue, knowledge, runVars, vars
    <3> QED BY <1>2, <2>2, <3>1
  <2> QED BY <1>4, <2>3, <2>4, <2>5, <2>6 DEF NodeStepOf
<1>5. ASSUME NEW n \in Nodes, NodeStepOf(n)
      PROVE  InTheirTurn'
  BY <1>5, InTheirTurnStep DEF RunInv
<1>6. UNCHANGED nodeVars \/ NodeNext
  OBVIOUS
<1> QED BY <1>3, <1>4, <1>5, <1>6 DEF NodeNext, AdvisorInv

LEMMA NodeInvariant == NodeSpec => [](RunInv /\ AdvisorInv)
<1>1. NodeInit => AdvisorInv
  BY AdvisorInvInit
<1>2. RunInv /\ AdvisorInv /\ [NodeNext]_nodeVars => AdvisorInv'
  BY AdvisorInvStep
<1> HIDE DEF RunInv, AdvisorInv, NodeNext, nodeVars
<1> QED BY <1>1, <1>2, AnyRun, PTL DEF NodeSpec

\* Advisors of a run of whole nodes keep together, although the endpoints they
\* advise commit by themselves, at any moment, and then stop talking.
THEOREM NodeInStepCorrect == NodeSpec => []Advisors!InStep
<1>1. AdvisorInv => Advisors!InStep
  BY DEF AdvisorInv, Advising!Kept, Advising!InStep, Advisors!InStep,
         Advising!Position, Advisors!Position, Advising!Neighbors,
         Advisors!Neighbors
<1> QED BY <1>1, NodeInvariant, PTL

\* They agree on what is retained.
THEOREM NodeRetainedIsMutualCorrect == NodeSpec => []Advisors!RetainedIsMutual
<1>1. AdvisorInv => Advisors!RetainedIsMutual
  <2> SUFFICES ASSUME AdvisorInv PROVE Advisors!RetainedIsMutual
    OBVIOUS
  <2>1. Advising!RetainedIsMutual
    BY AdvisorsAssumed, Advising!RetentionAgrees DEF AdvisorInv, Advising!Kept
  <2> QED BY <2>1 DEF Advising!RetainedIsMutual, Advisors!RetainedIsMutual,
                      Advising!InMatching, Advisors!InMatching
<1> QED BY <1>1, NodeInvariant, PTL

\* Nor does the advice that whole nodes get conflict.
THEOREM NodeAdviceAgreesCorrect == NodeSpec => []Advisors!AdviceAgrees
<1>1. AdvisorInv => Advisors!AdviceAgrees
  <2> SUFFICES ASSUME AdvisorInv PROVE Advisors!AdviceAgrees
    OBVIOUS
  <2>1. Advising!AdviceAgrees
    BY AdvisorsAssumed, Advising!ClaimsAgree DEF AdvisorInv, Advising!Kept
  <2> QED BY <2>1 DEF Advising!AdviceAgrees, Advisors!AdviceAgrees,
                      Advising!TakesNow, Advisors!TakesNow
<1> QED BY <1>1, NodeInvariant, PTL

\* Whoever concludes in a whole node, too, takes a retained neighbour.
THEOREM NodeAdvisedIsRetainedCorrect ==
  NodeSpec => [][\A n \in Nodes :
                   advisor[n].advised = None /\ advisor'[n].advised # None
                     => advisor'[n].advised \in advisor'[n].retained]_nodeVars
<1>1. ASSUME RunInv, AdvisorInv, NodeNext, NEW m \in Nodes,
             advisor[m].advised = None, advisor'[m].advised # None
      PROVE  advisor'[m].advised \in advisor'[m].retained
  <2>1. ASSUME NEW n \in Nodes, Advising!StepOf(n)
        PROVE  advisor'[m].advised \in advisor'[m].retained
    BY <1>1, <2>1, AdvisorsAssumed, Advising!ConcludesRetained
       DEF AdvisorInv, Advising!Kept
  <2>2. ASSUME UNCHANGED advisor
        PROVE  FALSE
    BY <1>1, <2>2
  <2>3. ASSUME NEW n \in Nodes, NodeStepOf(n)
        PROVE  advisor'[m].advised \in advisor'[m].retained
    <3>1. CASE Drain(n) /\ HasAdvisor
      BY <1>1, <2>1, <3>1, DrainIsNote DEF RunInv
    <3>2. CASE AdvisorStep(n)
      BY <2>1, <3>2, AdvisorStepIsAdvising
    <3>3. CASE EndpointStep(n) \/ SelectProposal(n) \/ CastVote(n)
               \/ NodeEndTick(n) \/ (Drain(n) /\ ~HasAdvisor)
      BY <2>2, <3>3 DEF EndpointStep, SelectProposal, CastVote, NodeEndTick,
                        Drain, partVars, advisorVars
    <3> QED BY <2>3, <3>1, <3>2, <3>3 DEF NodeStepOf
  <2> QED BY <1>1, <2>2, <2>3 DEF NodeNext, partVars, advisorVars
<1>2. RunInv /\ AdvisorInv /\ [NodeNext]_nodeVars
        => [\A n \in Nodes :
              advisor[n].advised = None /\ advisor'[n].advised # None
                => advisor'[n].advised \in advisor'[n].retained]_nodeVars
  BY <1>1
<1> HIDE DEF RunInv, AdvisorInv, NodeNext, nodeVars
<1> QED BY <1>2, NodeInvariant, PTL DEF NodeSpec

-----------------------------------------------------------------------------
(* Advice is there when the policies are asked                             *)

\* A node whose policies are asked, or that has nobody to propose to.
Served(n) ==
  n \in advisorsReady \/ advisor[n].terminal \/ Eligible(n) = {}

\* The neighbours whose announcements the endpoint has still to handle.
Announced(n) ==
  {batch[n][i].from : i \in {j \in DOMAIN batch[n] : batch[n][j].type = "MATCHED"}}

\* The first tick, until the advisor starts: it knows of the neighbours that
\* its endpoint has written off or is about to.
BeforeAdvice(n) ==
  LET a == advisor[n] IN
  /\ a = [Advising!NewAdvisor EXCEPT !.gone = a.gone]
  /\ \/ step[n] = "idle" /\ a.gone = {}
     \/ /\ step[n] = "handle" /\ advisorStep[n] = "retire"
        /\ a.gone \subseteq unavailable[n] \cup Announced(n)
     \/ /\ step[n] = "expire" /\ advisorStep[n] = "retire"
        /\ a.gone \subseteq unavailable[n]
     \/ /\ step[n] = "propose" /\ a.gone \subseteq unavailable[n]
        /\ \/ advisorStep[n] = "retire"
           \/ advisorStep[n] = "start" /\ matchedTo[n] = None

\* The first tick, from then on: it recommends its candidates, or one of them.
FirstAdvice(n) ==
  LET a == advisor[n] IN
  /\ step[n] = "propose" /\ matchedTo[n] = None
  /\ a.candidates # {} /\ a.candidates \cap unavailable[n] = {}
  /\ a.valid \subseteq a.candidates
  /\ a.choice = None /\ a.advised = None
  /\ \/ advisorStep[n] = "handle" /\ a.at.stage = "valid" /\ a.selected = None
     \/ advisorStep[n] = "idle" /\ a.selected \in a.candidates \cup {None}

AdviceInv ==
  HasAdvisor => \A n \in Nodes : Served(n) \/ BeforeAdvice(n) \/ FirstAdvice(n)

\* One of finitely many neighbours weighs the most.
LEMMA HeaviestExists ==
  ASSUME NEW n \in Nodes, NEW S \in SUBSET Neighbors(n), S # {}
  PROVE  \E m \in S : \A k \in S : EdgeWeight(n, m) >= EdgeWeight(n, k)
<1> DEFINE HasHeaviest(U) ==
             \E m \in U : \A k \in U : EdgeWeight(n, m) >= EdgeWeight(n, k)
           Bad == {U \in FiniteSubsetsOf(Neighbors(n)) : U # {} /\ ~HasHeaviest(U)}
<1> SUFFICES ASSUME ~HasHeaviest(S) PROVE FALSE
  OBVIOUS
<1>1. \A m \in Neighbors(n) : EdgeWeight(n, m) \in Nat
  BY TopologyAssumption DEF Neighbors, EdgeWeight
<1>2. S \in Bad
  <2>1. IsFiniteSet(Nodes) /\ S \subseteq Nodes
    BY RunAssumption DEF Neighbors
  <2>2. IsFiniteSet(S)
    BY <2>1, FS_Subset
  <2> QED BY <2>2 DEF FiniteSubsetsOf
<1>3. PICK U \in Bad :
        \A V \in Bad : <<V, U>> \notin StrictSubsetOrdering(Neighbors(n))
  <2>1. Bad \subseteq FiniteSubsetsOf(Neighbors(n))
    OBVIOUS
  <2> HIDE DEF Bad
  <2> QED BY <1>2, <2>1, FS_StrictSubsetOrderingWellFounded, WFMin
<1>4. U \subseteq Neighbors(n) /\ IsFiniteSet(U) /\ U # {} /\ ~HasHeaviest(U)
  BY DEF FiniteSubsetsOf
<1>5. PICK x \in U : TRUE
  BY <1>4
<1> DEFINE V == U \ {x}
<1>6. /\ V \subseteq Neighbors(n) /\ IsFiniteSet(V)
      /\ <<V, U>> \in StrictSubsetOrdering(Neighbors(n))
  BY <1>4, <1>5, FS_RemoveElement DEF StrictSubsetOrdering
<1>7. V = {} \/ HasHeaviest(V)
  BY <1>3, <1>6 DEF FiniteSubsetsOf
<1>8. CASE V = {}
  <2>1. \A y \in U : y = x
    BY <1>8
  <2>2. EdgeWeight(n, x) >= EdgeWeight(n, x)
    BY <1>1, <1>4
  <2> QED BY <1>4, <2>1, <2>2
<1>9. CASE HasHeaviest(V)
  <2>1. PICK b \in V : \A k \in V : EdgeWeight(n, b) >= EdgeWeight(n, k)
    BY <1>9
  <2>2. b \in U /\ \A y \in U : y = x \/ y \in V
    BY <2>1
  <2>3. /\ EdgeWeight(n, b) \in Nat /\ EdgeWeight(n, x) \in Nat
        /\ \A k \in V : EdgeWeight(n, k) \in Nat
    BY <1>1, <1>4, <2>2
  <2>4. CASE EdgeWeight(n, b) >= EdgeWeight(n, x)
    BY <1>4, <2>1, <2>2, <2>4
  <2>5. CASE EdgeWeight(n, x) > EdgeWeight(n, b)
    <3>1. \A y \in U : EdgeWeight(n, x) >= EdgeWeight(n, y)
      BY <2>1, <2>2, <2>3, <2>5
    <3> QED BY <1>4, <3>1
  <2> QED BY <2>3, <2>4, <2>5
<1> QED BY <1>7, <1>8, <1>9

\* Whoever has an eligible neighbour has a candidate.
LEMMA CandidateExists ==
  ASSUME NEW n \in Nodes, NEW a \in Advising!Advisor, matchedTo[n] = None,
         ~a.privatelyMatched, a.gone \subseteq unavailable[n], Eligible(n) # {}
  PROVE  /\ Advising!Candidates(n, a) # {}
         /\ Advising!Candidates(n, a) \subseteq Eligible(n)
<1> DEFINE decay == ThresholdDecay * a.at.phase
           rest == IF decay < 100 THEN 100 - decay ELSE 0
           share == ValidThreshold * rest
<1>1. Eligible(n) = Advising!Neighbors(n) \ (unavailable[n] \cup a.gone)
  BY DEF Eligible, Neighbors, Advising!Neighbors
<1>2. Advising!Candidates(n, a) =
        {m \in Eligible(n) : \A k \in Eligible(n) :
           10000 * EdgeWeight(n, m) >= EdgeWeight(n, k) * share}
  BY <1>1 DEF Advising!Candidates, Advising!EdgeWeight, EdgeWeight
<1>3. share \in Nat /\ share <= 10000
  <2>1. a.at.phase \in Nat /\ ThresholdDecay \in Nat /\ ValidThreshold \in 10..100
    BY NodeAssumption DEF Advising!Advisor, Advising!Place
  <2>2. decay \in Nat
    BY <2>1
  <2> HIDE DEF decay
  <2>3. rest \in 0..100
    BY <2>2
  <2> HIDE DEF rest
  <2>4. ASSUME NEW i \in Nat, i <= 100, NEW j \in Nat, j <= 100
        PROVE  i * j \in Nat /\ i * j <= 10000
    <3>1. i * j <= i * 100
      BY <2>4
    <3> QED BY <2>4, <3>1
  <2>5. /\ ValidThreshold \in Nat /\ ValidThreshold <= 100
        /\ rest \in Nat /\ rest <= 100
    BY <2>1, <2>3
  <2>6. ValidThreshold * rest \in Nat /\ ValidThreshold * rest <= 10000
    BY <2>4, <2>5
  <2> QED BY <2>6
<1> HIDE DEF share
<1>4. \A m \in Neighbors(n) : EdgeWeight(n, m) \in Nat
  BY TopologyAssumption DEF Neighbors, EdgeWeight
<1>5. PICK m \in Eligible(n) :
        \A k \in Eligible(n) : EdgeWeight(n, m) >= EdgeWeight(n, k)
  BY HeaviestExists DEF Eligible
<1>6. \A v, w, s \in Nat : w <= v /\ s <= 10000 => 10000 * v >= w * s
  <2> TAKE v, w, s \in Nat
  <2>1. w * s <= w * 10000 \/ ~(s <= 10000)
    OBVIOUS
  <2> QED BY <2>1
<1>7. \A k \in Eligible(n) : 10000 * EdgeWeight(n, m) >= EdgeWeight(n, k) * share
  BY <1>3, <1>4, <1>5, <1>6 DEF Eligible
<1> QED BY <1>2, <1>5, <1>7

\* A tick's endpoint steps are steps of its endpoint.
LEMMA EndpointPart ==
  ASSUME NEW n \in Nodes, NodeStepOf(n)
  PROVE  NodeStep(n) \/ UNCHANGED vars
BY DEF NodeStepOf, Drain, EndpointStep, AdvisorStep, SelectProposal, CastVote,
       NodeEndTick, EndTick, NodeStep, runVars

\* A node writes off neighbours for itself and for good.
LEMMA WritesOff ==
  ASSUME RunInv, NEW n \in Nodes, NodeStepOf(n)
  PROVE  /\ unavailable[n] \subseteq unavailable'[n]
         /\ \A k \in Nodes \ {n} : unavailable'[k] = unavailable[k]
<1>1. unavailable \in [Nodes -> SUBSET Nodes]
  BY DEF RunInv, IInv, TypeInv, TypeOK
<1>2. CASE ReceiveReject(n) \/ ReceiveMatched(n)
  BY <1>1, <1>2 DEF ReceiveReject, ReceiveMatched, MarkUnavailable
<1>3. CASE ReceivePropose(n) \/ ReceiveAccept(n) \/ ReceiveConfirm(n)
           \/ ReceiveCancel(n) \/ Resolve(n)
  BY <1>3 DEF ReceivePropose, ReceiveAccept, ReceiveConfirm, ReceiveCancel,
              Resolve, ResolveMatched, ResolveBusy, ResolveFree, EndResolution,
              knowledge
<1>4. CASE Receive(n) \/ Send(n) \/ Expire(n) \/ Propose(n) \/ Finish(n)
           \/ Continue(n)
  BY <1>4 DEF Receive, Send, Expire, Propose, Finish, Continue, local, knowledge
<1> QED BY <1>2, <1>3, <1>4, EndpointPart DEF NodeStep, Handle, vars

\* A node's step changes nothing that another node's advice depends on.
LEMMA OthersSee ==
  ASSUME RunInv, AdvisorInv, NEW n \in Nodes, NodeStepOf(n), NEW k \in Nodes \ {n}
  PROVE  /\ advisor'[k] = advisor[k] /\ advisorStep'[k] = advisorStep[k]
         /\ step'[k] = step[k] /\ batch'[k] = batch[k]
         /\ matchedTo'[k] = matchedTo[k] /\ unavailable'[k] = unavailable[k]
<1>1. /\ advisor \in [Nodes -> Advising!Advisor]
      /\ advisorStep \in [Nodes -> {"idle", "retire", "start", "handle"}]
  BY AdvisorTypesHold DEF AdvisorInv
<1>2. step'[k] = step[k] /\ batch'[k] = batch[k] /\ matchedTo'[k] = matchedTo[k]
  BY EndpointPart, LocalFrame DEF vars, RunInv
<1>3. unavailable'[k] = unavailable[k]
  BY WritesOff
<1>4. advisor'[k] = advisor[k] /\ advisorStep'[k] = advisorStep[k]
  <2>1. CASE Drain(n)
    BY <1>1, <2>1 DEF Drain, advisorVars, Advisors!Become, Advisors!GoTo
  <2>2. CASE AdvisorStep(n)
    <3>1. UNCHANGED advisor \/ Advising!Grows(n)
      BY <2>2, AdvisorsAssumed, AdvisorStepIsAdvising, Advising!StepGrows
         DEF AdvisorInv, Advising!Kept, Advising!Note, Advising!At
    <3>2. advisor'[k] = advisor[k]
      BY <1>1, <3>1 DEF Advising!Grows
    <3> QED BY <2>2, <3>2, AdvisorFrame DEF AdvisorInv
  <2>3. CASE EndpointStep(n) \/ SelectProposal(n) \/ CastVote(n) \/ NodeEndTick(n)
    BY <2>3 DEF EndpointStep, SelectProposal, CastVote, NodeEndTick, partVars,
                advisorVars
  <2> QED BY <2>1, <2>2, <2>3 DEF NodeStepOf
<1> QED BY <1>2, <1>3, <1>4

\* Who is served stays so: advisors do not take up again what they have ended.
LEMMA ServedStays ==
  ASSUME RunInv, AdvisorInv, NEW n \in Nodes, NodeStepOf(n), Served(n)
  PROVE  Served(n)'
<1>1. advisorsReady \subseteq advisorsReady'
  BY DEF NodeStepOf, Drain, EndpointStep, AdvisorStep, SelectProposal, CastVote,
         NodeEndTick, partVars
<1>2. unavailable[n] \subseteq unavailable'[n]
  BY WritesOff
<1>3. advisor[n].terminal => advisor'[n].terminal
  <2>0. advisor \in [Nodes -> Advising!Advisor]
    BY AdvisorTypesHold DEF AdvisorInv
  <2>1. CASE Drain(n)
    <3>1. PICK S : \/ UNCHANGED advisor
                   \/ advisor' = [advisor EXCEPT ![n] =
                                    Advisors!MarkUnavailable(advisor[n], S)]
      BY <2>1 DEF Drain, advisorVars, Advisors!Become
    <3>2. Advisors!MarkUnavailable(advisor[n], S).terminal = advisor[n].terminal
      BY <2>0 DEF Advisors!MarkUnavailable, Advising!Advisor
    <3> QED BY <2>0, <3>1, <3>2
  <2>2. CASE AdvisorStep(n)
    <3>1. Advising!StepOf(n) /\ Advising!Basics
      BY <2>2, AdvisorStepIsAdvising DEF AdvisorInv, Advising!Kept
    <3>2. CASE Advisors!Send(n)
      BY <3>2 DEF Advisors!Send
    <3>3. CASE Advisors!Retire(n)
      BY <3>1, <3>3, AdvisorsAssumed, SameRetire, Advising!RetireEffects
    <3>4. CASE Advisors!Start(n)
      BY <3>1, <3>4, AdvisorsAssumed, SameStart, Advising!StartEffects
    <3>5. CASE Advisors!Handle(n)
      BY <3>1, <3>5, AdvisorsAssumed, SameHandle, Advising!HandleEffects
    <3>6. CASE Advisors!Settle(n)
      BY <3>1, <3>6, AdvisorsAssumed, SameSettle, Advising!SettleEffects
         DEF Advising!Moves, Advising!Synchronized
    <3> QED BY <2>2, <3>2, <3>3, <3>4, <3>5, <3>6 DEF AdvisorStep
  <2>3. CASE EndpointStep(n) \/ SelectProposal(n) \/ CastVote(n) \/ NodeEndTick(n)
    BY <2>3 DEF EndpointStep, SelectProposal, CastVote, NodeEndTick, partVars,
                advisorVars
  <2> QED BY <2>1, <2>2, <2>3 DEF NodeStepOf
<1> QED BY <1>1, <1>2, <1>3 DEF Served, Eligible

\* What an endpoint's step leaves of the announcements it had to handle.
LEMMA AnnouncedStep ==
  ASSUME RunInv, NEW n \in Nodes, EndpointStep(n)
  PROVE  Announced(n) \subseteq Announced(n)' \cup unavailable'[n]
<1> DEFINE q == batch[n]
<1>1. batch \in [Nodes -> Seq(Message)] /\ unavailable \in [Nodes -> SUBSET Nodes]
  BY DEF RunInv, IInv, TypeInv, TypeOK
<1>2. CASE UNCHANGED batch
  BY <1>2 DEF Announced
<1>3. CASE Handle(n)
  <2>1. q \in Seq(Message) /\ q # <<>> /\ batch'[n] = Tail(q)
    BY <1>1, <1>3 DEF Handle, ReceivePropose, ReceiveAccept, ReceiveReject,
                      ReceiveConfirm, ReceiveCancel, ReceiveMatched, Handling,
                      Consume
  <2>2. ASSUME Head(q).type = "MATCHED"
        PROVE  Head(q).from \in unavailable'[n]
    <3>1. ReceiveMatched(n)
      BY <1>3, <2>2 DEF Handle, ReceivePropose, ReceiveAccept, ReceiveReject,
                        ReceiveConfirm, ReceiveCancel, Handling
    <3> QED BY <1>1, <3>1 DEF ReceiveMatched, MarkUnavailable
  <2> HIDE DEF q
  <2>3. ASSUME NEW i \in DOMAIN q, q[i].type = "MATCHED"
        PROVE  q[i].from \in Announced(n)' \cup unavailable'[n]
    <3>1. CASE i = 1
      BY <2>1, <2>2, <2>3, <3>1
    <3>2. CASE i # 1
      <4>1. i - 1 \in DOMAIN Tail(q) /\ Tail(q)[i - 1] = q[i]
        BY <2>1, <3>2
      <4> QED BY <2>1, <2>3, <4>1 DEF Announced
    <3> QED BY <3>1, <3>2
  <2> QED BY <2>3 DEF Announced, q
<1>4. CASE Send(n) \/ Resolve(n) \/ Expire(n)
  BY <1>2, <1>4 DEF Send, Resolve, ResolveMatched, ResolveBusy, ResolveFree,
                    EndResolution, Expire
<1> QED BY <1>3, <1>4 DEF EndpointStep

LEMMA BeforeAdviceStep ==
  ASSUME RunInv, AdvisorInv, HasAdvisor, NEW n \in Nodes, NodeStepOf(n),
         BeforeAdvice(n)
  PROVE  Served(n)' \/ BeforeAdvice(n)' \/ FirstAdvice(n)'
<1> DEFINE a == advisor[n]
           fresh == Advising!NewAdvisor
<1>1. /\ advisor \in [Nodes -> Advising!Advisor] /\ a \in Advising!Advisor
      /\ advisorStep \in [Nodes -> {"idle", "retire", "start", "handle"}]
  BY AdvisorTypesHold DEF AdvisorInv
<1>2. /\ step \in [Nodes -> Step] /\ batch \in [Nodes -> Seq(Message)]
      /\ unavailable \in [Nodes -> SUBSET Nodes]
  BY DEF RunInv, IInv, TypeInv, TypeOK
<1>3. /\ a = [fresh EXCEPT !.gone = a.gone]
      /\ ~a.started /\ ~a.terminal /\ ~a.privatelyMatched /\ a.valid = {}
      /\ a.selected = None /\ a.choice = None /\ a.advised = None
      /\ a.at.stage = "valid"
  BY DEF BeforeAdvice, Advising!NewAdvisor
<1>4. CASE Drain(n)
  <2> DEFINE announced == {mailbox[n][i].from : i \in
                  {j \in DOMAIN mailbox[n] : mailbox[n][j].type = "MATCHED"}}
  <2>1. /\ step[n] = "idle" /\ step' = [step EXCEPT ![n] = "handle"]
        /\ batch'[n] = mailbox[n] /\ unavailable' = unavailable
        /\ advisorStep' = [advisorStep EXCEPT ![n] = "retire"]
        /\ advisor' = [advisor EXCEPT ![n] = Advisors!MarkUnavailable(a, announced)]
    BY <1>2, <1>4 DEF Drain, Receive, At, GoTo, local, Advisors!Become, Advisors!GoTo
  <2>2. Announced(n)' = announced
    BY <2>1 DEF Announced
  <2>3. a.gone = {}
    BY <2>1 DEF BeforeAdvice
  <2> HIDE DEF announced
  <2>4. Advisors!MarkUnavailable(a, announced) = [fresh EXCEPT !.gone = announced]
    BY <1>3, <2>3 DEF Advisors!MarkUnavailable, Advising!NewAdvisor
  <2>5. advisor'[n] = [fresh EXCEPT !.gone = advisor'[n].gone]
        /\ advisor'[n].gone = announced
    BY <1>1, <2>1, <2>4 DEF Advising!NewAdvisor
  <2> QED BY <1>1, <1>2, <2>1, <2>2, <2>5 DEF BeforeAdvice
<1>5. CASE EndpointStep(n)
  <2>1. UNCHANGED <<advisor, advisorStep>>
    BY <1>5 DEF EndpointStep, partVars, advisorVars
  <2>2. /\ unavailable[n] \subseteq unavailable'[n]
        /\ Announced(n) \subseteq Announced(n)' \cup unavailable'[n]
    BY <1>5, AnnouncedStep, WritesOff
  <2>3. CASE Send(n) \/ Handle(n)
    <3>1. UNCHANGED step /\ (step[n] # "handle" => UNCHANGED <<unavailable, matchedTo>>)
      BY <2>3 DEF Send, Handle, ReceivePropose, ReceiveAccept, ReceiveReject,
                  ReceiveConfirm, ReceiveCancel, ReceiveMatched, Consume,
                  Handling, At, knowledge
    <3> QED BY <2>1, <2>2, <3>1 DEF BeforeAdvice
  <2>4. CASE Resolve(n)
    <3>1. /\ step[n] = "handle" /\ step' = [step EXCEPT ![n] = "expire"]
          /\ batch[n] = <<>> /\ unavailable' = unavailable
      BY <2>4 DEF Resolve, ResolveMatched, ResolveBusy, ResolveFree, Resolving,
                  EndResolution, GoTo, At, knowledge
    <3>2. Announced(n) = {}
      BY <3>1 DEF Announced
    <3> QED BY <1>2, <2>1, <3>1, <3>2 DEF BeforeAdvice
  <2>5. CASE Expire(n)
    <3>1. /\ step[n] = "expire" /\ step' = [step EXCEPT ![n] = "propose"]
          /\ unavailable' = unavailable
      BY <2>5 DEF Expire, GoTo, At, knowledge
    <3> QED BY <1>2, <2>1, <3>1 DEF BeforeAdvice
  <2> QED BY <1>5, <2>3, <2>4, <2>5 DEF EndpointStep
<1>6. CASE AdvisorStep(n)
  <2>1. /\ UNCHANGED <<step, batch, unavailable, matchedTo>> /\ step[n] = "propose"
    BY <1>6 DEF AdvisorStep, runVars, vars, At
  <2>2. CASE Advisors!Send(n)
    <3>1. UNCHANGED <<advisor, advisorStep>>
      BY <2>2 DEF Advisors!Send
    <3> QED BY <2>1, <3>1 DEF BeforeAdvice
  <2>3. CASE Advisors!Retire(n)
    <3>1. CASE matchedTo[n] = None
      <4>1. UNCHANGED advisor /\ advisorStep' = [advisorStep EXCEPT ![n] = "start"]
        BY <1>3, <2>3, <3>1 DEF Advisors!Retire, Advisors!GoTo
      <4> QED BY <1>1, <2>1, <3>1, <4>1 DEF BeforeAdvice
    <3>2. CASE matchedTo[n] # None
      <4>1. advisor' = [advisor EXCEPT ![n] =
                          [a EXCEPT !.privatelyMatched = TRUE, !.terminal = TRUE]]
        BY <1>3, <2>3, <3>2 DEF Advisors!Retire, Advisors!Become
      <4>2. advisor'[n].terminal
        BY <1>1, <4>1 DEF Advising!Advisor
      <4> QED BY <4>2 DEF Served
    <3> QED BY <3>1, <3>2
  <2>4. CASE Advisors!Start(n)
    <3> DEFINE b == [a EXCEPT !.started = TRUE]
               c == Advising!Candidates(n, b)
    <3>1. /\ b \in Advising!Advisor /\ ~b.privatelyMatched /\ b.gone = a.gone
          /\ b.valid = {} /\ b.selected = None /\ b.choice = None
          /\ b.advised = None
      BY <1>1, <1>3 DEF Advising!Advisor
    <3>2. advisorStep[n] = "start" /\ Advising!Start(n)
      BY <2>4, SameStart DEF Advisors!Start, Advisors!At
    <3>3. matchedTo[n] = None /\ b.gone \subseteq unavailable[n]
      BY <2>1, <3>1, <3>2 DEF BeforeAdvice
    <3>4. /\ advisorStep' = [advisorStep EXCEPT ![n] = "handle"]
          /\ advisor' = [advisor EXCEPT ![n] =
               [b EXCEPT !.candidates = c, !.valid = {}, !.imposed = {},
                         !.at.stage = "valid"]]
      BY <3>2 DEF Advising!Start, Advising!BeginPhase, Advising!Become, Advising!GoTo
    <3>5. CASE Eligible(n) = {}
      BY <2>1, <3>5 DEF Served, Eligible
    <3>6. CASE Eligible(n) # {}
      <4>1. c # {} /\ c \subseteq Eligible(n)
        BY <3>1, <3>3, <3>6, CandidateExists
      <4> HIDE DEF b, c
      <4> DEFINE d == advisor'[n]
      <4>2. /\ d.candidates = c /\ d.valid = {} /\ d.selected = None
            /\ d.choice = None /\ d.advised = None /\ d.at.stage = "valid"
        BY <1>1, <3>1, <3>4 DEF Advising!Advisor, Advising!Place
      <4>3. c \cap unavailable[n] = {}
        BY <4>1 DEF Eligible
      <4> QED BY <1>1, <2>1, <3>3, <3>4, <4>1, <4>2, <4>3 DEF FirstAdvice
    <3> QED BY <3>5, <3>6
  <2>5. CASE Advisors!Handle(n) \/ Advisors!Settle(n)
    <3>1. advisorStep[n] = "handle"
      BY <2>5 DEF Advisors!Handle, Advisors!ReceiveCandidate,
                  Advisors!ReceiveSelect, Advisors!ReceiveEliminate,
                  Advisors!ReceiveMatch, Advisors!ReceiveCleanup,
                  Advisors!ReceiveSync, Advisors!IgnoreMatched,
                  Advisors!Handling, Advisors!Settle, Advisors!At
    <3> QED BY <2>1, <3>1 DEF BeforeAdvice
  <2> QED BY <1>6, <2>2, <2>3, <2>4, <2>5 DEF AdvisorStep
<1>7. CASE SelectProposal(n)
  BY <1>7 DEF SelectProposal, AdvisorDone, Advisors!At, Propose, At, BeforeAdvice
<1>8. CASE CastVote(n) \/ NodeEndTick(n)
  BY <1>8 DEF CastVote, NodeEndTick, EndTick, Finish, Continue, At, BeforeAdvice
<1> QED BY <1>4, <1>5, <1>6, <1>7, <1>8 DEF NodeStepOf

\* What a message that arrives before the first stage ends changes of the
\* advice: it may confirm a candidate, or take one back.
LEMMA HandleAdvice ==
  ASSUME AdvisorInv, NEW n \in Nodes, Advisors!Handle(n),
         advisor[n].choice = None
  PROVE  LET a == advisor[n]
             b == advisor'[n]
         IN
         /\ b.candidates = a.candidates /\ b.selected = a.selected
         /\ b.choice = None /\ b.advised = a.advised /\ b.at = a.at
         /\ b.valid \subseteq a.valid \cup a.candidates
         /\ advisorStep[n] = "handle" /\ UNCHANGED advisorStep
<1> DEFINE a == advisor[n]
           b == advisor'[n]
           m == Head(advisorBatch[n])
<1>1. /\ advisor \in [Nodes -> Advising!Advisor] /\ a \in Advising!Advisor
      /\ Advising!Basics
  BY AdvisorTypesHold DEF AdvisorInv, Advising!Kept
<1>2. m \in Advising!Message
  BY <1>1, AdvisorsAssumed, SameHandle, Advising!HandleEffects
<1>3. ~Advisors!Chose(a, m.from)
  <2>1. m.from \in Nodes /\ None \notin Nodes
    BY <1>2, EndpointAssumption DEF Advising!Message
  <2> QED BY <2>1 DEF Advisors!Chose
<1>4. advisorStep[n] = "handle" /\ UNCHANGED advisorStep
  BY DEF Advisors!Handle, Advisors!Handling, Advisors!At, Advisors!Handled,
         Advisors!ReceiveCandidate, Advisors!ReceiveSelect,
         Advisors!ReceiveEliminate, Advisors!ReceiveMatch,
         Advisors!ReceiveCleanup, Advisors!ReceiveSync, Advisors!IgnoreMatched
<1>5. \/ b = a
      \/ m.from \in a.candidates /\ b = [a EXCEPT !.valid = @ \cup {m.from}]
      \/ b = [a EXCEPT !.imposed = @ \cup {m.from}]
      \/ b = [a EXCEPT !.retained = @ \cup {m.from}]
      \/ b = [a EXCEPT !.notices = @ \cup {m.from}]
      \/ b = Advisors!MarkUnavailable(a, {m.from})
      \/ b = [a EXCEPT !.syncs = Advisors!Record(a, m)]
  <2>1. \A c : advisor' = [advisor EXCEPT ![n] = c] => b = c
    BY <1>1
  <2>2. CASE Advisors!ReceiveCandidate(n)
    BY <2>1, <2>2 DEF Advisors!ReceiveCandidate, Advisors!Handled, Advisors!Become
  <2>3. CASE Advisors!ReceiveSelect(n)
    BY <2>1, <2>3 DEF Advisors!ReceiveSelect, Advisors!Handled, Advisors!Become
  <2>4. CASE Advisors!ReceiveEliminate(n)
    BY <2>1, <2>4 DEF Advisors!ReceiveEliminate, Advisors!Handled, Advisors!Become
  <2>5. CASE Advisors!ReceiveMatch(n)
    BY <1>3, <2>1, <2>5 DEF Advisors!ReceiveMatch, Advisors!Handled, Advisors!Become
  <2>6. CASE Advisors!ReceiveCleanup(n) \/ Advisors!ReceiveSync(n)
    BY <2>1, <2>6 DEF Advisors!ReceiveCleanup, Advisors!ReceiveSync,
                      Advisors!Handled, Advisors!Become
  <2>7. CASE Advisors!IgnoreMatched(n)
    BY <2>1, <2>7 DEF Advisors!IgnoreMatched, Advisors!Handled, Advisors!Become
  <2> QED BY <2>2, <2>3, <2>4, <2>5, <2>6, <2>7 DEF Advisors!Handle
<1> HIDE DEF b, m
<1>6. /\ b.candidates = a.candidates /\ b.selected = a.selected
      /\ b.choice = a.choice /\ b.advised = a.advised /\ b.at = a.at
      /\ b.valid \subseteq a.valid \cup a.candidates
  <2> HIDE DEF a
  <2> DEFINE Same(c) == /\ c.candidates = a.candidates /\ c.selected = a.selected
                        /\ c.choice = a.choice /\ c.advised = a.advised
                        /\ c.at = a.at
  <2>1. \A S : Same([a EXCEPT !.valid = S]) /\ [a EXCEPT !.valid = S].valid = S
    BY <1>1 DEF Advising!Advisor
  <2>2. \A S : /\ Same([a EXCEPT !.imposed = S])
               /\ [a EXCEPT !.imposed = S].valid = a.valid
    BY <1>1 DEF Advising!Advisor
  <2>3. \A S : /\ Same([a EXCEPT !.retained = S])
               /\ [a EXCEPT !.retained = S].valid = a.valid
    BY <1>1 DEF Advising!Advisor
  <2>4. \A S : /\ Same([a EXCEPT !.notices = S])
               /\ [a EXCEPT !.notices = S].valid = a.valid
    BY <1>1 DEF Advising!Advisor
  <2>5. \A S : /\ Same([a EXCEPT !.syncs = S])
               /\ [a EXCEPT !.syncs = S].valid = a.valid
    BY <1>1 DEF Advising!Advisor
  <2>6. \A S : /\ Same(Advisors!MarkUnavailable(a, S))
               /\ Advisors!MarkUnavailable(a, S).valid \subseteq a.valid
    BY <1>1 DEF Advising!Advisor, Advisors!MarkUnavailable
  <2>7. Same(b) /\ b.valid \subseteq a.valid \cup {m.from}
        /\ (m.from \in a.candidates \/ b.valid \subseteq a.valid)
    <3> HIDE DEF Same
    <3>1. CASE b = a
      BY <3>1 DEF Same
    <3>2. CASE m.from \in a.candidates /\ b = [a EXCEPT !.valid = @ \cup {m.from}]
      BY <2>1, <3>2
    <3>3. CASE b = [a EXCEPT !.imposed = @ \cup {m.from}]
      BY <2>2, <3>3
    <3>4. CASE b = [a EXCEPT !.retained = @ \cup {m.from}]
      BY <2>3, <3>4
    <3>5. CASE b = [a EXCEPT !.notices = @ \cup {m.from}]
      BY <2>4, <3>5
    <3>6. CASE b = Advisors!MarkUnavailable(a, {m.from})
      BY <2>6, <3>6
    <3>7. CASE b = [a EXCEPT !.syncs = Advisors!Record(a, m)]
      BY <2>5, <3>7
    <3> QED BY <1>5, <3>1, <3>2, <3>3, <3>4, <3>5, <3>6, <3>7
  <2> QED BY <2>7
<1> QED BY <1>4, <1>6 DEF b

LEMMA FirstAdviceStep ==
  ASSUME RunInv, AdvisorInv, HasAdvisor, NEW n \in Nodes, NodeStepOf(n),
         FirstAdvice(n)
  PROVE  Served(n)' \/ FirstAdvice(n)'
<1> DEFINE a == advisor[n]
<1>1. /\ advisor \in [Nodes -> Advising!Advisor] /\ a \in Advising!Advisor
      /\ advisorStep \in [Nodes -> {"idle", "retire", "start", "handle"}]
  BY AdvisorTypesHold DEF AdvisorInv
<1>2. /\ step[n] = "propose" /\ matchedTo[n] = None
      /\ a.candidates # {} /\ a.candidates \cap unavailable[n] = {}
      /\ a.valid \subseteq a.candidates /\ a.choice = None /\ a.advised = None
  BY DEF FirstAdvice
<1>3. CASE EndpointStep(n)
  <2>1. Send(n)
    BY <1>2, <1>3 DEF EndpointStep, Handle, ReceivePropose, ReceiveAccept,
                      ReceiveReject, ReceiveConfirm, ReceiveCancel,
                      ReceiveMatched, Handling, Resolve, ResolveMatched,
                      ResolveBusy, ResolveFree, Resolving, Expire, At
  <2>2. UNCHANGED <<advisor, advisorStep, step, matchedTo, unavailable>>
    BY <1>3, <2>1 DEF EndpointStep, Send, knowledge, partVars, advisorVars
  <2> QED BY <2>2 DEF FirstAdvice
<1>4. CASE AdvisorStep(n)
  <2>1. UNCHANGED <<step, unavailable, matchedTo>>
    BY <1>4 DEF AdvisorStep, runVars, vars
  <2>2. CASE Advisors!Send(n)
    <3>1. UNCHANGED <<advisor, advisorStep>>
      BY <2>2 DEF Advisors!Send
    <3> QED BY <2>1, <3>1 DEF FirstAdvice
  <2>3. CASE Advisors!Retire(n) \/ Advisors!Start(n)
    BY <2>3 DEF Advisors!Retire, Advisors!Start, Advisors!At, FirstAdvice
  <2>4. CASE Advisors!Handle(n)
    <3>1. /\ advisor'[n].candidates = a.candidates
          /\ advisor'[n].selected = a.selected /\ advisor'[n].choice = None
          /\ advisor'[n].advised = a.advised /\ advisor'[n].at = a.at
          /\ advisor'[n].valid \subseteq a.valid \cup a.candidates
          /\ advisorStep[n] = "handle" /\ UNCHANGED advisorStep
      BY <1>2, <2>4, HandleAdvice
    <3> QED BY <1>2, <2>1, <3>1 DEF FirstAdvice
  <2>5. CASE Advisors!Settle(n)
    <3>1. /\ advisorStep[n] = "handle" /\ a.at.stage = "valid" /\ a.selected = None
          /\ advisorStep' = [advisorStep EXCEPT ![n] = "idle"]
      BY <2>5 DEF Advisors!Settle, Advisors!At, Advisors!GoTo, FirstAdvice
    <3>2. CASE UNCHANGED advisor
      BY <1>1, <1>2, <2>1, <3>1, <3>2 DEF FirstAdvice
    <3>3. CASE Advisors!Advance(n)
      <4>1. Advisors!BeginSelect(n, a)
        BY <3>1, <3>3 DEF Advisors!Advance, Advisors!Leaving,
             Advisors!BeginEliminate, Advisors!BeginMatching,
             Advisors!BeginCleanup, Advisors!EndRound
      <4>2. PICK m \in Advisors!Draws(a.valid) :
              advisor' = [advisor EXCEPT ![n] =
                [a EXCEPT !.selected = m, !.notices = {}, !.retained = {},
                          !.at.stage = "select"]]
        BY <4>1 DEF Advisors!BeginSelect, Advisors!Enter, Advisors!Become
      <4>3. m \in a.candidates \cup {None}
        BY <1>2 DEF Advisors!Draws
      <4>4. /\ advisor'[n].candidates = a.candidates /\ advisor'[n].selected = m
            /\ advisor'[n].choice = None /\ advisor'[n].advised = None
            /\ advisor'[n].valid = a.valid
        BY <1>1, <1>2, <4>2 DEF Advising!Advisor
      <4> QED BY <1>1, <1>2, <2>1, <3>1, <4>3, <4>4 DEF FirstAdvice
    <3> QED BY <2>5, <3>2, <3>3 DEF Advisors!Settle
  <2> QED BY <1>4, <2>2, <2>3, <2>4, <2>5 DEF AdvisorStep
<1>5. CASE SelectProposal(n)
  <2>1. a.selected \in a.candidates \cup {None}
    BY <1>5 DEF SelectProposal, AdvisorDone, Advisors!At, FirstAdvice
  <2>2. Advisors!Favourite(a) = a.selected
    BY <1>2 DEF Advisors!Favourite, Advisors!IsTruthy
  <2>3. Advice(n) # {}
    <3>1. CASE a.selected = None
      BY <1>2, <2>2, <3>1 DEF Advice, Advisors!Recommendations
    <3>2. CASE a.selected # None
      BY <1>2, <2>1, <2>2, <3>2 DEF Advice, Advisors!Recommendations
    <3> QED BY <3>1, <3>2
  <2>4. n \in advisorsReady'
    BY <1>5, <2>3 DEF SelectProposal
  <2> QED BY <2>4 DEF Served
<1>6. CASE Drain(n) \/ CastVote(n) \/ NodeEndTick(n)
  BY <1>2, <1>6 DEF Drain, Receive, CastVote, NodeEndTick, EndTick, Finish,
                    Continue, At
<1> QED BY <1>3, <1>4, <1>5, <1>6 DEF NodeStepOf

LEMMA AdviceInvInit ==
  ASSUME NodeInit
  PROVE  AdviceInv
<1> SUFFICES ASSUME NEW n \in Nodes
             PROVE  BeforeAdvice(n)
  BY DEF AdviceInv
<1>1. advisor[n] = Advising!NewAdvisor /\ step[n] = "idle"
  BY DEF NodeInit, RunInit, Init, Advisors!AdvisorInit, Advisors!NewAdvisor,
         Advising!NewAdvisor
<1>2. LET a == advisor[n]
      IN  a.gone = {} /\ a = [Advising!NewAdvisor EXCEPT !.gone = a.gone]
  <2>1. Advising!NewAdvisor.gone = {}
    BY DEF Advising!NewAdvisor
  <2>2. ASSUME NEW a \in Advising!Advisor
        PROVE  a = [a EXCEPT !.gone = a.gone]
    BY DEF Advising!Advisor
  <2>3. Advising!NewAdvisor \in Advising!Advisor
    <3>1. advisor \in [Nodes -> Advising!Advisor]
      BY AdvisorInvInit, AdvisorTypesHold DEF AdvisorInv
    <3> QED BY <1>1, <3>1
  <2> QED BY <1>1, <2>1, <2>2, <2>3
<1> QED BY <1>1, <1>2 DEF BeforeAdvice

LEMMA AdviceInvStep ==
  ASSUME RunInv, AdvisorInv, AdviceInv, [NodeNext]_nodeVars
  PROVE  AdviceInv'
<1> SUFFICES ASSUME HasAdvisor, NEW k \in Nodes
             PROVE  Served(k)' \/ BeforeAdvice(k)' \/ FirstAdvice(k)'
  BY DEF AdviceInv, HasAdvisor
<1>1. Served(k) \/ BeforeAdvice(k) \/ FirstAdvice(k)
  BY DEF AdviceInv
<1>2. CASE UNCHANGED nodeVars \/ ((Schedule \/ Ended) /\ UNCHANGED partVars)
  <2>1. /\ UNCHANGED <<advisor, advisorStep, advisorsReady>>
        /\ UNCHANGED <<step, batch, matchedTo, unavailable>>
    BY <1>2 DEF Schedule, Ended, nodeVars, runVars, vars, partVars, advisorVars
  <2> QED BY <1>1, <2>1 DEF Served, BeforeAdvice, FirstAdvice, Announced, Eligible
<1>3. ASSUME NEW n \in Nodes, NodeStepOf(n)
      PROVE  Served(k)' \/ BeforeAdvice(k)' \/ FirstAdvice(k)'
  <2>1. CASE k = n
    BY <1>1, <1>3, <2>1, ServedStays, BeforeAdviceStep, FirstAdviceStep
  <2>2. CASE k # n
    <3>1. /\ advisor'[k] = advisor[k] /\ advisorStep'[k] = advisorStep[k]
          /\ step'[k] = step[k] /\ batch'[k] = batch[k]
          /\ matchedTo'[k] = matchedTo[k] /\ unavailable'[k] = unavailable[k]
      BY <1>3, <2>2, OthersSee
    <3>2. advisorsReady \subseteq advisorsReady'
      BY <1>3 DEF NodeStepOf, Drain, EndpointStep, AdvisorStep, SelectProposal,
                  CastVote, NodeEndTick, partVars
    <3> QED BY <1>1, <3>1, <3>2
            DEF Served, BeforeAdvice, FirstAdvice, Announced, Eligible
  <2> QED BY <2>1, <2>2
<1> QED BY <1>2, <1>3 DEF NodeNext

\* The policies of a node are asked from its first tick on, unless it has no
\* neighbour left to propose to: the candidates an advisor starts with include
\* the heaviest neighbour the node may propose to, they count as advice for
\* advisors_are_ready (distributed_node), and readiness is never taken back.
THEOREM AdviceIsNotAwaitedCorrect == NodeSpec => []AdviceIsNotAwaited
<1>1. NodeInit => AdviceInv
  BY AdviceInvInit
<1>2. RunInv /\ AdvisorInv /\ AdviceInv /\ [NodeNext]_nodeVars => AdviceInv'
  BY AdviceInvStep
<1>3. AdviceInv => AdviceIsNotAwaited
  <2> SUFFICES ASSUME AdviceInv, NEW n \in Nodes, At(n, "propose"), AdvisorDone(n),
                      HasAdvisor
               PROVE  Asked(n) \/ Eligible(n) = {}
    BY DEF AdviceIsNotAwaited, Asked
  <2>1. CASE Served(n)
    BY <2>1 DEF Served, Asked
  <2>2. CASE BeforeAdvice(n)
    BY <2>2 DEF BeforeAdvice, At, AdvisorDone, Advisors!At
  <2>3. CASE FirstAdvice(n)
    <3> DEFINE a == advisor[n]
    <3>1. /\ matchedTo[n] = None /\ a.candidates # {}
          /\ a.candidates \cap unavailable[n] = {}
          /\ a.selected \in a.candidates \cup {None}
      BY <2>3 DEF FirstAdvice, AdvisorDone, Advisors!At
    <3>2. Advisors!Favourite(a) = a.selected
      BY <2>3 DEF FirstAdvice, Advisors!Favourite, Advisors!IsTruthy
    <3>3. CASE a.selected = None
      BY <3>1, <3>2, <3>3 DEF Asked, Advice, Advisors!Recommendations
    <3>4. CASE a.selected # None
      BY <3>1, <3>2, <3>4 DEF Asked, Advice, Advisors!Recommendations
    <3> QED BY <3>3, <3>4
  <2> QED BY <2>1, <2>2, <2>3 DEF AdviceInv
<1> HIDE DEF RunInv, AdvisorInv, AdviceInv, NodeNext, nodeVars, AdviceIsNotAwaited
<1> QED BY <1>1, <1>2, <1>3, NodeInvariant, PTL DEF NodeSpec

=============================================================================
