---------------------- MODULE DistributedOrchestrator -----------------------
(***************************************************************************)
(* A whole run: the endpoints and the executor that ticks them.  start()   *)
(* builds the nodes and withdraws the pre-matched ones, run() hands        *)
(* execute_distributed_round to the executor, and execute() collects the   *)
(* matching and the outcome once run_until_idle has returned.  A node      *)
(* takes the steps of a tick only while one of its ticks is in the pool,   *)
(* and its worker is free again when the tick has ended.                   *)
(***************************************************************************)
EXTENDS EndpointProtocol, FiniteSets, FiniteSetsExt

CONSTANTS MaxWorkers, MaxTicks

ASSUME RunAssumption ==
  /\ IsFiniteSet(Nodes)
  /\ MaxWorkers \in Nat \ {0}
  /\ MaxTicks \in Nat

VARIABLES ready, inFlight, done, collected, scheduled, phase

schedulerVars == <<ready, inFlight, done, collected, scheduled, phase>>
runVars == <<vars, schedulerVars>>

Executor == INSTANCE ParallelNodeExecutor
  WITH active <- Nodes \ finished, raised <- {}

RunInit == Init /\ Executor!ExecutorInit(Nodes \ finished)

\* The last step of execute_distributed_round, after which the worker
\* reports the tick done.
EndTick(n) == (Finish(n) \/ Continue(n)) /\ Executor!Complete(n)

MidTick(n) ==
  /\ n \in Executor!Running
  /\ \/ Receive(n) \/ Send(n) \/ Handle(n) \/ Resolve(n)
     \/ Expire(n) \/ Propose(n)
  /\ UNCHANGED schedulerVars

Schedule == Executor!Scheduler /\ UNCHANGED vars

Ended == phase = "ended" /\ UNCHANGED runVars

RunNext ==
  \/ Schedule
  \/ \E n \in Nodes : MidTick(n) \/ EndTick(n)
  \/ Ended

\* The caller's thread runs on and so does every worker with a tick.
RunFairness ==
  /\ WF_runVars(Schedule)
  /\ \A n \in Nodes : WF_runVars(MidTick(n) \/ EndTick(n))

RunSpec == RunInit /\ [][RunNext]_runVars /\ RunFairness

-----------------------------------------------------------------------------
(* What execute() returns                                                  *)

IsTerminal(n) == IsMatched(n) \/ n \in terminalUnmatched

\* report["outcome"] = "quiescent"
Quiescent ==
  /\ phase = "ended"
  /\ ~Executor!WatchdogExhausted
  /\ \A n \in Nodes : IsTerminal(n)

\* calculate_matching_weight
MatchingWeight(matching) == MapThenSumSet(LAMBDA e : Weight[e], matching)

\* final_weight
FinalWeight == MatchingWeight(ReportedMatching)

-----------------------------------------------------------------------------
(* Properties                                                              *)

\* docs/ALGORITHM_FLOW.md: no unmatched edge has both endpoints unmatched.
\* A run that reports "quiescent" reports a maximal matching.
QuiescentIsMaximal == Quiescent => Abstract!IsMaximal

\* A run that reports "quiescent" reports a match for every node that
\* believes itself matched: _collect_results drops nothing.
QuiescentIsMutual ==
  Quiescent => \A n \in Nodes : IsMatched(n) => matchedTo[matchedTo[n]] = n

\* The deadline is for partners that never answer.  With one worker every
\* partner is ticked between two ticks of a node and answers in its tick,
\* so no deadline passes.
NoDeadlinePasses == \A n \in Nodes : step[n] = "expire" => ~ExpireDue(n)

\* A run whose policies always propose when they can reaches quiescence
\* before the watchdog: the outcome is never "watchdog_exhausted".
EndsQuiescent == phase = "ended" => Quiescent

\* execute() reads every node's state without a lock once run() has
\* returned: no thread changes what it reports any more.
ReportIsStable ==
  [][phase = "ended" => UNCHANGED <<ReportedMatching, FinalWeight, terminalUnmatched>>]_runVars

\* With one worker a run goes on until the matching is maximal.
ReachesMaximalMatching == Abstract!Spec

=============================================================================
