------------------------- MODULE PopulationEvaluation -------------------------
(***************************************************************************)
(* A genetic search and the activity of the graph it searches for: each    *)
(* evaluation of the pool is a run on that one graph, from start() to the  *)
(* report its score is taken from.                                         *)
(***************************************************************************)
EXTENDS MetaAlgorithmGA

CONSTANTS
  Nodes,      \* the vertices of the graph
  NumWorkers, \* num_workers
  None        \* no activity

VARIABLES activity, running, deactivated, report

activityVars == <<activity, running, deactivated, report>>
poolVars == <<vars, activityVars>>

\* The evaluation of the candidate at an index is the run of that number.
Activity == INSTANCE RunActivity WITH Runs <- Index

PoolInit == Init /\ Activity!Init

\* A run of this generation goes on, and its score is known when it ends.
RunStep(i) ==
  \/ Activity!Start(i) /\ UNCHANGED vars
  \/ (\E n \in Nodes : Activity!Record(i, n)) /\ UNCHANGED vars
  \/ Activity!Report(i) /\ Evaluate(i)

\* The next generation has new runs; nothing touches the graph between them.
NextGeneration ==
  /\ Breed
  /\ deactivated' = [i \in Index |-> {}]
  /\ report' = [i \in {} |-> Activity!NoEntries]
  /\ UNCHANGED <<activity, running>>

PoolNext ==
  \/ \E i \in Index : RunStep(i)
  \/ NextGeneration
  \/ Return /\ UNCHANGED activityVars
  \/ Terminated /\ UNCHANGED activityVars

PoolSpec == PoolInit /\ [][PoolNext]_poolVars

-----------------------------------------------------------------------------
\* run_activity's "current run's observer-only activity projection": each
\* report of the generation names the nodes that became inactive in its own
\* run, and no others.
ReportsDescribeTheirRuns == Activity!ReportDescribesItsRun

=============================================================================
