----------------------------- MODULE RunActivity -----------------------------
(***************************************************************************)
(* The activity projection of a GraphManager, shared by the runs that the  *)
(* genetic search evaluates on one graph.  A run clears it when it starts, *)
(* its nodes record in it that they have become inactive, and its report   *)
(* is a copy of it.  Each of the three is atomic under the graph's lock;   *)
(* nothing else orders the runs of different workers.                      *)
(*                                                                         *)
(* Reason and logical tick of an entry are kept as the run it stems from.  *)
(***************************************************************************)
EXTENDS Naturals, FiniteSets

CONSTANTS
  Nodes,      \* the vertices of the graph
  Runs,       \* the evaluations of one generation, in the order of the pool
  NumWorkers, \* num_workers
  None        \* no entry

VARIABLES
  activity,     \* _run_activity
  running,      \* runs between start() and the end of execute()
  deactivated,  \* the nodes of each run that have become inactive
  report        \* the "node_activity" of each run that has ended

vars == <<activity, running, deactivated, report>>

Entries == [Nodes -> Runs \cup {None}]
NoEntries == [n \in Nodes |-> None]
Reported(r) == r \in DOMAIN report

TypeOK ==
  /\ activity \in Entries
  /\ running \subseteq Runs
  /\ deactivated \in [Runs -> SUBSET Nodes]
  /\ DOMAIN report \subseteq Runs
  /\ \A r \in DOMAIN report : report[r] \in Entries

Init ==
  /\ activity = NoEntries
  /\ running = {}
  /\ deactivated = [r \in Runs |-> {}]
  /\ report = [r \in {} |-> NoEntries]

\* Mutant: the projection is not cleared.
Kept == activity

Cleared == NoEntries

\* A worker takes the next evaluation, which starts a run: start_run.
Start(r) ==
  /\ Cardinality(running) < NumWorkers
  /\ r \notin running /\ ~Reported(r)
  /\ \A s \in Runs : s < r => s \in running \/ Reported(s)
  /\ running' = running \cup {r}
  /\ activity' = Cleared
  /\ UNCHANGED <<deactivated, report>>

\* A node of the run finishes: record_node_deactivation, the first stays.
Record(r, n) ==
  /\ r \in running /\ n \notin deactivated[r]
  /\ deactivated' = [deactivated EXCEPT ![r] = @ \cup {n}]
  /\ activity' = [activity EXCEPT ![n] = IF @ = None THEN r ELSE @]
  /\ UNCHANGED <<running, report>>

\* execute() ends, quiescent or at the watchdog, and reports run_activity().
Report(r) ==
  /\ r \in running
  /\ running' = running \ {r}
  /\ report' = [s \in DOMAIN report \cup {r} |->
                  IF s = r THEN activity ELSE report[s]]
  /\ UNCHANGED <<activity, deactivated>>

Terminated == (\A r \in Runs : Reported(r)) /\ UNCHANGED vars

Next ==
  \/ \E r \in Runs : Start(r) \/ Report(r) \/ \E n \in Nodes : Record(r, n)
  \/ Terminated

Spec == Init /\ [][Next]_vars

-----------------------------------------------------------------------------
\* run_activity's "current run's observer-only activity projection": a report
\* names the nodes that became inactive in its own run, and no others.
ReportDescribesItsRun ==
  \A r \in DOMAIN report :
    report[r] = [n \in Nodes |-> IF n \in deactivated[r] THEN r ELSE None]

=============================================================================
