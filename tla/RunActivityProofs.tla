-------------------------- MODULE RunActivityProofs --------------------------
(***************************************************************************)
(* With one worker the activity of a graph describes the run it is         *)
(* reported for, for every graph and any number of runs.                   *)
(***************************************************************************)
EXTENDS RunActivity, FiniteSetTheorems, TLAPS

\* What the activity of run r alone looks like.
ActivityOf(r) == [n \in Nodes |-> IF n \in deactivated[r] THEN r ELSE None]

\* The activity is that of the one run under way; a run that has not started
\* has deactivated nobody, so clearing is enough when it does.
OneRunInv ==
  /\ TypeOK
  /\ \A r, s \in running : r = s
  /\ \A r \in running : ~Reported(r) /\ activity = ActivityOf(r)
  /\ \A r \in Runs : r \notin running /\ ~Reported(r) => deactivated[r] = {}
  /\ ReportDescribesItsRun

LEMMA OneRunInit == Init => OneRunInv
BY DEF Init, OneRunInv, TypeOK, Entries, NoEntries, Reported,
       ReportDescribesItsRun

\* A worker is free only when no run is under way.
LEMMA StartsAlone ==
  ASSUME NumWorkers = 1, OneRunInv, NEW r \in Runs, Start(r)
  PROVE  running = {}
<1>1. ASSUME NEW s \in running
      PROVE  FALSE
  <2>1. running = {s}
    BY <1>1 DEF OneRunInv
  <2>2. Cardinality(running) = 1
    BY <2>1, FS_Singleton
  <2> QED BY <2>2 DEF Start
<1> QED BY <1>1

LEMMA StartKeeps ==
  ASSUME NumWorkers = 1, OneRunInv, NEW r \in Runs, Start(r)
  PROVE  OneRunInv'
<1>1. running = {} /\ running' = {r}
  BY StartsAlone DEF Start
<1>2. deactivated[r] = {} /\ r \notin DOMAIN report
  BY DEF OneRunInv, Start, Reported
<1>3. activity' = ActivityOf(r)'
  BY <1>2 DEF Start, Cleared, NoEntries, ActivityOf
<1>4. TypeOK'
  BY <1>1 DEF OneRunInv, TypeOK, Start, Cleared, NoEntries, Entries
<1> QED BY <1>1, <1>2, <1>3, <1>4
        DEF OneRunInv, Start, Reported, ReportDescribesItsRun

LEMMA RecordKeeps ==
  ASSUME OneRunInv, NEW r \in Runs, NEW n \in Nodes, Record(r, n)
  PROVE  OneRunInv'
<1>1. /\ r \in running /\ ~Reported(r)
      /\ activity = ActivityOf(r) /\ n \notin deactivated[r]
  BY DEF OneRunInv, Record
<1>2. /\ deactivated' \in [Runs -> SUBSET Nodes]
      /\ deactivated'[r] = deactivated[r] \cup {n}
      /\ \A s \in Runs : s # r => deactivated'[s] = deactivated[s]
  BY DEF OneRunInv, TypeOK, Record
<1>3. activity[n] = None
  BY <1>1 DEF ActivityOf
<1>4. activity' = [m \in Nodes |-> IF m = n THEN r ELSE activity[m]]
  BY <1>3 DEF OneRunInv, TypeOK, Entries, Record
<1>5. activity' = ActivityOf(r)'
  BY <1>1, <1>2, <1>4 DEF ActivityOf
<1>6. TypeOK'
  BY <1>2, <1>4 DEF OneRunInv, TypeOK, Entries, Record
<1>7. ReportDescribesItsRun'
  BY <1>1, <1>2 DEF OneRunInv, TypeOK, Reported, Record, ReportDescribesItsRun
<1> QED BY <1>1, <1>2, <1>5, <1>6, <1>7 DEF OneRunInv, TypeOK, Record, Reported

LEMMA ReportKeeps ==
  ASSUME OneRunInv, NEW r \in Runs, Report(r)
  PROVE  OneRunInv'
<1>1. r \in running /\ activity = ActivityOf(r)
  BY DEF OneRunInv, Report
<1>2. running' = {}
  BY <1>1 DEF OneRunInv, Report
<1>3. /\ DOMAIN report' = DOMAIN report \cup {r}
      /\ report'[r] = activity
      /\ \A s \in DOMAIN report : s # r => report'[s] = report[s]
  BY DEF Report
<1>4. TypeOK'
  BY <1>2, <1>3 DEF OneRunInv, TypeOK, Report
<1>5. ReportDescribesItsRun'
  BY <1>1, <1>3 DEF OneRunInv, ReportDescribesItsRun, Report, ActivityOf
<1> QED BY <1>1, <1>2, <1>3, <1>4, <1>5 DEF OneRunInv, Report, Reported

\* With one worker every report names the nodes that became inactive in its
\* own run, and no others: start_run clears nobody else's activity.
THEOREM OneWorkerReportsItsRun ==
  ASSUME NumWorkers = 1
  PROVE  Spec => []ReportDescribesItsRun
<1>1. OneRunInv /\ [Next]_vars => OneRunInv'
  <2> SUFFICES ASSUME OneRunInv, [Next]_vars PROVE OneRunInv'
    OBVIOUS
  <2>1. ASSUME NEW r \in Runs, Start(r) PROVE OneRunInv'
    BY <2>1, StartKeeps
  <2>2. ASSUME NEW r \in Runs, Report(r) PROVE OneRunInv'
    BY <2>2, ReportKeeps
  <2>3. ASSUME NEW r \in Runs, NEW n \in Nodes, Record(r, n) PROVE OneRunInv'
    BY <2>3, RecordKeeps
  <2>4. CASE UNCHANGED vars
    BY <2>4 DEF vars, OneRunInv, TypeOK, Reported, ActivityOf,
                ReportDescribesItsRun
  <2> QED BY <2>1, <2>2, <2>3, <2>4 DEF Next, Terminated
<1>2. OneRunInv => ReportDescribesItsRun
  BY DEF OneRunInv
<1> QED BY OneRunInit, <1>1, <1>2, PTL DEF Spec

=============================================================================
