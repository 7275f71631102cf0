------------------------ MODULE ParallelNodeExecutor ------------------------
(***************************************************************************)
(* The scheduler of a run: run_until_idle keeps active nodes in a FIFO     *)
(* queue, has at most MaxWorkers ticks in the thread pool, collects        *)
(* whichever ticks are done and queues their nodes again while they are    *)
(* active.  Submit, Wait, Collect and End are the loop in the caller's     *)
(* thread; Complete is a worker thread returning from a node's tick.  The  *)
(* executor reads nothing of a node but is_active.  With one worker the    *)
(* code ticks the nodes in the caller's thread and needs no futures; that  *)
(* loop is the instance MaxWorkers = 1 of this one.                        *)
(***************************************************************************)
EXTENDS Naturals, Sequences, FiniteSets, Functions

CONSTANTS
  Nodes,       \* the node identifiers
  MaxWorkers,  \* size of the thread pool
  MaxTicks     \* the watchdog: ticks the run may schedule

ASSUME ExecutorAssumption ==
  /\ IsFiniteSet(Nodes)
  /\ MaxWorkers \in Nat \ {0}
  /\ MaxTicks \in Nat

VARIABLES
  active,     \* nodes whose is_active() is true
  raised,     \* nodes whose tick returned with an exception
  ready,      \* queue of nodes to submit
  inFlight,   \* nodes with a tick submitted and not yet collected
  done,       \* the nodes in flight whose tick has returned
  collected,  \* completed: those the last wait() found, still to collect
  scheduled,  \* scheduled_ticks
  phase       \* what the loop is doing

executorVars ==
  <<active, raised, ready, inFlight, done, collected, scheduled, phase>>

Queued == Range(ready)

\* The nodes some worker thread is ticking.
Running == inFlight \ done

ExecutorTypeOK ==
  /\ active \subseteq Nodes
  /\ raised \subseteq Nodes
  /\ ready \in Seq(Nodes)
  /\ inFlight \subseteq Nodes
  /\ Cardinality(inFlight) <= MaxWorkers
  /\ collected \subseteq done /\ done \subseteq inFlight
  /\ scheduled \in 0..MaxTicks
  /\ phase \in {"fill", "collect", "ended", "failed"}

\* The queue starts in the order of the graph's vertex list, whatever it is.
ExecutorInit(initiallyActive) ==
  /\ ready \in Bijection(1..Cardinality(initiallyActive), initiallyActive)
  /\ inFlight = {}
  /\ done = {}
  /\ collected = {}
  /\ scheduled = 0
  /\ phase = "fill"

\* Mutant: is_active is tested without being called.
IsActiveAlways(n) == TRUE

\* nodes[n].is_active()
IsActive(n) == n \in active

\* Mutant: one tick too many in the pool.
MaySubmitOneMore ==
  /\ ready # <<>>
  /\ Cardinality(inFlight) <= MaxWorkers
  /\ scheduled < MaxTicks

MaySubmit ==
  /\ ready # <<>>
  /\ Cardinality(inFlight) < MaxWorkers
  /\ scheduled < MaxTicks

\* Mutant: the first node is read and not removed.
PeekReady == ready' = ready

\* ready.popleft()
PopReady == ready' = Tail(ready)

\* Mutant: the tick is not counted.
SubmitUncounted ==
  /\ phase = "fill"
  /\ MaySubmit
  /\ inFlight' =
       IF IsActive(Head(ready)) THEN inFlight \cup {Head(ready)} ELSE inFlight
  /\ PopReady
  /\ UNCHANGED <<done, collected, scheduled, phase>>

\* A node that has become inactive is dropped from the queue.
Submit ==
  /\ phase = "fill"
  /\ MaySubmit
  /\ IF IsActive(Head(ready))
     THEN /\ inFlight' = inFlight \cup {Head(ready)}
          /\ scheduled' = scheduled + 1
     ELSE UNCHANGED <<inFlight, scheduled>>
  /\ PopReady
  /\ UNCHANGED <<done, collected, phase>>

\* wait(FIRST_COMPLETED) returns the ticks that are done, at least one.
Wait ==
  /\ phase = "fill"
  /\ ~MaySubmit
  /\ done # {}
  /\ collected' = done
  /\ phase' = "collect"
  /\ UNCHANGED <<ready, inFlight, done, scheduled>>

\* Mutant: a node whose tick is done is not queued again.
DoNotRequeue(n) == ready' = ready

Requeue(n) == ready' = IF IsActive(n) THEN Append(ready, n) ELSE ready

\* Mutant: future.result() is not called.
IgnoreResult(n) == FALSE

\* future.result() throws.
ResultRaises(n) == n \in raised

\* The completed futures are a set: their nodes queue again in any order.
\* future.result() throws a tick's exception again, which ends the loop; the
\* pool still waits for the ticks that are running.
Collect ==
  /\ phase = "collect"
  /\ \E n \in collected :
       /\ collected' = collected \ {n}
       /\ done' = done \ {n}
       /\ inFlight' = inFlight \ {n}
       /\ \/ /\ ResultRaises(n)
             /\ phase' = "failed"
             /\ UNCHANGED ready
          \/ /\ ~ResultRaises(n)
             /\ Requeue(n)
             /\ phase' = IF collected = {n} THEN "fill" ELSE "collect"
  /\ UNCHANGED scheduled

\* Mutant: the loop runs while nodes are queued, not while ticks run.
NothingReady == ready = <<>>

NothingInFlight == inFlight = {}

End ==
  /\ phase = "fill"
  /\ ~MaySubmit
  /\ NothingInFlight
  /\ phase' = "ended"
  /\ UNCHANGED <<ready, inFlight, done, collected, scheduled>>

Scheduler == Submit \/ Wait \/ Collect \/ End

Complete(n) ==
  /\ n \in Running
  /\ done' = done \cup {n}
  /\ UNCHANGED <<ready, inFlight, collected, scheduled, phase>>

\* RuntimeOutcome.watchdog_exhausted
WatchdogExhausted == scheduled >= MaxTicks /\ active # {}

-----------------------------------------------------------------------------
(* The executor alone: any tick may make its node inactive, or raise.      *)

Init ==
  /\ active = Nodes
  /\ raised = {}
  /\ ExecutorInit(active)

Tick(n) ==
  /\ Complete(n)
  /\ \/ active' \in {active, active \ {n}} /\ UNCHANGED raised
     \/ raised' = raised \cup {n} /\ UNCHANGED active

Terminated ==
  /\ phase \in {"ended", "failed"}
  /\ Running = {}
  /\ UNCHANGED executorVars

Next ==
  \/ Scheduler /\ UNCHANGED <<active, raised>>
  \/ \E n \in Nodes : Tick(n)
  \/ Terminated

\* The caller's thread runs on, and no tick blocks.
Fairness ==
  /\ WF_executorVars(Scheduler /\ UNCHANGED <<active, raised>>)
  /\ \A n \in Nodes : WF_executorVars(Tick(n))

Spec == Init /\ [][Next]_executorVars /\ Fairness

-----------------------------------------------------------------------------
(* Properties                                                              *)

\* No node is queued twice, or queued while it is being ticked.  Endpoints
\* have no locks: two threads in one endpoint would corrupt it.
OneTickPerNode == IsInjective(ready) /\ Queued \cap inFlight = {}

\* Until the run ends every active node is queued or in the pool: the loop
\* never forgets a node that still has work.
NoActiveNodeForgotten ==
  phase \in {"fill", "collect"} => active \subseteq Queued \cup inFlight

\* run_until_idle returns with no tick left in the pool, and with active
\* nodes only when the watchdog has run out.
EndsIdleOrExhausted ==
  phase = "ended" => inFlight = {} /\ (active = {} \/ WatchdogExhausted)

\* A node stays inactive: it is never ticked after it has finished.
InactiveIsNotTicked ==
  [][\A n \in Nodes \ active : n \notin inFlight => n \notin inFlight']_executorVars

\* The run ends, whatever the nodes do, and leaves no thread behind.
RunEnds == <>(phase \in {"ended", "failed"} /\ Running = {})

\* No exception of a tick is lost: the caller gets it and not an outcome.
RaisedIsReported == raised # {} ~> phase = "failed"

=============================================================================
