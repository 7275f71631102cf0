--------------------- MODULE ParallelNodeExecutorProofs ---------------------
(***************************************************************************)
(* The scheduler's promises to the nodes and to its caller, for any number *)
(* of nodes and workers and any watchdog.                                  *)
(***************************************************************************)
EXTENDS ParallelNodeExecutor, FiniteSetTheorems, SequenceTheorems, TLAPS

\* The safety properties need each other: a node in the pool is not queued,
\* so queueing it again when it is collected queues it once; and the loop can
\* only end idle because it has forgotten nobody.
IInv ==
  /\ ExecutorTypeOK
  /\ OneTickPerNode
  /\ NoActiveNodeForgotten
  /\ EndsIdleOrExhausted

-----------------------------------------------------------------------------
(* The queue                                                               *)

LEMMA PoppedQueue ==
  ASSUME NEW q \in Seq(Nodes), q # <<>>, IsInjective(q)
  PROVE  /\ Tail(q) \in Seq(Nodes)
         /\ IsInjective(Tail(q))
         /\ Range(Tail(q)) = Range(q) \ {Head(q)}
         /\ Head(q) \in Range(q)
<1>1. /\ Len(q) \in Nat \ {0}
      /\ DOMAIN q = 1..Len(q)
      /\ Tail(q) \in Seq(Nodes)
      /\ DOMAIN Tail(q) = 1..(Len(q) - 1)
      /\ \A i \in 1..(Len(q) - 1) : Tail(q)[i] = q[i + 1]
      /\ Head(q) = q[1]
  BY LenProperties, HeadTailProperties, EmptySeq
<1>2. IsInjective(Tail(q))
  BY <1>1 DEF IsInjective
<1>3. ASSUME NEW x \in Range(q) \ {Head(q)}
      PROVE  x \in Range(Tail(q))
  <2>1. PICK i \in 1..Len(q) : x = q[i]
    BY <1>1 DEF Range
  <2>2. i # 1 /\ i - 1 \in 1..(Len(q) - 1) /\ x = Tail(q)[i - 1]
    BY <1>1, <2>1
  <2> QED BY <1>1, <2>2 DEF Range
<1>4. ASSUME NEW x \in Range(Tail(q))
      PROVE  x \in Range(q) \ {Head(q)}
  <2>1. PICK i \in 1..(Len(q) - 1) : x = Tail(q)[i]
    BY <1>1 DEF Range
  <2>2. i + 1 \in 1..Len(q) /\ i + 1 # 1 /\ x = q[i + 1] /\ 1 \in 1..Len(q)
    BY <1>1, <2>1
  <2> QED BY <1>1, <2>2 DEF Range, IsInjective
<1>5. Head(q) \in Range(q)
  BY <1>1 DEF Range
<1> QED BY <1>1, <1>2, <1>3, <1>4, <1>5

LEMMA LengthenedQueue ==
  ASSUME NEW q \in Seq(Nodes), NEW n \in Nodes \ Range(q), IsInjective(q)
  PROVE  /\ Append(q, n) \in Seq(Nodes)
         /\ IsInjective(Append(q, n))
         /\ Range(Append(q, n)) = Range(q) \cup {n}
<1>1. /\ Len(q) \in Nat
      /\ DOMAIN q = 1..Len(q)
      /\ Append(q, n) \in Seq(Nodes)
      /\ DOMAIN Append(q, n) = 1..(Len(q) + 1)
      /\ \A i \in 1..Len(q) : Append(q, n)[i] = q[i]
      /\ Append(q, n)[Len(q) + 1] = n
  BY LenProperties, AppendProperties
<1>2. \A i \in 1..Len(q) : q[i] \in Range(q) /\ q[i] # n
  BY <1>1 DEF Range
<1>3. IsInjective(Append(q, n))
  BY <1>1, <1>2 DEF IsInjective
<1>4. \A x \in Range(Append(q, n)) : x \in Range(q) \cup {n}
  BY <1>1, <1>2 DEF Range
<1>5. \A x \in Range(q) \cup {n} : x \in Range(Append(q, n))
  BY <1>1 DEF Range
<1> QED BY <1>1, <1>3, <1>4, <1>5

-----------------------------------------------------------------------------
(* The steps of the loop                                                   *)

LEMMA ExecutorInitKeeps ==
  ASSUME active \subseteq Nodes, raised \subseteq Nodes, ExecutorInit(active)
  PROVE  IInv
<1>1. IsFiniteSet(active) /\ Cardinality(active) \in Nat
  BY ExecutorAssumption, FS_Subset, FS_CardinalityType
<1>2. /\ ready \in [1..Cardinality(active) -> active]
      /\ IsInjective(ready)
      /\ \A n \in active : \E i \in 1..Cardinality(active) : ready[i] = n
  BY DEF ExecutorInit, Bijection, Injection, Surjection
<1>3. ready \in Seq(active)
  BY <1>1, <1>2, IsASeq
<1>4. ready \in Seq(Nodes) /\ Queued = active
  BY <1>2, <1>3, SeqMonotonic DEF Queued, Range
<1>5. ExecutorTypeOK
  BY <1>4, FS_EmptySet, ExecutorAssumption DEF ExecutorTypeOK, ExecutorInit
<1> QED BY <1>2, <1>4, <1>5
        DEF IInv, OneTickPerNode, NoActiveNodeForgotten, EndsIdleOrExhausted,
            ExecutorInit

LEMMA SubmitKeeps ==
  ASSUME IInv, Submit, active' = active, raised' = raised
  PROVE  IInv'
<1> DEFINE h == Head(ready)
<1>1. /\ ready \in Seq(Nodes) /\ IsInjective(ready) /\ ready # <<>>
      /\ ready' = Tail(ready)
  BY DEF IInv, ExecutorTypeOK, OneTickPerNode, Submit, MaySubmit, PopReady
<1>2. /\ ready' \in Seq(Nodes) /\ IsInjective(ready')
      /\ Queued' = Queued \ {h} /\ h \in Queued /\ h \in Nodes
  BY <1>1, PoppedQueue, HeadTailProperties, Zenon DEF Queued
<1>3. h \notin inFlight /\ Queued \cap inFlight = {}
  BY <1>2 DEF IInv, OneTickPerNode
<1>4. CASE h \in active
  <2>1. inFlight' = inFlight \cup {h} /\ scheduled' = scheduled + 1
    BY <1>4 DEF Submit, IsActive
  <2>2. IsFiniteSet(inFlight)
    BY ExecutorAssumption, FS_Subset DEF IInv, ExecutorTypeOK
  <2>3. /\ Cardinality(inFlight) \in Nat
        /\ Cardinality(inFlight') = Cardinality(inFlight) + 1
    BY <1>3, <2>1, <2>2, FS_AddElement, FS_CardinalityType
  <2>4. Cardinality(inFlight') <= MaxWorkers /\ scheduled' \in 0..MaxTicks
    BY <2>1, <2>3, ExecutorAssumption
    DEF IInv, ExecutorTypeOK, Submit, MaySubmit
  <2>5. ExecutorTypeOK'
    BY <1>2, <2>1, <2>4 DEF IInv, ExecutorTypeOK, Submit
  <2>6. OneTickPerNode'
    BY <1>2, <1>3, <2>1 DEF OneTickPerNode
  <2> QED BY <1>2, <2>1, <2>5, <2>6
          DEF IInv, NoActiveNodeForgotten, EndsIdleOrExhausted, Submit
<1>5. CASE h \notin active
  <2>1. inFlight' = inFlight /\ scheduled' = scheduled
    BY <1>5 DEF Submit, IsActive
  <2>2. ExecutorTypeOK'
    BY <1>2, <2>1 DEF IInv, ExecutorTypeOK, Submit
  <2>3. OneTickPerNode'
    BY <1>2, <1>3, <2>1 DEF OneTickPerNode
  <2> QED BY <1>2, <1>5, <2>1, <2>2, <2>3
          DEF IInv, NoActiveNodeForgotten, EndsIdleOrExhausted, Submit
<1> QED BY <1>4, <1>5

LEMMA WaitKeeps ==
  ASSUME IInv, Wait, active' = active, raised' = raised
  PROVE  IInv'
BY DEF IInv, ExecutorTypeOK, OneTickPerNode, NoActiveNodeForgotten,
       EndsIdleOrExhausted, Wait, Queued

LEMMA CollectKeeps ==
  ASSUME IInv, Collect, active' = active, raised' = raised
  PROVE  IInv'
<1>1. PICK n \in collected :
        /\ collected' = collected \ {n}
        /\ done' = done \ {n}
        /\ inFlight' = inFlight \ {n}
        /\ \/ phase' = "failed" /\ ready' = ready
           \/ /\ Requeue(n)
              /\ phase' \in {"fill", "collect"}
  BY Zenon DEF Collect
<1>2. /\ n \in inFlight /\ n \in Nodes
      /\ phase = "collect" /\ scheduled' = scheduled
  BY DEF IInv, ExecutorTypeOK, Collect
<1>3. IsFiniteSet(inFlight) /\ Cardinality(inFlight) \in Nat
  BY ExecutorAssumption, FS_Subset, FS_CardinalityType DEF IInv, ExecutorTypeOK
<1>4. Cardinality(inFlight') \in Nat /\ Cardinality(inFlight') <= MaxWorkers
  BY <1>1, <1>3, FS_Subset, FS_CardinalityType, ExecutorAssumption
  DEF IInv, ExecutorTypeOK
<1>5. CASE phase' = "failed" /\ ready' = ready
  BY <1>1, <1>2, <1>4, <1>5
  DEF IInv, ExecutorTypeOK, OneTickPerNode, NoActiveNodeForgotten,
      EndsIdleOrExhausted, Queued
<1>6. CASE Requeue(n) /\ phase' \in {"fill", "collect"}
  <2>1. /\ ready \in Seq(Nodes) /\ IsInjective(ready)
        /\ Queued \cap inFlight = {} /\ n \in Nodes \ Range(ready)
    BY <1>2 DEF IInv, ExecutorTypeOK, OneTickPerNode, Queued
  <2>2. /\ ready' \in Seq(Nodes) /\ IsInjective(ready')
        /\ Queued' = IF n \in active THEN Queued \cup {n} ELSE Queued
    BY <1>6, <2>1, LengthenedQueue DEF Requeue, IsActive, Queued
  <2>3. ExecutorTypeOK'
    BY <1>1, <1>2, <1>4, <1>6, <2>2 DEF IInv, ExecutorTypeOK
  <2>4. OneTickPerNode'
    BY <1>1, <2>1, <2>2 DEF OneTickPerNode
  <2>5. active \subseteq Queued \cup inFlight
    BY <1>2 DEF IInv, NoActiveNodeForgotten
  <2> QED BY <1>1, <1>6, <2>2, <2>3, <2>4, <2>5
          DEF IInv, NoActiveNodeForgotten, EndsIdleOrExhausted
<1> QED BY <1>1, <1>5, <1>6

LEMMA EndKeeps ==
  ASSUME IInv, End, active' = active, raised' = raised
  PROVE  IInv'
<1>1. inFlight = {} /\ inFlight' = {} /\ active \subseteq Queued
  BY DEF IInv, NoActiveNodeForgotten, End, NothingInFlight
<1>2. Cardinality(inFlight) < MaxWorkers
  BY <1>1, FS_EmptySet, ExecutorAssumption
<1>3. ready = <<>> \/ scheduled >= MaxTicks
  BY <1>2, ExecutorAssumption DEF End, MaySubmit, IInv, ExecutorTypeOK
<1>4. ready = <<>> => Queued = {}
  BY EmptySeq DEF Queued, Range
<1>5. EndsIdleOrExhausted'
  BY <1>1, <1>3, <1>4 DEF EndsIdleOrExhausted, WatchdogExhausted, End
<1> QED BY <1>1, <1>5
        DEF IInv, ExecutorTypeOK, OneTickPerNode, NoActiveNodeForgotten, End,
            Queued

\* A tick that returns may leave its node inactive, and no other.
LEMMA TickKeeps ==
  ASSUME IInv, NEW n \in Nodes, Tick(n)
  PROVE  IInv'
BY DEF IInv, ExecutorTypeOK, OneTickPerNode, NoActiveNodeForgotten,
       EndsIdleOrExhausted, WatchdogExhausted, Tick, Complete, Running, Queued

\* The invariant is inductive.
LEMMA IInvStep ==
  ASSUME IInv, [Next]_executorVars
  PROVE  IInv'
<1>1. CASE Scheduler /\ UNCHANGED <<active, raised>>
  <2>1. active' = active /\ raised' = raised
    BY <1>1
  <2> QED BY <1>1, <2>1, SubmitKeeps, WaitKeeps, CollectKeeps, EndKeeps
          DEF Scheduler
<1>2. CASE \E n \in Nodes : Tick(n)
  BY <1>2, TickKeeps
<1>3. CASE UNCHANGED executorVars
  BY <1>3 DEF IInv, ExecutorTypeOK, OneTickPerNode, NoActiveNodeForgotten,
              EndsIdleOrExhausted, WatchdogExhausted, Queued, executorVars
<1> QED BY <1>1, <1>2, <1>3 DEF Next, Terminated

LEMMA Inductive == Spec => []IInv
<1>1. Init => IInv
  BY ExecutorInitKeeps DEF Init
<1> QED BY <1>1, IInvStep, PTL DEF Spec

-----------------------------------------------------------------------------
(* The properties                                                          *)

\* The scheduler's state stays of its type: in particular the pool holds at
\* most MaxWorkers ticks and the watchdog is never overrun.
THEOREM ExecutorTypeCorrect == Spec => []ExecutorTypeOK
<1>1. IInv => ExecutorTypeOK
  BY DEF IInv
<1> QED BY <1>1, Inductive, PTL

\* run_until_idle never has two ticks of one node queued or under way, which
\* is what the endpoints rely on in place of locks.
THEOREM OneTickCorrect == Spec => []OneTickPerNode
<1>1. IInv => OneTickPerNode
  BY DEF IInv
<1> QED BY <1>1, Inductive, PTL

\* The loop forgets no node that still has work, whatever it collects when.
THEOREM NobodyForgottenCorrect == Spec => []NoActiveNodeForgotten
<1>1. IInv => NoActiveNodeForgotten
  BY DEF IInv
<1> QED BY <1>1, Inductive, PTL

\* run_until_idle returns with an empty pool, and with active nodes only when
\* the watchdog has run out: "idle" in its name is justified.
THEOREM EndsIdleCorrect == Spec => []EndsIdleOrExhausted
<1>1. IInv => EndsIdleOrExhausted
  BY DEF IInv
<1> QED BY <1>1, Inductive, PTL

\* A node that has become inactive is never submitted again.
THEOREM InactiveIsNotTickedCorrect == Spec => InactiveIsNotTicked
<1>1. ASSUME Next, NEW n \in Nodes \ active, n \notin inFlight
      PROVE  n \notin inFlight'
  <2>1. CASE Submit
    BY <1>1, <2>1 DEF Submit, IsActive
  <2>2. CASE Wait \/ Collect \/ End
    BY <1>1, <2>2 DEF Wait, Collect, End
  <2>3. CASE \E m \in Nodes : Tick(m)
    BY <1>1, <2>3 DEF Tick, Complete
  <2>4. CASE Terminated
    BY <1>1, <2>4 DEF Terminated, executorVars
  <2> QED BY <1>1, <2>1, <2>2, <2>3, <2>4 DEF Next, Scheduler
<1>2. [Next]_executorVars =>
        [\A n \in Nodes \ active : n \notin inFlight => n \notin inFlight']_executorVars
  BY <1>1
<1> QED BY <1>2, PTL DEF Spec, InactiveIsNotTicked

=============================================================================
