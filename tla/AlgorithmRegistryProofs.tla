----------------------- MODULE AlgorithmRegistryProofs -----------------------
(***************************************************************************)
(* The double-checked instance(), and what callers find in the instance    *)
(* they are given, for any threads, algorithms, requests and instances.    *)
(***************************************************************************)
EXTENDS AlgorithmRegistry, FiniteSetTheorems, SequenceTheorems, TLAPS

\* A thread that makes an instance, one that has the class lock, and one that
\* uses the instance it has been given.
Making(t) == pc[t] \in {"load", "copy", "publish"}
Holding(t) == pc[t] = "recheck" \/ Making(t)
Owning(t) == pc[t] \in {"use", "ask"} \cup InReload

MutualExclusion == \A t \in Threads : Holding(t) => lock = t

\* An instance is made only while there is none, and is the latest.
MadeOnce ==
  /\ \A t \in Threads :
       Making(t) => current = None /\ made > 0 /\ registry[t] = made
  /\ current = None /\ (\A t \in Threads : ~Making(t)) => made < MaxInstances

\* The instances that callers may have been given: those no thread is making.
Published ==
  {i \in Instances : i <= made /\ \A t \in Threads : Making(t) => registry[t] # i}

GivenWhenPublished ==
  /\ current \in Published \cup {None}
  /\ \A t \in Threads : Owning(t) => registry[t] \in Published

\* What a thread has copied are the entries its iterator has passed, which
\* keep their places; a copy that has ended has the built-in algorithms.
SoundCopy(t) ==
  /\ iterator[t].place <= iterator[t].size /\ iterator[t].size <= Len(builder)
  /\ definitions[t] = {builder[k] : k \in 1..iterator[t].place}

CopiesSound ==
  ~cleared =>
    /\ Imported \subseteq Registered
    /\ \A t \in Threads :
         /\ Copying(t) => SoundCopy(t)
         /\ pc[t] \in {"publish", "swap"} => Imported \subseteq definitions[t]

\* Every published instance has the built-in algorithms not removed from it.
BuiltInsHeld ==
  ~cleared =>
    \A i \in Published : Imported \ removed[i] \subseteq algorithms[i]

\* A vector under way has found all it has asked for and will go on to do so.
VectorWhole ==
  \A t \in Threads : job[t] # None /\ job[t].stage = "vector" =>
    /\ pc[t] = "ask"
    /\ t \notin disturbed =>
         /\ job[t].found = job[t].asked
         /\ job[t].wanted \subseteq algorithms[registry[t]]

AskingHasAJob == \A t \in Threads : pc[t] = "ask" => job[t] # None

InstanceInv ==
  /\ TypeOK /\ MutualExclusion /\ MadeOnce /\ GivenWhenPublished
  /\ NoneOnlyIfReset

IInv ==
  InstanceInv /\ CopiesSound /\ BuiltInsHeld /\ VectorWhole /\ AskingHasAJob

USE RegistryAssumption DEF Instances, InReload

-----------------------------------------------------------------------------
(* Types                                                                   *)

LEMMA SetAlgorithmsType ==
  ASSUME TypeOK, NEW i \in Instances, NEW S \in SUBSET Names, SetAlgorithms(i, S)
  PROVE  algorithms' \in [Instances -> SUBSET Names] /\ disturbed' \subseteq Threads
BY DEF TypeOK, SetAlgorithms

\* A job moves on, is dropped, or begins.
LEMMA JobType ==
  ASSUME TypeOK, NEW t \in Threads, NEW j \in Job \cup {None},
         job' = [job EXCEPT ![t] = j]
  PROVE  job' \in [Threads -> Job \cup {None}]
BY DEF TypeOK

LEMMA AnsweredType ==
  ASSUME NEW t, NEW n \in Names, job[t] \in Job
  PROVE  Answered(t, n) \in Job
<1> DEFINE j == job[t]
           F == IF IsRegistered(t, n) THEN j.found \cup {n} ELSE j.found
<1>1. j \in Job
  OBVIOUS
<1>2. j.asked \cup {n} \in SUBSET Names /\ F \in SUBSET Names
  BY <1>1 DEF Job
<1>3. Answered(t, n) = [j EXCEPT !.asked = j.asked \cup {n}, !.found = F]
  BY DEF Answered
<1> HIDE DEF j, F
<1> QED BY <1>1, <1>2, <1>3 DEF Job

LEMMA TypeStep ==
  ASSUME TypeOK, AskingHasAJob, GivenWhenPublished, MadeOnce, MutualExclusion,
         Next
  PROVE  TypeOK'
<1> USE DEF TypeOK, GoTo, Leave, shared, private, copying, history
<1>1. ASSUME NEW t \in Threads, Call(t) \/ Acquire(t)
      PROVE  TypeOK'
  BY <1>1 DEF Call, Acquire, InCall, copying
<1>16. ASSUME NEW t \in Threads, CopyStep(t)
       PROVE  TypeOK'
  <2>1. CASE Iterate(t)
    <3>1. Len(builder) \in Nat
      OBVIOUS
    <3>2. iterator' \in [Threads -> [size : Nat, place : Nat]]
      BY <2>1, <3>1 DEF Iterate
    <3>3. definitions' \in [Threads -> SUBSET Names]
      BY <2>1 DEF Iterate
    <3>4. pc' \in [Threads -> InCall \cup InReload \cup {"idle", "use", "ask"}]
      BY <2>1 DEF Iterate, InCall
    <3> QED BY <2>1, <3>2, <3>3, <3>4 DEF Iterate
  <2>2. CASE TakeEntry(t)
    <3> DEFINE next == iterator[t].place + 1
    <3>1. next \in Nat /\ next \in 1..Len(builder) /\ builder[next] \in Names
      BY <2>2 DEF TakeEntry
    <3>2. iterator' = [iterator EXCEPT ![t].place = next]
      BY <2>2 DEF TakeEntry
    <3>3. iterator' \in [Threads -> [size : Nat, place : Nat]]
      BY <3>1, <3>2
    <3>4. definitions' \in [Threads -> SUBSET Names]
      BY <2>2, <3>1 DEF TakeEntry
    <3> QED BY <2>2, <3>3, <3>4 DEF TakeEntry
  <2>3. CASE EndCopy(t)
    BY <2>3 DEF EndCopy, copying, InCall
  <2>4. CASE FailCopy(t)
    <3>1. made' \in 0..MaxInstances /\ lock' \in Threads \cup {None}
      BY <2>4 DEF FailCopy, ReleaseLock, MadeOnce, Making
    <3> QED BY <2>4, <3>1 DEF FailCopy, Forget, NoIterator
  <2> QED BY <1>16, <2>1, <2>2, <2>3, <2>4 DEF CopyStep
<1>2. ASSUME NEW t \in Threads, Recheck(t)
      PROVE  TypeOK'
  <2>1. StillMissing => made < MaxInstances
    BY <1>2 DEF Recheck, StillMissing, MadeOnce, MutualExclusion, Making,
                Holding
  <2>2. pc' \in [Threads -> InCall \cup InReload \cup {"idle", "use", "ask"}]
    BY <1>2 DEF Recheck, InCall
  <2>3. /\ made' \in 0..MaxInstances /\ lock' \in Threads \cup {None}
        /\ registry' \in [Threads -> Instances \cup {None}]
    <3>1. CASE StillMissing
      <4>1. made' = made + 1 /\ lock' = lock
        BY <1>2, <3>1 DEF Recheck
      <4>2. made' \in 1..MaxInstances
        BY <2>1, <3>1, <4>1
      <4>3. registry' = [registry EXCEPT ![t] = made']
        BY <1>2, <3>1 DEF Recheck
      <4> QED BY <4>1, <4>2, <4>3
    <3>2. CASE ~StillMissing
      BY <1>2, <3>2 DEF Recheck
    <3> QED BY <3>1, <3>2
  <2> QED BY <1>2, <2>2, <2>3 DEF Recheck
<1>3. ASSUME NEW t \in Threads, Publish(t)
      PROVE  TypeOK'
  <2>1. registry[t] \in Instances /\ definitions[t] \in SUBSET Names
    BY <1>3 DEF Publish, MadeOnce, Making
  <2>2. algorithms' \in [Instances -> SUBSET Names] /\ disturbed' \subseteq Threads
    BY <1>3, <2>1, SetAlgorithmsType DEF Publish
  <2> QED BY <1>3, <2>1, <2>2
          DEF Publish, NewInstance, ReleaseLock, Forget, NoIterator, InCall
<1>4. ASSUME NEW t \in Threads, ResetInstance(t)
      PROVE  TypeOK'
  BY <1>4 DEF ResetInstance
<1>5. ASSUME NEW t \in Threads, Owning(t)
      PROVE  registry[t] \in Instances
  BY <1>5 DEF GivenWhenPublished, Published
<1>6. ASSUME NEW t \in Threads, Return(t)
      PROVE  TypeOK'
  <2>1. job' \in [Threads -> Job \cup {None}]
    BY <1>6 DEF Return
  <2> QED BY <1>6, <2>1 DEF Return, InCall
<1>7. ASSUME NEW t \in Threads, NEW n \in Names, Register(t, n) \/ Unregister(t, n)
      PROVE  TypeOK'
  <2> DEFINE i == registry[t]
  <2>1. i \in Instances /\ algorithms[i] \subseteq Names /\ removed[i] \subseteq Imported
    BY <1>5, <1>7 DEF Register, Unregister, Using, Owning
  <2>2. PICK S \in SUBSET Names, R \in SUBSET Imported :
          SetAlgorithms(i, S) /\ removed' = [removed EXCEPT ![i] = R]
    <3>1. CASE Register(t, n)
      <4>1. removed' = [removed EXCEPT ![i] = removed[i] \ {n}]
        BY <3>1 DEF Register
      <4> QED BY <2>1, <3>1, <4>1 DEF Register
    <3>2. CASE Unregister(t, n)
      <4> DEFINE R == removed[i] \cup ({n} \cap Imported \cap algorithms[i])
      <4>1. removed' = [removed EXCEPT ![i] = R]
        BY <3>2 DEF Unregister
      <4>2. R \in SUBSET Imported
        BY <2>1
      <4>3. algorithms[i] \ {n} \in SUBSET Names
        BY <2>1
      <4> QED BY <3>2, <4>1, <4>2, <4>3 DEF Unregister
    <3> QED BY <1>7, <3>1, <3>2
  <2>3. algorithms' \in [Instances -> SUBSET Names] /\ disturbed' \subseteq Threads
    BY <2>1, <2>2, SetAlgorithmsType
  <2>4. removed' \in [Instances -> SUBSET Imported]
    BY <2>2
  <2>5. /\ UNCHANGED <<builder, current, lock, made, copying, job, cleared,
                       interrupted>>
        /\ pc' = [pc EXCEPT ![t] = "idle"]
        /\ registry' = [registry EXCEPT ![t] = None]
    BY <1>7 DEF Register, Unregister
  <2> QED BY <2>3, <2>4, <2>5
<1>8. ASSUME NEW t \in Threads, Reset(t) \/ Reload(t)
      PROVE  TypeOK'
  <2>1. registry[t] \in Instances /\ SetAlgorithms(registry[t], {})
    BY <1>5, <1>8 DEF Reset, Reload, Using, Owning
  <2>2. algorithms' \in [Instances -> SUBSET Names] /\ disturbed' \subseteq Threads
    BY <2>1, SetAlgorithmsType
  <2>3. removed' \in [Instances -> SUBSET Imported]
    BY <1>8, <2>1 DEF Reset, Reload
  <2> QED BY <1>8, <2>2, <2>3 DEF Reset, Reload
<1>9. ASSUME NEW t \in Threads, Swap(t)
      PROVE  TypeOK'
  <2>1. /\ registry[t] \in Instances /\ definitions[t] \in SUBSET Names
        /\ SetAlgorithms(registry[t], definitions[t])
    BY <1>5, <1>9 DEF Swap, Loaded, Owning
  <2>2. algorithms' \in [Instances -> SUBSET Names] /\ disturbed' \subseteq Threads
    BY <2>1, SetAlgorithmsType
  <2> QED BY <1>9, <2>1, <2>2 DEF Swap, Forget, NoIterator
<1>10. ASSUME NEW t \in Threads, NEW S \in Requests, Prepare(t, S)
       PROVE  TypeOK'
  <2>1. NewJob("vector", S) \in Job
    BY DEF NewJob, Job, Stages
  <2>2. job' \in [Threads -> Job \cup {None}]
    BY <1>10, <2>1, JobType DEF Prepare
  <2> QED BY <1>10, <2>2 DEF Prepare, Using
<1>11. ASSUME NEW t \in Threads, pc[t] = "ask"
       PROVE  /\ job[t].stage \in Stages
              /\ job[t].wanted \subseteq Names
              /\ job[t].asked \subseteq Names
              /\ job[t].found \subseteq Names
              /\ job[t] \in Job
  BY <1>11 DEF AskingHasAJob, Job
<1>12. ASSUME NEW t \in Threads, Resume(t) \/ EndStage(t)
       PROVE  TypeOK'
  <2>1. job' \in [Threads -> Job \cup {None}]
    <3>1. CASE Resume(t)
      BY <3>1 DEF Resume
    <3>2. CASE EndStage(t)
      <4>1. pc[t] = "ask" /\ job' = [job EXCEPT ![t] = NextJob(job[t])]
        BY <3>2 DEF EndStage
      <4>2. NextJob(job[t]) \in Job \cup {None}
        BY <1>11, <4>1 DEF NextJob, NewJob, Job, Stages
      <4> QED BY <4>1, <4>2, JobType
    <3> QED BY <1>12, <3>1, <3>2
  <2> QED BY <1>12, <2>1 DEF Resume, EndStage
<1>13. ASSUME NEW t \in Threads, NEW n \in Names, Ask(t, n)
       PROVE  TypeOK'
  <2>1. job' \in [Threads -> Job \cup {None}]
    <3>1. Answered(t, n) \in Job
      BY <1>11, <1>13, AnsweredType DEF Ask
    <3> QED BY <1>13, <3>1, JobType DEF Ask
  <2> QED BY <1>13, <2>1 DEF Ask
<1>14. ASSUME NEW n \in Names, BuilderRegister(n)
       PROVE  TypeOK'
  BY <1>14, AppendProperties DEF BuilderRegister, WithEntry
<1>15. CASE BuilderClear
  BY <1>15 DEF BuilderClear
<1> QED BY <1>1, <1>2, <1>3, <1>4, <1>6, <1>7, <1>8, <1>9, <1>10, <1>12, <1>13,
           <1>14, <1>15, <1>16
        DEF Next, InstanceStep, UseStep

-----------------------------------------------------------------------------
(* instance() and reset_instance()                                         *)

\* A thread that uses its instance, and the builder, leave alone what
\* instance() is about; the thread keeps its instance or gives it up.
UseFramed(t) ==
  /\ UNCHANGED <<current, lock, made, interrupted>>
  /\ Owning(t)
  /\ (Owning(t)' /\ registry'[t] = registry[t]) \/ pc'[t] = "idle"
  /\ \A u \in Threads \ {t} : pc'[u] = pc[u] /\ registry'[u] = registry[u]

LEMMA UseFrame ==
  ASSUME TypeOK, NEW t \in Threads, UseStep(t)
  PROVE  UseFramed(t)
<1> USE DEF UseFramed, TypeOK, GoTo, Leave, Owning, Using, shared, private,
            copying, history
<1>1. ASSUME NEW n \in Names, Register(t, n) \/ Unregister(t, n)
      PROVE  UseFramed(t)
  BY <1>1 DEF Register, Unregister
<1>2. ASSUME NEW n \in Names, Ask(t, n)
      PROVE  UseFramed(t)
  BY <1>2 DEF Ask
<1>3. ASSUME NEW S \in Requests, Prepare(t, S)
      PROVE  UseFramed(t)
  BY <1>3 DEF Prepare
<1>4. CASE Reset(t) \/ Reload(t) \/ Swap(t)
  BY <1>4 DEF Reset, Reload, Swap
<1>5. CASE Resume(t) \/ EndStage(t)
  BY <1>5 DEF Resume, EndStage
<1> QED BY <1>1, <1>2, <1>3, <1>4, <1>5 DEF UseStep

\* A copy changes only what is the thread's own; if it fails the thread gives
\* up its instance, and the class lock if it was making one.
CopyFramed(t) ==
  /\ UNCHANGED <<builder, current, algorithms, history>>
  /\ \A u \in Threads \ {t} :
       /\ pc'[u] = pc[u] /\ registry'[u] = registry[u] /\ job'[u] = job[u]
       /\ definitions'[u] = definitions[u] /\ iterator'[u] = iterator[u]
  /\ \/ /\ UNCHANGED <<lock, made, registry, job>>
        /\ \/ pc[t] \in {"load", "copy"} /\ pc'[t] \in {"copy", "publish"}
           \/ pc[t] \in {"reload", "recopy"} /\ pc'[t] \in {"recopy", "swap"}
     \/ /\ pc[t] = "copy" /\ lock' = None /\ made' = made - 1
        /\ pc'[t] = "idle" /\ registry'[t] = None /\ job'[t] = None
     \/ /\ pc[t] = "recopy" /\ UNCHANGED <<lock, made>>
        /\ pc'[t] = "idle" /\ registry'[t] = None /\ job'[t] = None

LEMMA CopyFrame ==
  ASSUME TypeOK, NEW t \in Threads, CopyStep(t)
  PROVE  CopyFramed(t)
<1> USE DEF CopyFramed, TypeOK, GoTo, Leave, shared, copying, history
<1>1. CASE Iterate(t)
  BY <1>1 DEF Iterate
<1>2. CASE TakeEntry(t)
  BY <1>2 DEF TakeEntry, Copying
<1>3. CASE EndCopy(t)
  BY <1>3 DEF EndCopy
<1>4. CASE FailCopy(t)
  BY <1>4 DEF FailCopy, Copying, ReleaseLock, Forget
<1> QED BY <1>1, <1>2, <1>3, <1>4 DEF CopyStep

\* What instance() keeps: one thread at a time makes an instance, and only
\* when there is none; nobody is given one that is being made.
LEMMA InstanceInvStep ==
  ASSUME InstanceInv, AskingHasAJob, Next
  PROVE  InstanceInv'
<1> USE DEF InstanceInv, GoTo, Holding, Making, Owning, shared, private,
            copying, history
<1>0. TypeOK'
  BY TypeStep
<1>1. ASSUME NEW t \in Threads, Call(t) \/ Acquire(t)
      PROVE  InstanceInv'
  <2>1. /\ UNCHANGED <<current, made, registry, interrupted>>
        /\ ~Making(t) /\ ~Making(t)' /\ ~Owning(t)'
        /\ \A u \in Threads \ {t} : pc'[u] = pc[u]
        /\ pc'[t] # "return" \/ current # None
    BY <1>1 DEF Call, Acquire, TypeOK
  <2>2. MutualExclusion'
    BY <1>1, <2>1 DEF Call, Acquire, TypeOK, MutualExclusion
  <2>3. MadeOnce' /\ NoneOnlyIfReset'
    BY <2>1 DEF MadeOnce, NoneOnlyIfReset
  <2>4. Published' = Published
    BY <2>1 DEF Published
  <2> QED BY <1>0, <2>1, <2>2, <2>3, <2>4 DEF GivenWhenPublished
<1>2. ASSUME NEW t \in Threads, Recheck(t)
      PROVE  InstanceInv'
  <2>1. \A u \in Threads \ {t} :
          ~Holding(u) /\ pc'[u] = pc[u] /\ registry'[u] = registry[u]
    BY <1>2 DEF Recheck, TypeOK, MutualExclusion
  <2>2. /\ UNCHANGED <<current, interrupted>> /\ ~Making(t) /\ ~Owning(t)'
        /\ made \in 0..MaxInstances /\ pc[t] = "recheck"
    BY <1>2 DEF Recheck, TypeOK
  <2>3. CASE StillMissing
    <3>1. /\ made' = made + 1 /\ registry'[t] = made' /\ pc'[t] = "load"
          /\ current = None /\ lock' = lock
      BY <1>2, <2>3 DEF Recheck, StillMissing, TypeOK
    <3>2. Published \subseteq Published'
      BY <2>1, <2>2, <3>1 DEF Published
    <3> QED BY <1>0, <2>1, <2>2, <3>1, <3>2
            DEF MutualExclusion, MadeOnce, GivenWhenPublished, NoneOnlyIfReset
  <2>4. CASE ~StillMissing
    <3>1. /\ UNCHANGED <<made, registry>> /\ pc'[t] = "return"
          /\ current # None /\ lock' = None
      BY <1>2, <2>4 DEF Recheck, StillMissing, TypeOK
    <3>2. Published' = Published
      BY <2>1, <2>2, <3>1 DEF Published
    <3> QED BY <1>0, <2>1, <2>2, <3>1, <3>2
            DEF MutualExclusion, MadeOnce, GivenWhenPublished, NoneOnlyIfReset
  <2> QED BY <2>3, <2>4
<1>3. ASSUME NEW t \in Threads, Publish(t)
      PROVE  InstanceInv'
  BY <1>0, <1>3 DEF Publish, NewInstance, ReleaseLock, TypeOK,
                    MutualExclusion, MadeOnce, GivenWhenPublished, Published,
                    NoneOnlyIfReset
<1>4. ASSUME NEW t \in Threads, Return(t)
      PROVE  InstanceInv'
  BY <1>0, <1>4 DEF Return, TypeOK, MutualExclusion, MadeOnce,
                    GivenWhenPublished, Published, NoneOnlyIfReset
<1>5. ASSUME NEW t \in Threads, ResetInstance(t)
      PROVE  InstanceInv'
  BY <1>0, <1>5 DEF ResetInstance, TypeOK, MutualExclusion, MadeOnce,
                    GivenWhenPublished, Published, NoneOnlyIfReset
<1>6. ASSUME NEW t \in Threads, UseStep(t)
      PROVE  InstanceInv'
  BY <1>0, <1>6, UseFrame DEF UseFramed, MutualExclusion, MadeOnce, GivenWhenPublished,
                    Published, NoneOnlyIfReset
<1>7. CASE BuilderClear \/ \E n \in Names : BuilderRegister(n)
  BY <1>0, <1>7 DEF BuilderClear, BuilderRegister, MutualExclusion, MadeOnce,
                    GivenWhenPublished, Published, NoneOnlyIfReset
<1>8. ASSUME NEW t \in Threads, CopyStep(t)
      PROVE  InstanceInv'
  <2>1. CopyFramed(t)
    BY <1>8, CopyFrame
  <2>2. CASE UNCHANGED <<lock, made, registry, job>>
    BY <1>0, <2>1, <2>2 DEF CopyFramed, MutualExclusion, MadeOnce,
                            GivenWhenPublished, Published, NoneOnlyIfReset
  <2>3. CASE /\ pc[t] = "copy" /\ lock' = None /\ made' = made - 1
             /\ pc'[t] = "idle" /\ registry'[t] = None
    <3>1. \A u \in Threads \ {t} : ~Holding(u)
      BY <2>3 DEF MutualExclusion
    <3>2. current = None /\ made \in 1..MaxInstances /\ registry[t] = made
      BY <2>3 DEF MadeOnce, TypeOK
    <3>3. \A u \in Threads : ~Holding(u)'
      BY <2>1, <2>3, <3>1 DEF CopyFramed
    <3>4. Published \subseteq Published'
      BY <2>3, <3>2, <3>3 DEF Published
    <3>5. MutualExclusion' /\ MadeOnce'
      BY <2>1, <2>3, <3>2, <3>3 DEF CopyFramed, MutualExclusion, MadeOnce
    <3>6. GivenWhenPublished' /\ NoneOnlyIfReset'
      BY <2>1, <2>3, <3>2, <3>4
      DEF CopyFramed, GivenWhenPublished, NoneOnlyIfReset
    <3> QED BY <1>0, <3>5, <3>6
  <2>4. CASE /\ pc[t] = "recopy" /\ UNCHANGED <<lock, made>>
             /\ pc'[t] = "idle" /\ registry'[t] = None
    BY <1>0, <2>1, <2>4 DEF CopyFramed, MutualExclusion, MadeOnce,
                            GivenWhenPublished, Published, NoneOnlyIfReset
  <2> QED BY <2>1, <2>2, <2>3, <2>4 DEF CopyFramed
<1> QED BY <1>1, <1>2, <1>3, <1>4, <1>5, <1>6, <1>7, <1>8 DEF Next, InstanceStep

-----------------------------------------------------------------------------
(* What an instance holds                                                  *)

LEMMA SetAlgorithmsEffect ==
  ASSUME TypeOK, NEW i \in Instances, NEW S, SetAlgorithms(i, S)
  PROVE  /\ algorithms'[i] = S
         /\ \A k \in Instances \ {i} : algorithms'[k] = algorithms[k]
         /\ disturbed \subseteq disturbed'
         /\ \A u \in Threads :
              pc[u] = "ask" /\ registry[u] = i /\ u \notin disturbed'
                => algorithms[i] \subseteq S
BY DEF TypeOK, SetAlgorithms

\* The instance a thread uses is one that SetAlgorithmsEffect is about.
LEMMA OwnInstance ==
  ASSUME InstanceInv, NEW t \in Threads, Owning(t)
  PROVE  registry[t] \in Instances
BY DEF InstanceInv, GivenWhenPublished, Published

\* Nothing but instance() publishes an instance.
LEMMA PublishedFrame ==
  ASSUME InstanceInv, NEW t \in Threads,
         UseStep(t) \/ Call(t) \/ Acquire(t) \/ Recheck(t) \/ CopyStep(t)
           \/ Return(t) \/ ResetInstance(t)
  PROVE  Published' \subseteq Published
<1> USE DEF InstanceInv, GoTo, Making, shared, private, copying, history,
            TypeOK, Published
<1>1. CASE UseStep(t)
  BY <1>1, UseFrame DEF UseFramed, Owning
<1>2. CASE Call(t) \/ Acquire(t) \/ Return(t) \/ ResetInstance(t)
  BY <1>2 DEF Call, Acquire, Return, ResetInstance
<1>3. CASE Recheck(t)
  <2>1. \A u \in Threads \ {t} : pc'[u] = pc[u] /\ registry'[u] = registry[u]
    BY <1>3 DEF Recheck
  <2>2. \/ made' = made /\ pc'[t] = "return"
        \/ made' = made + 1 /\ registry'[t] = made' /\ pc'[t] = "load"
    BY <1>3 DEF Recheck
  <2>3. SUFFICES ASSUME NEW i \in Published' PROVE i \in Published
    OBVIOUS
  <2>4. i \in Instances /\ i <= made'
    OBVIOUS
  <2>5. \A u \in Threads : Making(u) => registry[u] # i
    BY <1>3, <2>1 DEF Recheck
  <2>6. i <= made
    BY <2>2, <2>4
  <2> QED BY <2>4, <2>5, <2>6
<1>4. CASE CopyStep(t)
  <2>1. CopyFramed(t)
    BY <1>4, CopyFrame
  <2>2. CASE UNCHANGED <<made, registry>> /\ (Making(t) => Making(t)')
    BY <2>1, <2>2 DEF CopyFramed
  <2>3. CASE pc[t] = "copy" /\ made' = made - 1
    <3>1. made \in 1..MaxInstances /\ registry[t] = made
      BY <2>3 DEF MadeOnce
    <3>2. SUFFICES ASSUME NEW i \in Published' PROVE i \in Published
      OBVIOUS
    <3>3. i \in Instances /\ i <= made /\ i # registry[t]
      BY <2>3, <3>1
    <3>4. ASSUME NEW u \in Threads \ {t}, Making(u) PROVE registry[u] # i
      BY <2>1, <3>4 DEF CopyFramed
    <3> QED BY <3>3, <3>4
  <2>4. CASE pc[t] = "recopy" /\ made' = made
    BY <2>1, <2>4 DEF CopyFramed
  <2> QED BY <2>1, <2>2, <2>3, <2>4 DEF CopyFramed
<1> QED BY <1>1, <1>2, <1>3, <1>4

\* An entry keeps its place for as long as the builder is not cleared.
LEMMA CopiesStep ==
  ASSUME TypeOK, CopiesSound, Next
  PROVE  CopiesSound'
<1> SUFFICES ASSUME ~cleared'
             PROVE  /\ Imported \subseteq Registered'
                    /\ \A u \in Threads :
                         /\ Copying(u)' => SoundCopy(u)'
                         /\ pc'[u] \in {"publish", "swap"} =>
                              Imported \subseteq definitions'[u]
  BY DEF CopiesSound
<1> USE DEF GoTo, Leave, shared, private, copying, history, TypeOK
<1>1. ~cleared
  BY DEF Next, InstanceStep, CopyStep, UseStep, Call, Acquire, Recheck, Iterate,
         TakeEntry, EndCopy, FailCopy, Publish, Return, ResetInstance, Reload,
         Swap, Reset, Register, Unregister, Ask, Prepare, Resume, EndStage,
         BuilderRegister, BuilderClear
<1>2. /\ Imported \subseteq Registered
      /\ \A u \in Threads :
           /\ Copying(u) => SoundCopy(u)
           /\ pc[u] \in {"publish", "swap"} => Imported \subseteq definitions[u]
  BY <1>1 DEF CopiesSound
<1>3. ASSUME NEW t \in Threads, builder' = builder,
             pc'[t] \notin {"copy", "recopy", "publish", "swap"},
             \A u \in Threads \ {t} :
               /\ pc'[u] = pc[u] /\ definitions'[u] = definitions[u]
               /\ iterator'[u] = iterator[u]
      PROVE  CopiesSound'
  <2>1. Registered' = Registered
    BY <1>3 DEF Registered
  <2>2. ASSUME NEW u \in Threads, Copying(u)' PROVE SoundCopy(u)'
    <3>1. u # t
      BY <1>3, <2>2 DEF Copying
    <3>2. SoundCopy(u)
      BY <1>2, <1>3, <2>2, <3>1 DEF Copying
    <3> QED BY <1>3, <3>1, <3>2 DEF SoundCopy
  <2> QED BY <1>2, <1>3, <2>1, <2>2 DEF CopiesSound
<1>4. ASSUME NEW t \in Threads,
             Call(t) \/ Acquire(t) \/ Recheck(t) \/ Return(t) \/ Publish(t)
               \/ ResetInstance(t)
      PROVE  CopiesSound'
  <2>1. /\ builder' = builder
        /\ pc'[t] \notin {"copy", "recopy", "publish", "swap"}
        /\ \A u \in Threads \ {t} :
             /\ pc'[u] = pc[u] /\ definitions'[u] = definitions[u]
             /\ iterator'[u] = iterator[u]
    BY <1>4 DEF Call, Acquire, Recheck, Return, Publish, ResetInstance, Forget
  <2> QED BY <1>3, <2>1
<1>5. ASSUME NEW t \in Threads, UseStep(t)
      PROVE  CopiesSound'
  <2> DEFINE Elsewhere ==
        /\ builder' = builder
        /\ pc'[t] \notin {"copy", "recopy", "publish", "swap"}
        /\ \A u \in Threads \ {t} :
             /\ pc'[u] = pc[u] /\ definitions'[u] = definitions[u]
             /\ iterator'[u] = iterator[u]
  <2>1. ASSUME Reload(t) \/ Swap(t) \/ Reset(t) \/ Resume(t) \/ EndStage(t)
        PROVE  Elsewhere
    BY <2>1 DEF Reload, Swap, Forget, Reset, Resume, EndStage
  <2>2. ASSUME NEW n \in Names, Register(t, n) \/ Unregister(t, n) \/ Ask(t, n)
        PROVE  Elsewhere
    BY <2>2 DEF Register, Unregister, Ask
  <2>3. ASSUME NEW S \in Requests, Prepare(t, S)
        PROVE  Elsewhere
    BY <2>3 DEF Prepare
  <2>4. Elsewhere
    BY <1>5, <2>1, <2>2, <2>3 DEF UseStep
  <2> QED BY <1>3, <2>4
<1>6. ASSUME NEW t \in Threads, CopyStep(t)
      PROVE  CopiesSound'
  <2>1. /\ builder' = builder
        /\ \A u \in Threads \ {t} :
             /\ pc'[u] = pc[u] /\ definitions'[u] = definitions[u]
             /\ iterator'[u] = iterator[u]
    BY <1>6, CopyFrame DEF CopyFramed
  <2>2. /\ Copying(t)' => SoundCopy(t)'
        /\ pc'[t] \in {"publish", "swap"} => Imported \subseteq definitions'[t]
    <3>1. CASE Iterate(t)
      <4>1. /\ pc'[t] \in {"copy", "recopy"} /\ definitions'[t] = {}
            /\ iterator'[t] = [size |-> Len(builder), place |-> 0]
        BY <3>1 DEF Iterate
      <4> QED BY <2>1, <4>1 DEF SoundCopy
    <3>2. CASE TakeEntry(t)
      <4> DEFINE next == iterator[t].place + 1
      <4>1. /\ SoundCopy(t) /\ SizeKept(t) /\ next <= Len(builder)
            /\ pc' = pc /\ pc[t] \in {"copy", "recopy"}
            /\ definitions'[t] = definitions[t] \cup {builder[next]}
            /\ iterator'[t] = [iterator[t] EXCEPT !.place = next]
        BY <1>2, <3>2 DEF TakeEntry, Copying
      <4>2. iterator'[t].place = next /\ iterator'[t].size = iterator[t].size
        BY <4>1
      <4>3. 1..next = 1..iterator[t].place \cup {next}
        OBVIOUS
      <4>4. definitions'[t] = {builder[k] : k \in 1..next}
        BY <4>1, <4>3 DEF SoundCopy
      <4>5. iterator[t].size = Len(builder) /\ Len(builder') = Len(builder)
        BY <2>1, <4>1 DEF SizeKept
      <4>6. definitions'[t] = {builder'[k] : k \in 1..iterator'[t].place}
        BY <2>1, <4>2, <4>4
      <4>7. SoundCopy(t)'
        BY <4>1, <4>2, <4>5, <4>6 DEF SoundCopy
      <4> QED BY <4>1, <4>7
    <3>3. CASE EndCopy(t)
      <4>1. /\ SoundCopy(t) /\ iterator[t].place = Len(builder)
            /\ definitions' = definitions
            /\ pc'[t] \in {"publish", "swap"}
        BY <1>2, <3>3 DEF EndCopy, Copying
      <4>2. Registered = {builder[k] : k \in 1..Len(builder)}
        BY DEF Registered, Range
      <4> QED BY <1>2, <4>1, <4>2 DEF SoundCopy, Copying
    <3>4. CASE FailCopy(t)
      BY <3>4 DEF FailCopy, Copying
    <3> QED BY <1>6, <3>1, <3>2, <3>3, <3>4 DEF CopyStep
  <2>3. ASSUME NEW u \in Threads \ {t}
        PROVE  /\ Copying(u)' => SoundCopy(u)'
               /\ pc'[u] \in {"publish", "swap"} =>
                    Imported \subseteq definitions'[u]
    BY <1>2, <2>1 DEF Copying, SoundCopy
  <2>4. Registered' = Registered
    BY <2>1 DEF Registered
  <2> QED BY <1>2, <2>2, <2>3, <2>4 DEF CopiesSound
<1>7. ASSUME NEW n \in Names, BuilderRegister(n)
      PROVE  CopiesSound'
  <2>1. UNCHANGED <<pc, definitions, iterator>> /\ builder' = WithEntry(n)
    BY <1>7 DEF BuilderRegister
  <2>2. CASE n \in Registered
    <3>1. builder' = builder
      BY <2>1, <2>2 DEF WithEntry
    <3> QED BY <1>2, <2>1, <3>1 DEF CopiesSound, Registered, Copying, SoundCopy
  <2>3. CASE n \notin Registered
    <3>1. builder' = Append(builder, n)
      BY <2>1, <2>3 DEF WithEntry
    <3>2. /\ Len(builder') = Len(builder) + 1
          /\ \A k \in 1..Len(builder) : builder'[k] = builder[k]
          /\ builder' \in Seq(Names)
      BY <3>1, AppendProperties
    <3>3. Registered \subseteq Registered'
      <4> SUFFICES ASSUME NEW x \in Registered PROVE x \in Registered'
        OBVIOUS
      <4>1. PICK k \in 1..Len(builder) : x = builder[k]
        BY DEF Registered, Range
      <4>2. k \in DOMAIN builder' /\ builder'[k] = x
        BY <3>2, <4>1
      <4> QED BY <4>2 DEF Registered, Range
    <3>4. ASSUME NEW u \in Threads, Copying(u)'
          PROVE  SoundCopy(u)'
      <4>1. SoundCopy(u)
        BY <1>2, <2>1, <3>4 DEF Copying
      <4>2. \A k \in 1..iterator[u].place : builder'[k] = builder[k]
        BY <3>2, <4>1 DEF SoundCopy
      <4> QED BY <2>1, <3>2, <4>1, <4>2 DEF SoundCopy
    <3> QED BY <1>2, <2>1, <3>3, <3>4 DEF CopiesSound
  <2> QED BY <2>2, <2>3
<1>8. ~BuilderClear
  BY DEF BuilderClear
<1>9. CopiesSound'
  BY <1>4, <1>5, <1>6, <1>7, <1>8 DEF Next, InstanceStep
<1> QED BY <1>9 DEF CopiesSound

LEMMA BuiltInsStep ==
  ASSUME InstanceInv, CopiesSound, BuiltInsHeld, Next
  PROVE  BuiltInsHeld'
<1> SUFFICES ASSUME ~cleared'
             PROVE  \A i \in Published' : Imported \ removed'[i] \subseteq algorithms'[i]
  BY DEF BuiltInsHeld
<1> USE DEF GoTo, Leave, shared, private, copying, history
<1>0. TypeOK
  BY DEF InstanceInv
<1>1. ~cleared
  BY DEF Next, InstanceStep, CopyStep, UseStep, Call, Acquire, Recheck, Iterate,
         TakeEntry, EndCopy, FailCopy, Publish, Return, ResetInstance, Reload,
         Swap, Reset, Register, Unregister, Ask, Prepare, Resume, EndStage,
         BuilderRegister, BuilderClear
<1>2. \A i \in Published : Imported \ removed[i] \subseteq algorithms[i]
  BY <1>1 DEF BuiltInsHeld
<1>3. Published \subseteq Instances
  BY DEF Published
<1>4. ASSUME NEW t \in Threads,
             Call(t) \/ Acquire(t) \/ Recheck(t) \/ CopyStep(t) \/ Return(t)
               \/ ResetInstance(t)
      PROVE  BuiltInsHeld'
  <2>1. Published' \subseteq Published
    BY <1>4, PublishedFrame
  <2>2. UNCHANGED <<algorithms, removed>>
    BY <1>0, <1>4, CopyFrame DEF Call, Acquire, Recheck, CopyFramed, Return,
                                 ResetInstance
  <2> QED BY <1>2, <2>1, <2>2 DEF BuiltInsHeld
<1>5. ASSUME NEW t \in Threads, Publish(t)
      PROVE  BuiltInsHeld'
  <2> DEFINE i == registry[t]
  <2>1. i \in Instances /\ Imported \subseteq definitions[t]
    BY <1>1, <1>5 DEF Publish, InstanceInv, MadeOnce, Making, TypeOK, CopiesSound
  <2>2. /\ algorithms'[i] = definitions[t]
        /\ \A k \in Instances \ {i} : algorithms'[k] = algorithms[k]
    BY <1>0, <1>5, <2>1, SetAlgorithmsEffect DEF Publish
  <2>3. Published' \subseteq Published \cup {i} /\ removed' = removed
    BY <1>0, <1>5 DEF Publish, Published, Making, TypeOK
  <2> QED BY <1>2, <1>3, <2>1, <2>2, <2>3 DEF BuiltInsHeld
<1>6. ASSUME NEW t \in Threads, UseStep(t)
      PROVE  BuiltInsHeld'
  <2> DEFINE i == registry[t]
  <2>0. /\ Published' \subseteq Published
        /\ i \in Instances
        /\ \A u \in Threads \ {t} :
              pc'[u] = pc[u] /\ registry'[u] = registry[u]
    BY <1>0, <1>6, PublishedFrame, UseFrame, OwnInstance DEF UseFramed
  <2>1. CASE Resume(t) \/ EndStage(t) \/ (\E S \in Requests : Prepare(t, S))
               \/ (\E n \in Names : Ask(t, n))
    BY <1>0, <1>2, <2>0, <2>1
    DEF Resume, EndStage, Prepare, Ask, Using, BuiltInsHeld, TypeOK
  <2>2. ASSUME NEW n \in Names, Register(t, n) \/ Unregister(t, n)
        PROVE  BuiltInsHeld'
    <3>1. /\ algorithms'[i] \in {algorithms[i] \cup {n}, algorithms[i] \ {n}}
          /\ \A k \in Instances \ {i} : algorithms'[k] = algorithms[k]
      BY <1>0, <2>0, <2>2, SetAlgorithmsEffect DEF Register, Unregister
    <3>2. Imported \ removed[i] \subseteq algorithms[i] =>
            Imported \ removed'[i] \subseteq algorithms'[i]
      <4>1. CASE Register(t, n)
        <5>1. /\ algorithms'[i] = algorithms[i] \cup {n}
              /\ removed'[i] = removed[i] \ {n}
          BY <1>0, <2>0, <4>1, SetAlgorithmsEffect DEF Register, TypeOK
        <5> QED BY <5>1
      <4>2. CASE Unregister(t, n)
        <5>1. /\ algorithms'[i] = algorithms[i] \ {n}
              /\ removed'[i] =
                   removed[i] \cup ({n} \cap Imported \cap algorithms[i])
          BY <1>0, <2>0, <4>2, SetAlgorithmsEffect DEF Unregister, TypeOK
        <5> QED BY <5>1
      <4> QED BY <2>2, <4>1, <4>2
    <3>3. \A k \in Instances \ {i} : removed'[k] = removed[k]
      BY <1>0, <2>0, <2>2 DEF Register, Unregister, TypeOK
    <3> QED BY <1>2, <1>3, <2>0, <3>1, <3>2, <3>3 DEF BuiltInsHeld
  <2>3. CASE Reset(t) \/ Reload(t)
    <3>1. /\ removed'[i] = Imported
          /\ \A k \in Instances \ {i} :
                algorithms'[k] = algorithms[k] /\ removed'[k] = removed[k]
      BY <1>0, <2>0, <2>3, SetAlgorithmsEffect DEF Reset, Reload, TypeOK
    <3> QED BY <1>2, <1>3, <2>0, <3>1 DEF BuiltInsHeld
  <2>4. CASE Swap(t)
    <3>1. /\ algorithms'[i] = definitions[t]
          /\ \A k \in Instances \ {i} :
                algorithms'[k] = algorithms[k] /\ removed'[k] = removed[k]
      BY <1>0, <2>0, <2>4, SetAlgorithmsEffect DEF Swap, Loaded, TypeOK
    <3>2. Imported \subseteq definitions[t]
      BY <1>1, <2>4 DEF Swap, CopiesSound
    <3> QED BY <1>2, <1>3, <2>0, <3>1, <3>2 DEF BuiltInsHeld
  <2> QED BY <1>6, <2>1, <2>2, <2>3, <2>4 DEF UseStep
<1>7. ASSUME NEW n \in Names, BuilderRegister(n)
      PROVE  BuiltInsHeld'
  BY <1>2, <1>7 DEF BuilderRegister, Published, Making, BuiltInsHeld
<1>8. ~BuilderClear
  BY DEF BuilderClear
<1>9. BuiltInsHeld'
  BY <1>4, <1>5, <1>6, <1>7, <1>8 DEF Next, InstanceStep
<1> QED BY <1>9 DEF BuiltInsHeld

-----------------------------------------------------------------------------
(* What a vector finds                                                     *)

LEMMA AskingStep ==
  ASSUME InstanceInv, AskingHasAJob, VectorWhole, Next
  PROVE  AskingHasAJob' /\ VectorWhole'
<1> USE DEF GoTo, Leave, shared, private, copying, history
<1>0. TypeOK
  BY DEF InstanceInv
<1> DEFINE Whole(u) ==
     /\ pc[u] = "ask" => job[u] # None
     /\ job[u] # None /\ job[u].stage = "vector" =>
          /\ pc[u] = "ask"
          /\ u \notin disturbed =>
               /\ job[u].found = job[u].asked
               /\ job[u].wanted \subseteq algorithms[registry[u]]
<1>1. \A u \in Threads : Whole(u)
  BY DEF AskingHasAJob, VectorWhole
<1> SUFFICES ASSUME NEW u \in Threads PROVE Whole(u)'
  BY DEF AskingHasAJob, VectorWhole
<1>2. ASSUME NEW t \in Threads,
             Call(t) \/ Acquire(t) \/ Recheck(t) \/ CopyStep(t) \/ Return(t)
               \/ ResetInstance(t)
      PROVE  Whole(u)'
  <2>1. /\ UNCHANGED <<algorithms, disturbed>>
        /\ \A v \in Threads \ {t} :
              pc'[v] = pc[v] /\ registry'[v] = registry[v] /\ job'[v] = job[v]
        /\ pc[t] # "ask" /\ pc'[t] # "ask"
        /\ job'[t] \in {job[t], None}
    BY <1>0, <1>2, CopyFrame DEF Call, Acquire, Recheck, CopyFramed, Return,
                                 ResetInstance, TypeOK
  <2> QED BY <1>1, <2>1
\* A section that leaves an instance with less disturbs all who ask it.
<1>3. ASSUME NEW t \in Threads, pc[t] # "ask", NEW i \in Instances, NEW S,
             SetAlgorithms(i, S), job' = job,
             \A v \in Threads \ {t} :
               pc'[v] = pc[v] /\ registry'[v] = registry[v],
             pc'[t] # "ask"
      PROVE  Whole(u)'
  <2>1. CASE u = t
    BY <1>1, <1>3, <2>1
  <2>2. CASE u # t
    <3>1. ASSUME job[u] # None, job[u].stage = "vector", u \notin disturbed'
          PROVE  algorithms[registry[u]] \subseteq algorithms'[registry[u]]
      <4>1. pc[u] = "ask" /\ registry[u] \in Instances
        BY <1>1, <3>1, OwnInstance DEF Owning
      <4> QED BY <1>0, <1>3, <3>1, <4>1, SetAlgorithmsEffect
    <3>2. disturbed \subseteq disturbed'
      BY <1>0, <1>3, SetAlgorithmsEffect
    <3> QED BY <1>1, <1>3, <2>2, <3>1, <3>2
  <2> QED BY <2>1, <2>2
<1>4. ASSUME NEW t \in Threads, Publish(t)
      PROVE  Whole(u)'
  <2>1. registry[t] \in Instances
    BY <1>4 DEF Publish, InstanceInv, MadeOnce, Making, TypeOK
  <2>2. /\ pc[t] # "ask" /\ pc'[t] # "ask" /\ job' = job
        /\ \A v \in Threads \ {t} :
              pc'[v] = pc[v] /\ registry'[v] = registry[v]
        /\ SetAlgorithms(registry[t], definitions[t])
    BY <1>0, <1>4 DEF Publish, TypeOK
  <2> QED BY <1>3, <2>1, <2>2
<1>5. ASSUME NEW t \in Threads, NEW n,
             Register(t, n) \/ Unregister(t, n) \/ Reset(t) \/ Reload(t) \/ Swap(t)
      PROVE  Whole(u)'
  <2>1. registry[t] \in Instances
    BY <1>5, OwnInstance DEF Register, Unregister, Reset, Reload, Swap, Using,
                             Owning
  <2>2. PICK S : SetAlgorithms(registry[t], S)
    BY <1>5 DEF Register, Unregister, Reset, Reload, Swap
  <2>3. /\ pc[t] # "ask" /\ pc'[t] # "ask" /\ job' = job
        /\ \A v \in Threads \ {t} :
              pc'[v] = pc[v] /\ registry'[v] = registry[v]
    BY <1>0, <1>5 DEF Register, Unregister, Reset, Reload, Swap, Using, TypeOK
  <2> QED BY <1>3, <2>1, <2>2, <2>3
<1>6. ASSUME NEW t \in Threads, Resume(t)
      PROVE  Whole(u)'
  <2>1. /\ UNCHANGED <<algorithms, disturbed, job, registry>>
        /\ \A v \in Threads \ {t} : pc'[v] = pc[v]
        /\ pc[t] = "use" /\ pc'[t] = "ask" /\ job[t] # None
    BY <1>0, <1>6 DEF Resume, TypeOK
  <2> QED BY <1>1, <2>1
<1>7. ASSUME NEW t \in Threads, NEW S \in Requests, Prepare(t, S)
      PROVE  Whole(u)'
  <2>1. /\ UNCHANGED <<algorithms, disturbed>> /\ pc[t] = "use" /\ job[t] = None
        /\ \A v \in Threads \ {t} :
              pc'[v] = pc[v] /\ registry'[v] = registry[v] /\ job'[v] = job[v]
        /\ \/ /\ pc'[t] = "ask" /\ registry'[t] = registry[t]
              /\ job'[t] = NewJob("vector", S) /\ S \subseteq algorithms[registry[t]]
           \/ pc'[t] = "idle" /\ job'[t] = None
    BY <1>0, <1>7 DEF Prepare, AllKnown, AllNames, Using, TypeOK
  <2>2. /\ NewJob("vector", S) # None
        /\ NewJob("vector", S).wanted = S
        /\ NewJob("vector", S).found = NewJob("vector", S).asked
    BY JobAssumption DEF NewJob, Job, Stages
  <2>3. CASE u = t
    BY <2>1, <2>2, <2>3
  <2>4. CASE u # t
    BY <1>1, <2>1, <2>4
  <2> QED BY <2>3, <2>4
<1>8. ASSUME NEW t \in Threads, NEW n \in Names, Ask(t, n)
      PROVE  Whole(u)'
  <2>1. /\ UNCHANGED algorithms /\ pc[t] = "ask"
        /\ \A v \in Threads \ {t} :
              pc'[v] = pc[v] /\ registry'[v] = registry[v] /\ job'[v] = job[v]
        /\ disturbed' \in {disturbed, disturbed \ {t}}
        /\ n \in job[t].wanted
        /\ \/ pc'[t] = "idle" /\ job'[t] = None
           \/ /\ pc'[t] = "ask" /\ registry'[t] = registry[t]
              /\ job'[t] = Answered(t, n) /\ disturbed' = disturbed
    BY <1>0, <1>8 DEF Ask, TypeOK
  <2>2. job[t] \in Job
    BY <1>0, <1>1, <2>1 DEF TypeOK
  <2>3. ASSUME job'[t] = Answered(t, n)
        PROVE  /\ job'[t] # None
               /\ job'[t].stage = job[t].stage
               /\ job'[t].wanted = job[t].wanted
               /\ n \in algorithms[registry[t]] /\ job[t].found = job[t].asked
                    => job'[t].found = job'[t].asked
    <3>1. Answered(t, n) \in Job
      BY AnsweredType, <2>1, <2>2
    <3>2. /\ job'[t].stage = job[t].stage
          /\ job'[t].wanted = job[t].wanted
          /\ job'[t].asked = job[t].asked \cup {n}
          /\ n \in algorithms[registry[t]] =>
               job'[t].found = job[t].found \cup {n}
      BY <2>2, <2>3 DEF Answered, IsRegistered, Job
    <3> QED BY <2>3, <3>1, <3>2, JobAssumption
  <2>4. CASE u = t
    BY <1>1, <2>1, <2>2, <2>3, <2>4, JobAssumption
  <2>5. CASE u # t
    BY <1>1, <2>1, <2>5
  <2> QED BY <2>4, <2>5
<1>9. ASSUME NEW t \in Threads, EndStage(t)
      PROVE  Whole(u)'
  <2>1. /\ UNCHANGED algorithms /\ pc[t] = "ask" /\ pc'[t] = "idle"
        /\ \A v \in Threads \ {t} :
              pc'[v] = pc[v] /\ registry'[v] = registry[v] /\ job'[v] = job[v]
        /\ disturbed' = disturbed \ {t}
        /\ job'[t] = NextJob(job[t])
    BY <1>0, <1>9 DEF EndStage, TypeOK
  <2>2. job[t] \in Job
    BY <1>0, <1>1, <2>1 DEF TypeOK
  <2>3. job'[t] = None \/ job'[t].stage # "vector"
    BY <2>1, <2>2 DEF NextJob, NewJob, Job, Stages
  <2>4. CASE u = t
    BY <2>1, <2>3, <2>4
  <2>5. CASE u # t
    BY <1>1, <2>1, <2>5
  <2> QED BY <2>4, <2>5
<1>10. CASE BuilderClear \/ \E n \in Names : BuilderRegister(n)
  BY <1>1, <1>10 DEF BuilderClear, BuilderRegister
<1> HIDE DEF Whole
<1> QED BY <1>2, <1>4, <1>5, <1>6, <1>7, <1>8, <1>9, <1>10
        DEF Next, InstanceStep, UseStep

-----------------------------------------------------------------------------
(* The properties                                                          *)

LEMMA InvariantInit == Init => IInv
<1> SUFFICES ASSUME Init PROVE IInv
  OBVIOUS
<1>0. builder \in Seq(Names) /\ Registered = Imported
  <2>1. Cardinality(Imported) \in Nat
    BY FS_CardinalityType
  <2>2. builder \in Bijection(1..Cardinality(Imported), Imported)
    BY DEF Init
  <2>3. /\ builder \in [1..Cardinality(Imported) -> Imported]
        /\ \A x \in Imported : \E k \in 1..Cardinality(Imported) : builder[k] = x
    BY <2>2 DEF Bijection, Injection, Surjection
  <2>4. builder \in Seq(Imported) /\ Registered = Imported
    BY <2>1, <2>3 DEF Registered, Range
  <2> QED BY <2>4, SeqMonotonic
<1>1. InstanceInv
  <2>1. TypeOK
    <3>1. /\ algorithms \in [Instances -> SUBSET Names]
          /\ removed \in [Instances -> SUBSET Imported]
          /\ definitions \in [Threads -> SUBSET Names]
          /\ iterator \in [Threads -> [size : Nat, place : Nat]]
      BY DEF Init, NoIterator
    <3>2. /\ registry \in [Threads -> Instances \cup {None}]
          /\ job \in [Threads -> Job \cup {None}]
          /\ pc \in [Threads -> InCall \cup InReload \cup {"idle", "use", "ask"}]
      BY DEF Init
    <3>3. made \in 0..MaxInstances
      BY DEF Init
    <3>4. cleared \in BOOLEAN
      BY Zenon DEF Init
    <3> QED BY <1>0, <3>1, <3>2, <3>3, <3>4 DEF Init, TypeOK
  <2>2. MutualExclusion /\ MadeOnce /\ GivenWhenPublished /\ NoneOnlyIfReset
    BY DEF Init, MutualExclusion, MadeOnce, Making, Holding, Owning,
           GivenWhenPublished, NoneOnlyIfReset
  <2> QED BY <2>1, <2>2 DEF InstanceInv
<1>2. CopiesSound /\ BuiltInsHeld
  BY <1>0 DEF Init, CopiesSound, BuiltInsHeld, Published, Copying
<1>3. VectorWhole /\ AskingHasAJob
  BY DEF Init, VectorWhole, AskingHasAJob
<1> QED BY <1>1, <1>2, <1>3 DEF IInv

LEMMA Inductive == Spec => []IInv
<1>1. IInv /\ [Next]_vars => IInv'
  <2> SUFFICES ASSUME IInv, [Next]_vars PROVE IInv'
    OBVIOUS
  <2>1. CASE Next
    BY <2>1, InstanceInvStep, CopiesStep, BuiltInsStep, AskingStep
    DEF IInv, InstanceInv
  <2>2. CASE UNCHANGED vars
    <3>1. /\ UNCHANGED <<builder, current, lock, made, algorithms, pc, registry>>
          /\ UNCHANGED <<definitions, iterator, job, cleared, removed>>
          /\ UNCHANGED <<interrupted, disturbed>>
      BY <2>2 DEF vars, shared, private, copying, history
    <3>2. InstanceInv'
      BY <3>1 DEF IInv, InstanceInv, TypeOK, MutualExclusion, MadeOnce, Making,
                  Holding, Owning, Published, GivenWhenPublished,
                  NoneOnlyIfReset
    <3>3. CopiesSound'
      BY <3>1 DEF IInv, CopiesSound, Registered, Copying, SoundCopy
    <3>4. BuiltInsHeld'
      BY <3>1 DEF IInv, BuiltInsHeld, Published, Making
    <3> QED BY <3>1, <3>2, <3>3, <3>4 DEF IInv, VectorWhole, AskingHasAJob
  <2> QED BY <2>1, <2>2
<1> QED BY InvariantInit, <1>1, PTL DEF Spec

\* The registry's state stays of its type.
THEOREM RegistryTypeCorrect == Spec => []TypeOK
<1>1. IInv => TypeOK
  BY DEF IInv, InstanceInv
<1> QED BY <1>1, Inductive, PTL

\* instance() returns None to nobody whom no reset_instance() has overtaken.
THEOREM NoneOnlyIfResetCorrect == Spec => []NoneOnlyIfReset
<1>1. IInv => NoneOnlyIfReset
  BY DEF IInv, InstanceInv
<1> QED BY <1>1, Inductive, PTL

\* However many threads find no instance at once, they come to share one.
THEOREM OnlyResetReplacesCorrect == Spec => OnlyResetReplaces
<1>1. IInv /\ [Next]_vars =>
        [current # None /\ current' # current => current' = None]_vars
  <2> SUFFICES ASSUME IInv, Next, current # None, current' # current
               PROVE  current' = None
    OBVIOUS
  <2>1. ASSUME NEW t \in Threads, Publish(t)
        PROVE  FALSE
    BY <2>1 DEF Publish, IInv, InstanceInv, MadeOnce, Making
  <2>2. ASSUME NEW t \in Threads, UseStep(t)
        PROVE  FALSE
    BY <2>2, UseFrame DEF UseFramed, IInv, InstanceInv
  <2>3. ASSUME NEW t \in Threads,
               Call(t) \/ Acquire(t) \/ Recheck(t) \/ CopyStep(t) \/ Return(t)
        PROVE  FALSE
    BY <2>3, CopyFrame DEF IInv, InstanceInv, Call, Acquire, Recheck, CopyFramed,
                           Return, shared
  <2>4. ASSUME NEW t \in Threads, ResetInstance(t)
        PROVE  current' = None
    BY <2>4 DEF ResetInstance
  <2>5. CASE BuilderClear \/ \E n \in Names : BuilderRegister(n)
    BY <2>5 DEF BuilderClear, BuilderRegister
  <2> QED BY <2>1, <2>2, <2>3, <2>4, <2>5 DEF Next, InstanceStep
<1> QED BY <1>1, Inductive, PTL DEF Spec, OnlyResetReplaces

\* Whatever others register while the unlocked copy of the builder is under
\* way, a copy that ends has missed nothing.
THEOREM CopiesAreWholeCorrect == Spec => CopiesAreWhole
<1>1. IInv /\ [Next]_vars =>
        [\A t \in Threads : Copying(t) /\ pc'[t] \in {"publish", "swap"} =>
           cleared \/ definitions[t] = Registered]_vars
  <2> SUFFICES ASSUME IInv, Next, NEW t \in Threads, Copying(t),
                      pc'[t] \in {"publish", "swap"}, ~cleared
               PROVE  definitions[t] = Registered
    OBVIOUS
  <2> USE DEF IInv, InstanceInv, TypeOK, GoTo, Leave, shared, private, copying, history
  <2>1. ASSUME NEW u \in Threads,
               Call(u) \/ InstanceStep(u) \/ ResetInstance(u)
        PROVE  FALSE
    BY <2>1 DEF Call, InstanceStep, Acquire, Recheck, Publish, Return,
                ResetInstance, Copying
  <2>2. ASSUME NEW u \in Threads, UseStep(u)
        PROVE  FALSE
    BY <2>2, UseFrame DEF UseFramed, Owning, Copying, UseStep, Reload, Swap,
       Reset, Register, Unregister, Ask, Prepare, Resume, EndStage, Using
  <2>3. ~\E n \in Names : BuilderRegister(n)
    BY DEF BuilderRegister, Copying
  <2>4. ~BuilderClear
    BY DEF BuilderClear, Copying
  <2>5. PICK u \in Threads : CopyStep(u)
    BY <2>1, <2>2, <2>3, <2>4 DEF Next
  <2>6. EndCopy(t)
    <3>1. u = t
      BY <2>5, CopyFrame DEF CopyFramed, Copying
    <3> QED BY <2>5, <3>1 DEF CopyStep, Iterate, TakeEntry, FailCopy, Copying
  <2>7. SoundCopy(t) /\ iterator[t].place = Len(builder)
    BY <2>6 DEF EndCopy, CopiesSound
  <2> QED BY <2>7 DEF SoundCopy, Registered, Range
<1> QED BY <1>1, Inductive, PTL DEF Spec, CopiesAreWhole

\* A caller misses a built-in algorithm only where it has been removed and
\* not loaded again, or the builder cleared: never because the instance it
\* has been given is still being filled, or was filled in part.
THEOREM BuiltInsCorrect == Spec => []BuiltInsArePresent
<1>1. IInv => BuiltInsArePresent
  BY DEF IInv, InstanceInv, GivenWhenPublished, Owning, BuiltInsHeld,
         BuiltInsArePresent
<1> QED BY <1>1, Inductive, PTL

\* A vector lacks the parameters of an algorithm whose name it has checked
\* only if another thread has taken the algorithm away in between.
THEOREM PartialCorrect == Spec => []PartialOnlyIfDisturbed
<1>1. IInv => PartialOnlyIfDisturbed
  BY DEF IInv, VectorWhole, AskingHasAJob, PartialOnlyIfDisturbed
<1> QED BY <1>1, Inductive, PTL

=============================================================================
