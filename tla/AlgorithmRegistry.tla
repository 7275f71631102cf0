-------------------------- MODULE AlgorithmRegistry --------------------------
(***************************************************************************)
(* The registry of algorithms and the threads that share it.  The class    *)
(* keeps one instance, made under a class lock by the first caller of      *)
(* instance(); an instance keeps the definitions it copied from the        *)
(* builder, under a lock of its own that no operation holds across another *)
(* one, so that each locked section is one step below.  The builder has no *)
(* lock: a copy of it is made entry by entry while others may register.  A *)
(* thread that prepares a run asks the registry for one algorithm after    *)
(* the other: for the parameters of a vector, again for its configuration, *)
(* and again for the policies of the nodes.                                *)
(*                                                                         *)
(* A definition stands for its name.                                       *)
(***************************************************************************)
EXTENDS Naturals, Sequences, FiniteSets, Functions

CONSTANTS
  Threads,
  Names,         \* algorithm names
  Imported,      \* the algorithms that register_all registers
  Requests,      \* the sets of algorithms that runs are prepared with
  MaxInstances,  \* bound of the model: the instances that may ever be made
  None           \* no instance, no thread, no work

ASSUME RegistryAssumption ==
  /\ Imported \subseteq Names /\ IsFiniteSet(Imported)
  /\ Requests \subseteq SUBSET Names
  /\ MaxInstances \in Nat \ {0}
  /\ None \notin Nat /\ None \notin Threads

Instances == 1..MaxInstances

VARIABLES
  builder,      \* AlgorithmRegistryBuilder._registry, a dict: in the order of entry
  current,      \* AlgorithmRegistry._instance
  lock,         \* the thread that holds AlgorithmRegistry._lock
  made,         \* how many instances have been made
  algorithms,   \* _algorithms of each instance
  pc,           \* what a thread is doing
  registry,     \* the instance a thread is making or has been given
  definitions,  \* what a thread has copied of the builder's definitions
  iterator,     \* a copy's iterator: the dict's size at first, entries passed
  job,          \* the run a thread prepares
  cleared,      \* history: the builder has been cleared
  removed,      \* history: imported names removed from an instance once loaded
  interrupted,  \* history: threads whose return met a reset_instance()
  disturbed     \* history: threads whose instance lost names as they asked

shared == <<builder, current, lock, made, algorithms>>
copying == <<definitions, iterator>>
private == <<pc, registry, copying, job>>
history == <<cleared, removed, interrupted, disturbed>>
vars == <<shared, private, history>>

Stages == {"vector", "config", "policies"}

Job ==
  [stage : Stages, wanted : SUBSET Names, asked : SUBSET Names,
   found : SUBSET Names]

ASSUME JobAssumption == None \notin Job

\* Between its check for an instance and its return.
InCall == {"acquire", "recheck", "load", "copy", "publish", "return"}

\* reload()'s copy.
InReload == {"reload", "recopy", "swap"}

Registered == Range(builder)

NoIterator == [size |-> 0, place |-> 0]

TypeOK ==
  /\ builder \in Seq(Names)
  /\ current \in Instances \cup {None}
  /\ lock \in Threads \cup {None}
  /\ made \in 0..MaxInstances
  /\ algorithms \in [Instances -> SUBSET Names]
  /\ pc \in [Threads -> InCall \cup InReload \cup {"idle", "use", "ask"}]
  /\ registry \in [Threads -> Instances \cup {None}]
  /\ definitions \in [Threads -> SUBSET Names]
  /\ iterator \in [Threads -> [size : Nat, place : Nat]]
  /\ job \in [Threads -> Job \cup {None}]
  /\ cleared \in BOOLEAN
  /\ removed \in [Instances -> SUBSET Imported]
  /\ interrupted \subseteq Threads
  /\ disturbed \subseteq Threads

\* register_all has been imported, in whatever order.
Init ==
  /\ builder \in Bijection(1..Cardinality(Imported), Imported)
  /\ current = None
  /\ lock = None
  /\ made = 0
  /\ algorithms = [i \in Instances |-> {}]
  /\ pc = [t \in Threads |-> "idle"]
  /\ registry = [t \in Threads |-> None]
  /\ definitions = [t \in Threads |-> {}]
  /\ iterator = [t \in Threads |-> NoIterator]
  /\ job = [t \in Threads |-> None]
  /\ cleared = FALSE
  /\ removed = [i \in Instances |-> {}]
  /\ interrupted = {}
  /\ disturbed = {}

GoTo(t, where) == pc' = [pc EXCEPT ![t] = where]

\* The thread has no further use for its instance.
Leave(t) ==
  /\ GoTo(t, "idle")
  /\ registry' = [registry EXCEPT ![t] = None]

\* A locked section leaves instance i with the algorithms S.
SetAlgorithms(i, S) ==
  /\ algorithms' = [algorithms EXCEPT ![i] = S]
  /\ disturbed' = IF algorithms[i] \subseteq S
                  THEN disturbed
                  ELSE disturbed \cup
                         {t \in Threads : pc[t] = "ask" /\ registry[t] = i}

-----------------------------------------------------------------------------
(* instance() and reset_instance()                                         *)

\* The check without the lock.
Call(t) ==
  /\ pc[t] = "idle"
  /\ GoTo(t, IF current = None THEN "acquire" ELSE "return")
  /\ UNCHANGED <<shared, registry, copying, job, history>>

Acquire(t) ==
  /\ pc[t] = "acquire" /\ lock = None
  /\ lock' = t
  /\ GoTo(t, "recheck")
  /\ UNCHANGED <<builder, current, made, algorithms, registry, copying, job,
                 history>>

\* Mutant: the check is not repeated under the lock.
StillMissingUnchecked == made < MaxInstances

StillMissing == current = None

\* The check with the lock; a new instance is made before it is published.
Recheck(t) ==
  /\ pc[t] = "recheck"
  /\ \/ /\ StillMissing
        /\ made' = made + 1
        /\ registry' = [registry EXCEPT ![t] = made']
        /\ GoTo(t, "load")
        /\ UNCHANGED lock
     \/ /\ ~StillMissing
        /\ lock' = None
        /\ GoTo(t, "return")
        /\ UNCHANGED <<made, registry>>
  /\ UNCHANGED <<builder, current, algorithms, copying, job, history>>

\* Mutant: the class lock is not released.
KeepLock == lock' = lock

ReleaseLock == lock' = None

Forget(t) ==
  /\ definitions' = [definitions EXCEPT ![t] = {}]
  /\ iterator' = [iterator EXCEPT ![t] = NoIterator]

\* Mutant: the new instance is not kept.
NothingKept(t) == None

\* cls._instance = AlgorithmRegistry()
NewInstance(t) == registry[t]

Publish(t) ==
  /\ pc[t] = "publish"
  /\ SetAlgorithms(registry[t], definitions[t])
  /\ current' = NewInstance(t)
  /\ ReleaseLock
  /\ Forget(t)
  /\ GoTo(t, "return")
  /\ UNCHANGED <<builder, made, registry, job, cleared, removed, interrupted>>

\* _instance is read once more; a caller that is given None fails with it.
Return(t) ==
  /\ pc[t] = "return"
  /\ registry' = [registry EXCEPT ![t] = current]
  /\ interrupted' = interrupted \ {t}
  /\ GoTo(t, IF current = None THEN "idle" ELSE "use")
  /\ job' = [job EXCEPT ![t] = IF current = None THEN None ELSE @]
  /\ UNCHANGED <<shared, copying, cleared, removed, disturbed>>

\* reset_instance, and the model's bound.
ResetInstance(t) ==
  /\ pc[t] = "idle" /\ lock = None
  /\ made < MaxInstances
  /\ current' = None
  /\ interrupted' = interrupted \cup {u \in Threads : pc[u] = "return"}
  /\ UNCHANGED <<builder, lock, made, algorithms, private, cleared, removed,
                 disturbed>>

-----------------------------------------------------------------------------
(* The operations of an instance that change it                            *)

\* A thread that is not preparing a run uses the instance it has been given.
Using(t) == pc[t] = "use" /\ job[t] = None

Register(t, n) ==
  /\ Using(t)
  /\ SetAlgorithms(registry[t], algorithms[registry[t]] \cup {n})
  /\ removed' = [removed EXCEPT ![registry[t]] = @ \ {n}]
  /\ Leave(t)
  /\ UNCHANGED <<builder, current, lock, made, copying, job, cleared,
                 interrupted>>

Unregister(t, n) ==
  /\ Using(t)
  /\ SetAlgorithms(registry[t], algorithms[registry[t]] \ {n})
  /\ removed' = [removed EXCEPT ![registry[t]] =
       @ \cup ({n} \cap Imported \cap algorithms[registry[t]])]
  /\ Leave(t)
  /\ UNCHANGED <<builder, current, lock, made, copying, job, cleared,
                 interrupted>>

Reset(t) ==
  /\ Using(t)
  /\ SetAlgorithms(registry[t], {})
  /\ removed' = [removed EXCEPT ![registry[t]] = Imported]
  /\ Leave(t)
  /\ UNCHANGED <<builder, current, lock, made, copying, job, cleared,
                 interrupted>>

\* reload: reset, and then _load_from_parameterizers.  What has been removed
\* is not back before the new copy is stored.
Reload(t) ==
  /\ Using(t)
  /\ SetAlgorithms(registry[t], {})
  /\ removed' = [removed EXCEPT ![registry[t]] = Imported]
  /\ GoTo(t, "reload")
  /\ UNCHANGED <<builder, current, lock, made, registry, copying, job,
                 cleared, interrupted>>

\* Mutant: reload() ends after reset().
NothingLoaded(t) == {}

Loaded(t) == definitions[t]

Swap(t) ==
  /\ pc[t] = "swap"
  /\ SetAlgorithms(registry[t], Loaded(t))
  /\ removed' = [removed EXCEPT ![registry[t]] = {}]
  /\ Forget(t)
  /\ Leave(t)
  /\ UNCHANGED <<builder, current, lock, made, job, cleared, interrupted>>

-----------------------------------------------------------------------------
(* AlgorithmRegistryBuilder                                                *)

\* get_all_definitions holds no lock: it makes an iterator of _registry, ...
Iterate(t) ==
  /\ \/ pc[t] = "load" /\ GoTo(t, "copy")
     \/ pc[t] = "reload" /\ GoTo(t, "recopy")
  /\ iterator' = [iterator EXCEPT ![t] = [size |-> Len(builder), place |-> 0]]
  /\ definitions' = [definitions EXCEPT ![t] = {}]
  /\ UNCHANGED <<shared, registry, job, history>>

Copying(t) == pc[t] \in {"copy", "recopy"}

SizeKept(t) == Len(builder) = iterator[t].size

\* ... takes one entry after the other, ...
TakeEntry(t) ==
  LET next == iterator[t].place + 1 IN
  /\ Copying(t) /\ SizeKept(t)
  /\ next <= Len(builder)
  /\ definitions' = [definitions EXCEPT ![t] = @ \cup {builder[next]}]
  /\ iterator' = [iterator EXCEPT ![t].place = next]
  /\ UNCHANGED <<shared, pc, registry, job, history>>

EndCopy(t) ==
  /\ SizeKept(t) /\ iterator[t].place = Len(builder)
  /\ \/ pc[t] = "copy" /\ GoTo(t, "publish")
     \/ pc[t] = "recopy" /\ GoTo(t, "swap")
  /\ UNCHANGED <<shared, registry, copying, job, history>>

\* ... or raises: dictionary changed size during iteration.  A new instance
\* is dropped and its number free again; a reload() has reset its instance.
FailCopy(t) ==
  /\ Copying(t) /\ ~SizeKept(t)
  /\ IF pc[t] = "copy" THEN ReleaseLock /\ made' = made - 1
                       ELSE UNCHANGED <<lock, made>>
  /\ Forget(t)
  /\ Leave(t)
  /\ job' = [job EXCEPT ![t] = None]
  /\ UNCHANGED <<builder, current, algorithms, history>>

\* Mutant: an entry that is made again is moved to the end.
WithEntryLast(n) == Append(SelectSeq(builder, LAMBDA m : m # n), n)

WithEntry(n) == IF n \in Registered THEN builder ELSE Append(builder, n)

BuilderRegister(n) ==
  /\ builder' = WithEntry(n)
  /\ UNCHANGED <<current, lock, made, algorithms, private, history>>

\* clear, "for testing", and the model's bound: it is called once.
BuilderClear ==
  /\ ~cleared
  /\ builder' = <<>>
  /\ cleared' = TRUE
  /\ UNCHANGED <<current, lock, made, algorithms, private, removed,
                 interrupted, disturbed>>

-----------------------------------------------------------------------------
(* The preparation of a run                                                *)

IsRegistered(t, n) == n \in algorithms[registry[t]]

\* all_algorithm_names
AllNames(t) == algorithms[registry[t]]

\* Mutant: unknown names are not refused.
AllKnownUnchecked(t, S) == TRUE

\* _normalize_algorithm_names
AllKnown(t, S) == S \subseteq AllNames(t)

NewJob(stage, S) ==
  [stage |-> stage, wanted |-> S, asked |-> {}, found |-> {}]

\* CanonicalVector(algorithms): a vector of unknown algorithms is refused.
Prepare(t, S) ==
  /\ Using(t)
  /\ IF AllKnown(t, S)
     THEN /\ job' = [job EXCEPT ![t] = NewJob("vector", S)]
          /\ GoTo(t, "ask") /\ UNCHANGED registry
     ELSE Leave(t) /\ UNCHANGED job
  /\ UNCHANGED <<shared, copying, history>>

\* The next stage has asked for an instance and been given one.
Resume(t) ==
  /\ pc[t] = "use" /\ job[t] # None
  /\ GoTo(t, "ask")
  /\ UNCHANGED <<shared, registry, copying, job, history>>

\* get_algorithm_parameters yields nothing for a name that is not registered,
\* from_canonical_vector passes it over, and the nodes' policies cannot be
\* built without it, nor without a class in the builder.
CanBuild(t, n) == IsRegistered(t, n) /\ n \in Registered

Answered(t, n) ==
  [job[t] EXCEPT !.asked = @ \cup {n},
                 !.found = IF IsRegistered(t, n) THEN @ \cup {n} ELSE @]

Ask(t, n) ==
  /\ pc[t] = "ask"
  /\ n \in job[t].wanted \ job[t].asked
  /\ IF job[t].stage = "policies" /\ ~CanBuild(t, n)
     THEN /\ job' = [job EXCEPT ![t] = None]
          /\ Leave(t)
          /\ disturbed' = disturbed \ {t}
     ELSE /\ job' = [job EXCEPT ![t] = Answered(t, n)]
          /\ UNCHANGED <<pc, registry, disturbed>>
  /\ UNCHANGED <<shared, copying, cleared, removed, interrupted>>

NextJob(j) ==
  CASE j.stage = "vector" -> NewJob("config", j.wanted)
    [] j.stage = "config" -> NewJob("policies", j.wanted)
    [] j.stage = "policies" -> None

\* The vector, the configuration or the policies are complete.
EndStage(t) ==
  /\ pc[t] = "ask"
  /\ job[t].asked = job[t].wanted
  /\ job' = [job EXCEPT ![t] = NextJob(job[t])]
  /\ Leave(t)
  /\ disturbed' = disturbed \ {t}
  /\ UNCHANGED <<shared, copying, cleared, removed, interrupted>>

-----------------------------------------------------------------------------
InstanceStep(t) ==
  Acquire(t) \/ Recheck(t) \/ Publish(t) \/ Return(t)

CopyStep(t) == Iterate(t) \/ TakeEntry(t) \/ EndCopy(t) \/ FailCopy(t)

UseStep(t) ==
  \/ Reload(t) \/ Swap(t) \/ Reset(t)
  \/ \E n \in Names : Register(t, n) \/ Unregister(t, n) \/ Ask(t, n)
  \/ \E S \in Requests : Prepare(t, S)
  \/ Resume(t) \/ EndStage(t)

Next ==
  \/ \E t \in Threads : Call(t) \/ InstanceStep(t) \/ CopyStep(t)
                        \/ ResetInstance(t) \/ UseStep(t)
  \/ \E n \in Names : BuilderRegister(n)
  \/ BuilderClear

\* A thread within instance() runs on, and so does one that copies.
Fairness == \A t \in Threads : WF_vars(InstanceStep(t) \/ CopyStep(t))

Spec == Init /\ [][Next]_vars /\ Fairness

-----------------------------------------------------------------------------
(* Properties                                                              *)

\* "Singleton": the instance that callers share is replaced by nothing but
\* reset_instance(), however many of them find it missing at once.
OnlyResetReplaces ==
  [][current # None /\ current' # current => current' = None]_vars

\* instance() is declared to return an instance.  It reads _instance again
\* after it has left the lock, and hands out None only if a reset_instance()
\* came in between.
NoneOnlyIfReset ==
  \A t \in Threads :
    pc[t] = "return" /\ current = None => t \in interrupted

\* A copy that ends is the whole builder as it is at that moment, although
\* entries are made while it is under way, unless the builder has been
\* cleared: an entry keeps its place, and a new one makes the copy fail.
CopiesAreWhole ==
  [][\A t \in Threads : Copying(t) /\ pc'[t] \in {"publish", "swap"} =>
       cleared \/ definitions[t] = Registered]_vars

\* Whoever has an instance finds in it every built-in algorithm that has not
\* been removed since it was loaded, by unregister(), by reset() or by the
\* reset() in a reload(), which lasts until the reload() stores its copy and
\* for ever if the copy fails; unless the builder has been cleared.
BuiltInsArePresent ==
  ~cleared =>
    \A t \in Threads : pc[t] \in {"use", "ask"} =>
      Imported \ removed[registry[t]] \subseteq algorithms[registry[t]]

\* A vector has the parameters of all its algorithms, although it checks
\* their names and reads their parameters in separate sections, unless the
\* instance has lost an algorithm in between.
PartialOnlyIfDisturbed ==
  \A t \in Threads :
    /\ pc[t] = "ask" /\ job[t].stage = "vector"
    /\ job[t].found # job[t].asked
    => t \in disturbed

\* Nobody waits for the class lock for ever.
CallsReturn == \A t \in Threads : pc[t] \in InCall ~> pc[t] \notin InCall

=============================================================================
