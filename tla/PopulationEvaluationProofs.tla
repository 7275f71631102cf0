---------------------- MODULE PopulationEvaluationProofs ----------------------
(***************************************************************************)
(* The genetic search, for every evaluator, bounds and random choice:      *)
(* breeding stays within the schema, every run is configured as the vector *)
(* it scores, the best vector is remembered as it was measured and leads   *)
(* every later population, and with one worker every report is that of     *)
(* its own run.                                                            *)
(***************************************************************************)
EXTENDS PopulationEvaluation, FiniteSetTheorems, SequenceTheorems,
        WellFoundedInduction, TLAPS

-----------------------------------------------------------------------------
(* Vectors                                                                 *)

\* Values that are drawn are within their bounds.
LEMMA DrawsInBounds ==
  ASSUME NEW P, NEW g \in Draws(P)
  PROVE  DOMAIN g = P /\ \A p \in P : g[p] \in InBounds(p)
  BY DEF Draws

\* Values within their bounds may be drawn.
LEMMA InBoundsDrawn ==
  ASSUME NEW P, NEW f, \A p \in P : f[p] \in InBounds(p)
  PROVE  [p \in P |-> f[p]] \in Draws(P)
<1>1. \A p \in P : f[p] \in UNION {InBounds(q) : q \in P}
  OBVIOUS
<1> QED BY <1>1 DEF Draws

\* What a vector of the algorithms A is.
LEMMA VectorShape ==
  ASSUME NEW A, NEW v \in Vector(A)
  PROVE  /\ v.algorithms = A
         /\ DOMAIN v.parameters = Definitions(A)
         /\ \A p \in Definitions(A) : v.parameters[p] \in InBounds(p)
<1>1. PICK g \in Draws(Definitions(A)) : v = [algorithms |-> A, parameters |-> g]
  BY DEF Vector
<1> QED BY <1>1, DrawsInBounds

\* from_dict: values within bounds, some of them missing, yield a vector.
LEMMA FromDictInSchema ==
  ASSUME NEW A, NEW data, DOMAIN data \subseteq Definitions(A),
         \A p \in DOMAIN data : data[p] \in InBounds(p)
  PROVE  FromDict(data, A) \subseteq Vector(A)
<1> SUFFICES ASSUME NEW v \in FromDict(data, A) PROVE v \in Vector(A)
  OBVIOUS
<1>1. PICK g \in Draws(Definitions(A) \ DOMAIN data) :
        v = [algorithms |-> A,
             parameters |-> [p \in Definitions(A) |->
                               IF p \in DOMAIN data THEN data[p] ELSE g[p]]]
  BY DEF FromDict
<1> DEFINE f == [p \in Definitions(A) |-> IF p \in DOMAIN data THEN data[p] ELSE g[p]]
<1>2. \A p \in Definitions(A) : f[p] \in InBounds(p)
  BY DrawsInBounds
<1>3. f \in Draws(Definitions(A))
  <2> HIDE DEF f
  <2>1. [p \in Definitions(A) |-> f[p]] \in Draws(Definitions(A))
    BY <1>2, InBoundsDrawn
  <2>2. f = [p \in Definitions(A) |-> f[p]]
    BY DEF f
  <2> QED BY <2>1, <2>2
<1> QED BY <1>1, <1>3 DEF Vector

\* crossover: a child of vectors of any algorithms has the parameters of its
\* first parent's algorithms, each within its bounds.
THEOREM CrossoverInSchema ==
  ASSUME NEW A, NEW B, NEW v \in Vector(A), NEW w \in Vector(B)
  PROVE  Crossover(v, w) \subseteq Vector(A)
<1> SUFFICES ASSUME NEW S \in SUBSET (DOMAIN v.parameters \cap DOMAIN w.parameters)
             PROVE  FromDict([p \in DOMAIN v.parameters |->
                                IF p \in S THEN w.parameters[p]
                                           ELSE v.parameters[p]], v.algorithms)
                      \subseteq Vector(A)
  BY DEF Crossover
<1> DEFINE d == [p \in DOMAIN v.parameters |->
                   IF p \in S THEN w.parameters[p] ELSE v.parameters[p]]
<1>1. v.algorithms = A /\ DOMAIN d = Definitions(A)
  BY VectorShape
<1>2. \A p \in DOMAIN d : d[p] \in InBounds(p)
  <2> TAKE p \in DOMAIN d
  <2>1. v.parameters[p] \in InBounds(p)
    BY VectorShape
  <2>2. p \in S => w.parameters[p] \in InBounds(p)
    BY VectorShape
  <2> QED BY <2>1, <2>2
<1> HIDE DEF d
<1>3. FromDict(d, A) \subseteq Vector(A)
  BY <1>1, <1>2, FromDictInSchema
<1> QED BY <1>1, <1>3 DEF d

\* mutate: a mutant has the parameters of the original, within their bounds.
THEOREM MutationInSchema ==
  ASSUME NEW A, NEW v \in Vector(A)
  PROVE  Mutation(v) \subseteq Vector(A)
<1> SUFFICES ASSUME NEW c \in Mutation(v) PROVE c \in Vector(A)
  OBVIOUS
<1>0. PICK S \in SUBSET DOMAIN v.parameters : \E g \in Draws(S) :
        c \in FromDict([p \in DOMAIN v.parameters |->
                         IF p \in S THEN g[p] ELSE v.parameters[p]], v.algorithms)
  BY DEF Mutation
<1> PICK g \in Draws(S) :
      c \in FromDict([p \in DOMAIN v.parameters |->
                       IF p \in S THEN g[p] ELSE v.parameters[p]], v.algorithms)
  BY <1>0
<1> DEFINE d == [p \in DOMAIN v.parameters |->
                   IF p \in S THEN g[p] ELSE v.parameters[p]]
<1>1. v.algorithms = A /\ DOMAIN d = Definitions(A)
  BY VectorShape
<1>2. \A p \in DOMAIN d : d[p] \in InBounds(p)
  <2> TAKE p \in DOMAIN d
  <2>1. v.parameters[p] \in InBounds(p)
    BY VectorShape
  <2>2. p \in S => g[p] \in InBounds(p)
    BY DrawsInBounds
  <2> QED BY <2>1, <2>2
<1> HIDE DEF d
<1>3. FromDict(d, A) \subseteq Vector(A)
  BY <1>1, <1>2, FromDictInSchema
<1> QED BY <1>1, <1>3 DEF d

\* start(): validate accepts every vector of registered algorithms.
THEOREM VectorIsValid ==
  ASSUME NEW A \in SUBSET Algorithms, NEW v \in Vector(A)
  PROVE  Valid(v)
<1> SUFFICES ASSUME NEW p \in Definitions(A)
             PROVE  /\ p \in DOMAIN v.parameters
                    /\ Low[p] <= v.parameters[p] /\ v.parameters[p] <= High[p]
  BY VectorShape DEF Valid
<1>1. Low[p] \in Int /\ High[p] \in Int
  BY VectorAssumption DEF Definitions
<1>2. v.parameters[p] \in Low[p]..High[p]
  BY VectorShape DEF InBounds
<1> QED BY <1>1, <1>2, VectorShape

\* from_canonical_vector: the configuration has the vector's values, but for a
\* convergence threshold of 0.
THEOREM ConfigurationIsTheVectors ==
  ASSUME NEW A \in SUBSET Algorithms, NEW v \in Vector(A)
  PROVE  ConfiguredAs(v)
<1> DEFINE x(name) == v.parameters[<<"vector", name>>]
<1>1. v.algorithms = A /\ Base \subseteq DOMAIN v.parameters
  BY VectorShape DEF Definitions
<1>2. x("max_iterations") # 0
  <2>1. <<"vector", "max_iterations">> \in Definitions(A)
        /\ <<"vector", "max_iterations">> \in Definitions(Algorithms)
    BY DEF Definitions, Base, BaseNames
  <2> QED BY <2>1, VectorShape, VectorAssumption DEF InBounds
<1>3. Configuration(v).max_iterations = x("max_iterations")
  BY <1>2 DEF Configuration, OrDefault
<1>4. Configuration(v).convergence_threshold = x("convergence_threshold")
        \/ x("convergence_threshold") = 0
  BY DEF Configuration, OrDefault
<1>5. /\ Configuration(v).algorithm_influence = x("algorithm_influence")
      /\ Configuration(v).material_weight_gap = x("material_weight_gap")
  BY <1>1 DEF Configuration, Given, Base, BaseNames
<1>6. \A a \in v.algorithms : \A p \in Own[a] :
        Configuration(v).algorithm_parameters[a][p] = v.parameters[<<a, p>>]
  BY DEF Configuration
<1> QED BY <1>3, <1>4, <1>5, <1>6 DEF ConfiguredAs, BaseNames

\* get_policy_weight: no policy of a run has a negative weight, which would
\* raise in the tick of every node that uses it.
THEOREM PolicyWeightsAreNatural ==
  ASSUME NEW A \in SUBSET Algorithms, NEW v \in Vector(A), NEW a \in A
  PROVE  PolicyWeightOf(Configuration(v), a) \in Nat
<1>1. CASE "policy_weight" \in Own[a]
  <2> DEFINE p == <<a, "policy_weight">>
  <2>1. p \in Definitions(A) /\ p \in Definitions(Algorithms)
    BY <1>1 DEF Definitions, Prefixed
  <2>2. v.parameters[p] \in Low[p]..High[p]
    BY <2>1, VectorShape DEF InBounds
  <2>3. Low[p] \in Int /\ High[p] \in Int /\ Low[p] >= 0
    BY <1>1, <2>1, VectorAssumption
  <2>4. v.parameters[p] \in Nat
    <3> HIDE DEF p
    <3> QED BY <2>2, <2>3
  <2>5. v.algorithms = A
    BY VectorShape
  <2>6. PolicyWeightOf(Configuration(v), a) = v.parameters[p]
    BY <1>1, <2>5 DEF PolicyWeightOf, Configuration
  <2> QED BY <2>4, <2>6
<1>2. CASE "policy_weight" \notin Own[a]
  BY <1>2 DEF PolicyWeightOf
<1> QED BY <1>1, <1>2

\* The sorted names of a finite set are its elements.
LEMMA SortedNames ==
  ASSUME NEW P, IsFiniteSet(P)
  PROVE  /\ DOMAIN Sorted(P) = 1..Cardinality(P)
         /\ \A i \in DOMAIN Sorted(P) : Sorted(P)[i] \in P
         /\ \A p \in P : \E i \in DOMAIN Sorted(P) : Sorted(P)[i] = p
<1>1. Cardinality(P) \in Nat
  BY FS_CardinalityType
<1>2. PICK f \in [1..Cardinality(P) -> P] : \A p \in P : \E i \in 1..Cardinality(P) : f[i] = p
  <2>1. PICK f : f \in Bijection(1..Cardinality(P), P)
    BY FS_CardinalityType DEF ExistsBijection
  <2> QED BY <2>1 DEF Bijection, Injection, Surjection
<1>3. \E s \in [1..Cardinality(P) -> P] : \A p \in P : \E i \in DOMAIN s : s[i] = p
  BY <1>2
<1> QED BY <1>3 DEF Sorted

\* to_list and from_list: the list of a vector yields this vector again, and
\* no other, when it is read for the vector's own algorithms.
THEOREM ListRoundTrip ==
  ASSUME NEW A, IsFiniteSet(Definitions(A)), NEW v \in Vector(A)
  PROVE  FromList(ToList(v), A) = {v}
<1> DEFINE D == Definitions(A)
           names == Sorted(D)
           position(p) == CHOOSE i \in DOMAIN names : names[i] = p
           data == [p \in D |-> ToList(v)[position(p)]]
<1>1. DOMAIN v.parameters = D /\ v.algorithms = A
  BY VectorShape
<1>2. \A p \in D : position(p) \in DOMAIN names /\ names[position(p)] = p
  BY SortedNames
<1>3. ToList(v) = [i \in DOMAIN names |-> v.parameters[names[i]]]
  BY <1>1 DEF ToList
<1>4. \A p \in D : data[p] = v.parameters[p]
  <2> HIDE DEF position
  <2> QED BY <1>2, <1>3
<1>5. FromList(ToList(v), A) = FromDict(data, A)
  BY <1>3 DEF FromList
<1>6. PICK g \in Draws(D) : v = [algorithms |-> A, parameters |-> g]
  BY DEF Vector
<1>7. g = [p \in D |-> g[p]]
  BY <1>6 DEF Draws
<1>8. \A h : v = [algorithms |-> A,
                  parameters |-> [p \in D |-> IF p \in DOMAIN data THEN data[p] ELSE h[p]]]
  <2> SUFFICES ASSUME NEW h
               PROVE  g = [p \in D |-> IF p \in DOMAIN data THEN data[p] ELSE h[p]]
    BY <1>6
  <2>1. \A p \in D : data[p] = g[p]
    BY <1>4, <1>6
  <2> HIDE DEF data
  <2>2. DOMAIN data = D
    BY DEF data
  <2> QED BY <1>7, <2>1, <2>2
<1>9. Draws(D \ DOMAIN data) # {}
  <2> DEFINE e == [p \in {} |-> 0]
  <2>1. D \ DOMAIN data = {}
    OBVIOUS
  <2>2. e \in Draws({})
    BY DEF Draws
  <2> QED BY <2>1, <2>2
<1> HIDE DEF data
<1>10. FromDict(data, A) = {v}
  <2> DEFINE made(h) == [algorithms |-> A,
               parameters |-> [p \in D |-> IF p \in DOMAIN data THEN data[p] ELSE h[p]]]
  <2>1. FromDict(data, A) = {made(h) : h \in Draws(D \ DOMAIN data)}
    BY DEF FromDict
  <2>2. \A h : made(h) = v
    BY <1>8
  <2> HIDE DEF made
  <2>3. \A x : x \in {made(h) : h \in Draws(D \ DOMAIN data)} <=> x = v
    BY <1>9, <2>2
  <2> QED BY <2>1, <2>3
<1> QED BY <1>5, <1>10

-----------------------------------------------------------------------------
(* The search: what it runs                                                *)

\* The population consists of vectors of the searched algorithms.
PopulationInv == population \in [Index -> Vectors]

\* Children of vectors are vectors, whatever is mixed and drawn.
LEMMA OffspringAreVectors ==
  ASSUME NEW v \in Vectors, NEW w \in Vectors
  PROVE  Offspring[v][w] \subseteq Vectors
<1>1. \A c \in Crossover(v, w) : Mutation(c) \subseteq Vectors
  BY CrossoverInSchema, MutationInSchema DEF Vectors
<1> QED BY <1>1 DEF Offspring

\* A generation made of the elite and its children is a population.
LEMMA BreedKeeps ==
  ASSUME PopulationInv, Breed
  PROVE  PopulationInv'
<1>1. PICK ranked \in Rankings :
        \E children \in [{i \in Index : i > EliteSize} -> Children(ranked)] :
          population' = NextPopulation(ranked, children)
  BY DEF Breed
<1>2. PICK children \in [{i \in Index : i > EliteSize} -> Children(ranked)] :
        population' = NextPopulation(ranked, children)
  BY <1>1
<1>3. \A i \in Index : population[ranked[i]] \in Vectors
  BY DEF Rankings, PopulationInv
<1>4. Elite(ranked) \subseteq Vectors
  BY <1>3 DEF Elite
<1>5. Children(ranked) \subseteq Vectors
  <2> SUFFICES ASSUME NEW c \in Children(ranked) PROVE c \in Vectors
    OBVIOUS
  <2>1. PICK v \in Elite(ranked) : c \in UNION {Offspring[v][w] : w \in Elite(ranked)}
    BY DEF Children
  <2>2. PICK w \in Elite(ranked) : c \in Offspring[v][w]
    BY <2>1
  <2> QED BY <1>4, <2>2, OffspringAreVectors
<1>6. \A i \in Index : i > EliteSize => children[i] \in Vectors
  BY <1>5
<1> QED BY <1>2, <1>3, <1>6 DEF PopulationInv, NextPopulation

-----------------------------------------------------------------------------
(* The best of a generation                                                *)

\* A finite set of numbers has a largest and a smallest element.
LEMMA FiniteIsBounded ==
  ASSUME NEW S \in SUBSET Int, IsFiniteSet(S), S # {}
  PROVE  /\ \E x \in S : \A y \in S : x >= y
         /\ \E x \in S : \A y \in S : x <= y
<1> DEFINE Bounded(U) == /\ \E x \in U : \A y \in U : x >= y
                         /\ \E x \in U : \A y \in U : x <= y
           Bad == {U \in FiniteSubsetsOf(Int) : U # {} /\ ~Bounded(U)}
<1> SUFFICES ASSUME ~Bounded(S) PROVE FALSE
  OBVIOUS
<1>1. Bad \subseteq FiniteSubsetsOf(Int) /\ S \in Bad
  BY DEF FiniteSubsetsOf
<1>2. PICK U \in Bad : \A V \in Bad : <<V, U>> \notin StrictSubsetOrdering(Int)
  <2> HIDE DEF Bad
  <2> QED BY <1>1, FS_StrictSubsetOrderingWellFounded, WFMin
<1>3. U \in SUBSET Int /\ IsFiniteSet(U) /\ U # {} /\ ~Bounded(U)
  BY DEF FiniteSubsetsOf
<1>4. PICK x \in U : TRUE
  BY <1>3
<1> DEFINE V == U \ {x}
<1>5. /\ V \in SUBSET Int /\ IsFiniteSet(V)
      /\ <<V, U>> \in StrictSubsetOrdering(Int)
  BY <1>3, <1>4, FS_RemoveElement DEF StrictSubsetOrdering
<1>6. V = {} \/ Bounded(V)
  BY <1>2, <1>5 DEF FiniteSubsetsOf
<1>7. CASE V = {}
  <2>1. \A y \in U : y = x
    BY <1>7
  <2> QED BY <1>3, <1>4, <2>1
<1>8. CASE Bounded(V)
  <2>1. PICK b \in V, s \in V : \A y \in V : b >= y /\ s <= y
    BY <1>8
  <2>2. b \in U /\ s \in U /\ \A y \in U : y = x \/ y \in V
    BY <2>1
  <2>3. \E z \in U : \A y \in U : z >= y
    <3>1. CASE b >= x
      BY <1>3, <2>1, <2>2, <3>1
    <3>2. CASE x > b
      BY <1>3, <1>4, <2>1, <2>2, <3>2
    <3> QED BY <1>3, <1>4, <2>2, <3>1, <3>2
  <2>4. \E z \in U : \A y \in U : z <= y
    <3>1. CASE s <= x
      BY <1>3, <2>1, <2>2, <3>1
    <3>2. CASE x < s
      BY <1>3, <1>4, <2>1, <2>2, <3>2
    <3> QED BY <1>3, <1>4, <2>2, <3>1, <3>2
  <2> QED BY <1>3, <2>3, <2>4
<1> QED BY <1>6, <1>7, <1>8

LEMMA MaxIsLargest ==
  ASSUME NEW S \in SUBSET Int, IsFiniteSet(S), S # {}
  PROVE  Max(S) \in S /\ \A y \in S : Max(S) >= y
BY FiniteIsBounded DEF Max

LEMMA MinIsSmallest ==
  ASSUME NEW S \in SUBSET Int, IsFiniteSet(S), S # {}
  PROVE  Min(S) \in S /\ \A y \in S : Min(S) <= y
BY FiniteIsBounded DEF Min

LEMMA MaxOfTwo ==
  ASSUME NEW a \in Int, NEW b \in Int
  PROVE  Max({a, b}) = IF b > a THEN b ELSE a
<1>1. IsFiniteSet({a, b})
  <2>1. {a, b} = {a} \cup {b} /\ IsFiniteSet({a})
    BY FS_Singleton
  <2> QED BY <2>1, FS_AddElement
<1>2. Max({a, b}) \in {a, b} /\ Max({a, b}) >= a /\ Max({a, b}) >= b
  BY <1>1, MaxIsLargest
<1> QED BY <1>2

LEMMA IndexFacts ==
  /\ PopulationSize \in Nat /\ PopulationSize > 1 /\ 1 \in Index
  /\ Index \subseteq Nat /\ IsFiniteSet(Index)
  /\ EliteSize \in Int /\ EliteSize >= 1
<1>1. PopulationSize \in Nat \ {0, 1} /\ ElitePercent \in 10..90
  BY GAAssumption DEF ValidSearch, ValidGAConfig
<1>2. IsFiniteSet(Index)
  BY <1>1, FS_Interval DEF Index
<1>3. (PopulationSize * ElitePercent) \div 100 \in Int
  <2>1. PopulationSize * ElitePercent \in Int
    BY <1>1
  <2> QED BY <2>1
<1>4. EliteSize \in Int /\ EliteSize >= 1
  BY <1>3, MaxOfTwo DEF EliteSize
<1> QED BY <1>1, <1>2, <1>4 DEF Index

\* The scores of a generation that has been evaluated.
LEMMA GenBestIsBest ==
  ASSUME fitness \in [Index -> Int]
  PROVE  /\ GenBest \in Int
         /\ \A i \in Index : fitness[i] <= GenBest
         /\ Leader \in Index /\ fitness[Leader] = GenBest
         /\ \A i \in Index : fitness[i] = GenBest => Leader <= i
<1> DEFINE S == {fitness[i] : i \in Index}
           L == {i \in Index : fitness[i] = GenBest}
<1>1. S \in SUBSET Int /\ S # {} /\ IsFiniteSet(S)
  <2>1. fitness \in Surjection(Index, S)
    BY DEF Surjection
  <2> QED BY <2>1, IndexFacts, FS_Surjection
<1>2. GenBest \in S /\ \A y \in S : GenBest >= y
  <2> HIDE DEF S
  <2>1. Max(S) \in S /\ \A y \in S : Max(S) >= y
    BY <1>1, MaxIsLargest
  <2>2. GenBest = Max(S)
    BY DEF GenBest, S
  <2> QED BY <2>1, <2>2
<1>3. L \in SUBSET Int /\ L # {} /\ IsFiniteSet(L)
  <2>1. L \in SUBSET Index
    OBVIOUS
  <2>2. IsFiniteSet(L) /\ L \subseteq Int
    <3>1. IsFiniteSet(Index) /\ Index \subseteq Int
      BY IndexFacts
    <3> HIDE DEF L, Index
    <3>2. IsFiniteSet(L)
      BY <2>1, <3>1, FS_Subset
    <3> QED BY <2>1, <3>1, <3>2
  <2>3. PICK i \in Index : fitness[i] = GenBest
    BY <1>2
  <2> QED BY <2>2, <2>3
<1>4. Leader \in L /\ \A y \in L : Leader <= y
  <2>1. Leader = Min(L)
    BY DEF Leader
  <2> HIDE DEF L
  <2> QED BY <1>3, <2>1, MinIsSmallest
<1> QED BY <1>1, <1>2, <1>4

-----------------------------------------------------------------------------
(* The search: what it remembers                                           *)

\* Every score is one its vector may get, the best one included.
SearchInv ==
  /\ PopulationInv
  /\ scores \in Evaluators
  /\ fitness \in [Index -> Int \cup {Pending}]
  /\ \A i \in Index : fitness[i] \in scores[population[i]] \cup {Pending}
  /\ bestVector \in Vectors
  /\ bestFitness \in Nat
  /\ BestWasMeasured
  /\ BestLeadsPopulation

\* The history rises to the best fitness, and has been there for noImprove
\* entries.
HistoryInv ==
  /\ history \in Seq(Nat) /\ Len(history) <= Generations
  /\ noImprove \in 0..Len(history)
  /\ \A k \in 0..Len(history) :
       /\ HistoryAt(k) \in Nat /\ HistoryAt(k) <= bestFitness
       /\ HistoryAt(k) = bestFitness <=> k >= Len(history) - noImprove
  /\ returned <=> noImprove >= EarlyStop \/ Len(history) = Generations

LEMMA ScoresAreNumbers ==
  ASSUME SearchInv, NEW v \in Vectors
  PROVE  scores[v] \in SUBSET Int
BY GAAssumption DEF SearchInv

\* A generation ends once it has been evaluated.
LEMMA EndFacts ==
  ASSUME SearchInv, EndGeneration
  PROVE  /\ \A i \in Index : fitness[i] \in scores[population[i]]
         /\ GenBest \in Int
         /\ \A i \in Index : fitness[i] <= GenBest /\ fitness[i] \in Int
         /\ Leader \in Index /\ fitness[Leader] = GenBest
         /\ \A i \in Index : fitness[i] = GenBest => Leader <= i
         /\ bestFitness' = IF GenBest > bestFitness THEN GenBest ELSE bestFitness
         /\ bestVector' = IF GenBest > bestFitness THEN population[Leader]
                                                   ELSE bestVector
         /\ scores' = scores
<1>1. \A i \in Index : fitness[i] # Pending
  BY DEF EndGeneration, Evaluated
<1>2. fitness \in [Index -> Int]
  BY <1>1 DEF SearchInv
<1>3. bestFitness' = IF GenBest > bestFitness THEN GenBest ELSE bestFitness
  BY <1>2, GenBestIsBest, MaxOfTwo DEF EndGeneration, SearchInv
<1>4. \A i \in Index : fitness[i] \in scores[population[i]]
  BY <1>1 DEF SearchInv
<1>5. /\ bestVector' = IF GenBest > bestFitness THEN population[Leader]
                                                 ELSE bestVector
      /\ scores' = scores
  BY DEF EndGeneration
<1> QED BY <1>2, <1>3, <1>4, <1>5, GenBestIsBest

\* What is remembered has been measured.
LEMMA RememberedStep ==
  ASSUME SearchInv, EndGeneration
  PROVE  /\ bestVector' \in Vectors /\ bestFitness' \in Nat
         /\ BestWasMeasured'
<1>1. bestVector' \in Vectors /\ bestFitness' \in Nat
  BY EndFacts DEF SearchInv, PopulationInv
<1>2. BestWasMeasured'
  BY EndFacts DEF SearchInv, BestWasMeasured
<1> QED BY <1>1, <1>2

\* The stable sort puts the first of the best vectors first.
LEMMA LeaderIsRankedFirst ==
  ASSUME SearchInv, EndGeneration, NEW ranked \in Rankings
  PROVE  ranked[1] = Leader
<1>1. /\ ranked \in [Index -> Index]
      /\ \A i, j \in Index : i < j => Better(ranked[i], ranked[j])
  BY DEF Rankings
<1>2. ranked \in Injection(Index, Index)
  <2>1. ASSUME NEW i \in Index, NEW j \in Index, i < j
        PROVE  ranked[i] # ranked[j]
    <3>1. Better(ranked[i], ranked[j]) /\ ranked[i] \in Index
      BY <1>1, <2>1
    <3>2. fitness[ranked[i]] \in Int /\ ranked[i] \in Nat
      BY <3>1, EndFacts, IndexFacts
    <3> QED BY <3>1, <3>2 DEF Better
  <2>2. \A i, j \in Index : i # j => i < j \/ j < i
    BY IndexFacts
  <2> QED BY <1>1, <2>1, <2>2 DEF Injection, IsInjective
<1>3. ranked \in Surjection(Index, Index)
  BY <1>2, IndexFacts, FS_Injection
<1>4. PICK j \in Index : ranked[j] = Leader
  BY <1>3, EndFacts DEF Surjection
<1>5. CASE j = 1
  BY <1>4, <1>5
<1>6. CASE j # 1
  <2>1. 1 < j /\ 1 \in Index
    BY <1>6, IndexFacts DEF Index
  <2>2. Better(ranked[1], Leader) /\ ranked[1] \in Index
    BY <1>1, <1>4, <2>1
  <2>3. /\ fitness[ranked[1]] <= GenBest /\ fitness[Leader] = GenBest
        /\ fitness[ranked[1]] \in Int /\ GenBest \in Int
        /\ fitness[ranked[1]] = GenBest => Leader <= ranked[1]
        /\ Leader \in Nat /\ ranked[1] \in Nat
    BY <2>2, EndFacts, IndexFacts
  <2> QED BY <2>2, <2>3 DEF Better
<1> QED BY <1>5, <1>6

\* The elite comes first in the next population.
LEMMA BreedLeads ==
  ASSUME SearchInv, Breed
  PROVE  BestLeadsPopulation'
<1>0. EndGeneration /\ PopulationInv
  BY DEF Breed, SearchInv
<1> SUFFICES ASSUME \A v \in Vectors : \A s, t \in scores'[v] : s = t,
                    bestFitness' > 0
             PROVE  population'[1] = bestVector'
  BY DEF BestLeadsPopulation
<1>1. PICK ranked \in Rankings :
        \E children \in [{i \in Index : i > EliteSize} -> Children(ranked)] :
          population' = NextPopulation(ranked, children)
  BY DEF Breed
<1>2. PICK children \in [{i \in Index : i > EliteSize} -> Children(ranked)] :
        population' = NextPopulation(ranked, children)
  BY <1>1
<1>3. population'[1] = population[Leader]
  <2>1. ranked[1] = Leader
    BY <1>0, LeaderIsRankedFirst
  <2> QED BY <1>2, <2>1, IndexFacts DEF NextPopulation
<1>4. CASE GenBest > bestFitness
  BY <1>0, <1>3, <1>4, EndFacts
<1>5. CASE ~(GenBest > bestFitness)
  <2>1. bestFitness' = bestFitness /\ bestVector' = bestVector /\ bestFitness > 0
    BY <1>0, <1>5, EndFacts
  <2>2. bestFitness \in scores[bestVector] /\ bestVector \in Vectors
    BY <2>1 DEF SearchInv, BestWasMeasured
  <2>3. population[1] = bestVector
    BY <1>0, <2>1, EndFacts DEF SearchInv, BestLeadsPopulation, EndGeneration
  <2>4. fitness[1] = bestFitness
    <3>1. fitness[1] \in scores[bestVector]
      BY <1>0, <2>3, EndFacts, IndexFacts
    <3> QED BY <1>0, <2>2, <3>1, EndFacts
  <2>5. GenBest = fitness[1]
    BY <1>0, <1>5, <2>4, EndFacts, IndexFacts DEF SearchInv
  <2>6. Leader = 1
    BY <1>0, <2>5, EndFacts, IndexFacts DEF Index
  <2> QED BY <1>3, <2>1, <2>3, <2>6
<1> QED BY <1>4, <1>5

LEMMA SearchInvInit == Init => SearchInv
BY IndexFacts DEF Init, SearchInv, PopulationInv, Unevaluated,
                  BestWasMeasured, BestLeadsPopulation

LEMMA EvaluateKeepsSearchInv ==
  ASSUME SearchInv, NEW i \in Index, Evaluate(i)
  PROVE  SearchInv'
<1>1. PICK s \in scores[population[i]] : fitness' = [fitness EXCEPT ![i] = s]
  BY DEF Evaluate
<1>2. s \in Int
  BY <1>1, ScoresAreNumbers DEF SearchInv, PopulationInv
<1> QED BY <1>1, <1>2 DEF Evaluate, SearchInv, PopulationInv, BestWasMeasured,
                          BestLeadsPopulation

LEMMA ReturnKeepsSearchInv ==
  ASSUME SearchInv, Return
  PROVE  SearchInv'
<1>1. EndGeneration /\ returned' /\ UNCHANGED <<population, fitness>>
  BY DEF Return
<1>2. scores' = scores
  BY <1>1, EndFacts
<1> QED BY <1>1, <1>2, RememberedStep DEF SearchInv, PopulationInv,
                                          BestLeadsPopulation

LEMMA BreedKeepsSearchInv ==
  ASSUME SearchInv, Breed
  PROVE  SearchInv'
<1>1. EndGeneration /\ fitness' = Unevaluated
  BY DEF Breed, NextScores
<1>2. scores' = scores
  BY <1>1, EndFacts
<1>3. PopulationInv'
  BY BreedKeeps DEF SearchInv
<1> QED BY <1>1, <1>2, <1>3, RememberedStep, BreedLeads DEF SearchInv, Unevaluated

LEMMA HistoryInvInit == Init => HistoryInv
<1> SUFFICES ASSUME Init PROVE HistoryInv
  OBVIOUS
<1>1. EarlyStop \in Nat \ {0} /\ Generations \in Nat \ {0}
  BY GAAssumption DEF ValidSearch, ValidGAConfig
<1>2. history = <<>> /\ Len(history) = 0 /\ history \in Seq(Nat)
  BY DEF Init
<1> QED BY <1>1, <1>2 DEF Init, HistoryInv, HistoryAt

\* The run without improvement ends or grows by this generation.
LEMMA EndKeepsHistoryInv ==
  ASSUME SearchInv, HistoryInv, EndGeneration
  PROVE  HistoryInv'
<1> DEFINE last == Len(history)
<1>1. /\ last \in Nat /\ GenBest \in Int /\ bestFitness \in Nat
      /\ bestFitness' = (IF GenBest > bestFitness THEN GenBest ELSE bestFitness)
      /\ bestFitness' \in Nat
  BY EndFacts, RememberedStep DEF HistoryInv, SearchInv
<1>2. /\ history' = Append(history, bestFitness')
      /\ noImprove' = (IF GenBest > bestFitness THEN 0 ELSE noImprove + 1)
      /\ ~returned
      /\ returned' = (noImprove' >= EarlyStop \/ Len(history') = Generations)
  BY DEF EndGeneration, NoImproveCount
<1>3. /\ history' \in Seq(Nat) /\ Len(history') = last + 1
      /\ \A k \in 1..last : history'[k] = history[k]
      /\ history'[last + 1] = bestFitness'
  BY <1>1, <1>2, AppendProperties DEF HistoryInv
<1>4. noImprove \in 0..last /\ noImprove' \in 0..Len(history')
  BY <1>1, <1>2, <1>3 DEF HistoryInv
<1>5. Len(history') <= Generations
  <2>1. last # Generations /\ last <= Generations /\ Generations \in Nat
    BY <1>2, GAAssumption DEF HistoryInv, ValidSearch, ValidGAConfig
  <2> QED BY <1>1, <1>3, <2>1
<1>6. ASSUME NEW k \in 0..Len(history')
      PROVE  /\ HistoryAt(k)' \in Nat /\ HistoryAt(k)' <= bestFitness'
             /\ HistoryAt(k)' = bestFitness' <=> k >= Len(history') - noImprove'
  <2>1. CASE k = last + 1
    <3>1. HistoryAt(k)' = bestFitness'
      BY <1>1, <1>3, <2>1 DEF HistoryAt
    <3> QED BY <1>1, <1>3, <1>4, <2>1, <3>1
  <2>2. CASE k # last + 1
    <3>1. k \in 0..last
      BY <1>1, <1>3, <2>2
    <3>2. HistoryAt(k)' = HistoryAt(k)
      BY <1>1, <1>3, <3>1 DEF HistoryAt
    <3>3. /\ HistoryAt(k) \in Nat /\ HistoryAt(k) <= bestFitness
          /\ HistoryAt(k) = bestFitness <=> k >= last - noImprove
      BY <3>1 DEF HistoryInv
    <3> QED BY <1>1, <1>2, <1>3, <1>4, <3>1, <3>2, <3>3
  <2> QED BY <2>1, <2>2
<1>7. returned' <=> noImprove' >= EarlyStop \/ Len(history') = Generations
  BY <1>2
<1> QED BY <1>3, <1>4, <1>5, <1>6, <1>7 DEF HistoryInv

LEMMA SearchInductive == Spec => [](SearchInv /\ HistoryInv)
<1>1. Init => SearchInv /\ HistoryInv
  BY SearchInvInit, HistoryInvInit
<1>2. SearchInv /\ HistoryInv /\ [Next]_vars => (SearchInv /\ HistoryInv)'
  <2> SUFFICES ASSUME SearchInv, HistoryInv, [Next]_vars
               PROVE  (SearchInv /\ HistoryInv)'
    OBVIOUS
  <2>1. ASSUME NEW i \in Index, Evaluate(i) PROVE (SearchInv /\ HistoryInv)'
    BY <2>1, EvaluateKeepsSearchInv DEF Evaluate, HistoryInv, HistoryAt
  <2>2. CASE Return
    BY <2>2, ReturnKeepsSearchInv, EndKeepsHistoryInv DEF Return
  <2>3. CASE Breed
    BY <2>3, BreedKeepsSearchInv, EndKeepsHistoryInv DEF Breed
  <2>4. CASE UNCHANGED vars
    BY <2>4 DEF vars, SearchInv, PopulationInv, BestWasMeasured,
                BestLeadsPopulation, HistoryInv, HistoryAt
  <2> QED BY <2>1, <2>2, <2>3, <2>4 DEF Next, Terminated
<1> QED BY <1>1, <1>2, PTL DEF Spec

-----------------------------------------------------------------------------
(* The search and the graph it searches for                                *)

\* The activity's lemmas, of the runs of a generation.
Pool == INSTANCE RunActivityProofs WITH Runs <- Index

\* Refinement: the runs that score the vectors add nothing to the search.
THEOREM PoolImplementsSearch == PoolSpec => Spec
<1>1. PoolInit => Init
  BY DEF PoolInit
<1>2. [PoolNext]_poolVars => [Next]_vars
  BY DEF PoolNext, RunStep, NextGeneration, Next, poolVars, vars
<1> QED BY <1>1, <1>2, PTL DEF PoolSpec, Spec

LEMMA AnySearch == Spec \/ PoolSpec => [](SearchInv /\ HistoryInv)
BY SearchInductive, PoolImplementsSearch, PTL

\* The activity is that of one run, and who has a score has been reported.
PoolInv ==
  /\ Pool!OneRunInv
  /\ \A i \in Index : fitness[i] # Pending => i \in DOMAIN report

\* Both instances count alike.
LEMMA SameCount ==
  ASSUME NEW S
  PROVE  Activity!Cardinality(S) = Pool!Cardinality(S)
BY Zenon DEF Activity!Cardinality, Pool!Cardinality

LEMMA RunStepKeeps ==
  ASSUME NumWorkers = 1, PoolInv, NEW i \in Index, RunStep(i)
  PROVE  PoolInv'
<1>1. Pool!OneRunInv
  BY DEF PoolInv
<1>2. CASE Activity!Start(i) /\ UNCHANGED vars
  <2>1. Pool!Start(i)
    BY <1>2, SameCount
    DEF Activity!Start, Activity!Cleared, Activity!NoEntries, Activity!Reported,
        Pool!Start, Pool!Cleared, Pool!NoEntries, Pool!Reported
  <2>2. UNCHANGED <<fitness, report>>
    BY <1>2 DEF Activity!Start, vars
  <2>3. Pool!OneRunInv'
    BY <1>1, <2>1, Pool!StartKeeps
  <2> QED BY <2>2, <2>3 DEF PoolInv
<1>3. ASSUME NEW n \in Nodes, Activity!Record(i, n), UNCHANGED vars
      PROVE  PoolInv'
  <2>1. Pool!Record(i, n)
    BY <1>3 DEF Activity!Record, Pool!Record
  <2>2. UNCHANGED <<fitness, report>>
    BY <1>3 DEF Activity!Record, vars
  <2>3. Pool!OneRunInv'
    BY <1>1, <2>1, Pool!RecordKeeps
  <2> QED BY <2>2, <2>3 DEF PoolInv
<1>4. CASE Activity!Report(i) /\ Evaluate(i)
  <2>1. Pool!Report(i)
    BY <1>4 DEF Activity!Report, Pool!Report
  <2>2. Pool!OneRunInv'
    BY <1>1, <2>1, Pool!ReportKeeps
  <2>3. DOMAIN report' = DOMAIN report \cup {i}
    BY <2>1 DEF Pool!Report
  <2>4. \A j \in Index \ {i} : fitness'[j] = fitness[j]
    BY <1>4 DEF Evaluate
  <2> QED BY <2>2, <2>3, <2>4 DEF PoolInv
<1> QED BY <1>2, <1>3, <1>4 DEF RunStep

\* A generation is over when all its runs are.
LEMMA NextGenerationKeeps ==
  ASSUME PoolInv, NextGeneration
  PROVE  PoolInv'
<1>1. \A i \in Index : i \in DOMAIN report
  BY DEF NextGeneration, Breed, EndGeneration, Evaluated, PoolInv
<1>2. running = {}
  BY <1>1 DEF PoolInv, Pool!OneRunInv, Pool!TypeOK, Pool!Reported
<1>3. /\ deactivated' = [i \in Index |-> {}] /\ DOMAIN report' = {}
      /\ UNCHANGED <<activity, running>> /\ fitness' = Unevaluated
  BY DEF NextGeneration, Breed, NextScores
<1>4. Pool!OneRunInv'
  BY <1>2, <1>3 DEF PoolInv, Pool!OneRunInv, Pool!TypeOK, Pool!Reported,
                    Pool!ReportDescribesItsRun
<1> QED BY <1>3, <1>4 DEF PoolInv, Unevaluated

-----------------------------------------------------------------------------
(* The properties                                                          *)

\* The vectors that are bred are valid and a run is configured with their
\* values, for any bounds, algorithms and evaluators and any search.
THEOREM ConfiguredAsScored == Spec \/ PoolSpec => []RunsAreConfiguredAsScored
<1>1. SearchInv => RunsAreConfiguredAsScored
  <2> SUFFICES ASSUME PopulationInv, NEW i \in Index
               PROVE  Valid(population[i]) /\ ConfiguredAs(population[i])
    BY DEF SearchInv, RunsAreConfiguredAsScored
  <2>1. population[i] \in Vector(Searched)
    BY DEF PopulationInv, Vectors
  <2>2. Searched \in SUBSET Algorithms
    BY GAAssumption DEF ValidSearch
  <2> QED BY <2>1, <2>2, VectorIsValid, ConfigurationIsTheVectors
<1> QED BY <1>1, AnySearch, PTL

\* The best fitness is never paired with a vector that cannot have it, though
\* vectors are evaluated again and may score worse.
THEOREM BestWasMeasuredCorrect == Spec \/ PoolSpec => []BestWasMeasured
<1>1. SearchInv => BestWasMeasured
  BY DEF SearchInv
<1> QED BY <1>1, AnySearch, PTL

\* Elitism, whatever the elite's share, the ties and the random choices: with
\* fixed scores the best vector is the first of every later population.
THEOREM BestLeadsPopulationCorrect == Spec \/ PoolSpec => []BestLeadsPopulation
<1>1. SearchInv => BestLeadsPopulation
  BY DEF SearchInv
<1> QED BY <1>1, AnySearch, PTL

\* The counter of generations without improvement is about the history: the
\* search returns exactly when EarlyStop entries in a row have not risen, or
\* its generations are used up.
THEOREM StopsWhenStalledCorrect == Spec \/ PoolSpec => []StopsWhenStalled
<1>1. HistoryInv /\ SearchInv => StopsWhenStalled
  <2> SUFFICES ASSUME HistoryInv, SearchInv PROVE StopsWhenStalled
    OBVIOUS
  <2> DEFINE last == Len(history)
  <2>1. /\ last \in Nat /\ noImprove \in 0..last
        /\ EarlyStop \in Nat \ {0}
        /\ returned <=> noImprove >= EarlyStop \/ last = Generations
    BY GAAssumption DEF HistoryInv, ValidSearch, ValidGAConfig
  <2>2. HistoryAt(last) = bestFitness
    BY <2>1 DEF HistoryInv
  <2>3. ASSUME last >= EarlyStop
        PROVE  HistoryAt(last - EarlyStop) = bestFitness <=> noImprove >= EarlyStop
    <3>1. last - EarlyStop \in 0..last
      BY <2>1, <2>3
    <3>2. HistoryAt(last - EarlyStop) = bestFitness
            <=> last - EarlyStop >= last - noImprove
      BY <3>1 DEF HistoryInv
    <3> QED BY <2>1, <3>2
  <2>4. noImprove >= EarlyStop => last >= EarlyStop
    BY <2>1
  <2> QED BY <2>1, <2>2, <2>3, <2>4 DEF StopsWhenStalled
<1> QED BY <1>1, AnySearch, PTL

\* With one worker every report of every generation names the nodes that
\* became inactive in its own run: no other run is under way when it starts,
\* and nothing is left of the one before.
THEOREM ReportsDescribeTheirRunsCorrect ==
  ASSUME NumWorkers = 1
  PROVE  PoolSpec => []ReportsDescribeTheirRuns
<1>1. PoolInit => PoolInv
  <2> SUFFICES ASSUME PoolInit PROVE PoolInv
    OBVIOUS
  <2>1. Pool!Init
    BY DEF PoolInit, Activity!Init, Activity!NoEntries, Pool!Init, Pool!NoEntries
  <2>2. Pool!OneRunInv
    BY <2>1, Pool!OneRunInit
  <2> QED BY <2>2 DEF PoolInit, Init, Unevaluated, PoolInv
<1>2. PoolInv /\ [PoolNext]_poolVars => PoolInv'
  <2> SUFFICES ASSUME PoolInv, [PoolNext]_poolVars PROVE PoolInv'
    OBVIOUS
  <2>1. ASSUME NEW i \in Index, RunStep(i) PROVE PoolInv'
    BY <2>1, RunStepKeeps
  <2>2. CASE NextGeneration
    BY <2>2, NextGenerationKeeps
  <2>3. CASE ((Return \/ Terminated) /\ UNCHANGED activityVars) \/ UNCHANGED poolVars
    <3>1. UNCHANGED <<fitness, activity, running, deactivated, report>>
      BY <2>3 DEF Return, Terminated, vars, activityVars, poolVars
    <3> QED BY <3>1 DEF PoolInv, Pool!OneRunInv, Pool!TypeOK, Pool!Reported,
                        Pool!ActivityOf, Pool!ReportDescribesItsRun
  <2> QED BY <2>1, <2>2, <2>3 DEF PoolNext
<1>3. PoolInv => ReportsDescribeTheirRuns
  BY DEF PoolInv, Pool!OneRunInv, Pool!ReportDescribesItsRun,
         ReportsDescribeTheirRuns, Activity!ReportDescribesItsRun
<1> QED BY <1>1, <1>2, <1>3, PTL DEF PoolSpec

=============================================================================
