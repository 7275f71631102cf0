--------------------------- MODULE MetaAlgorithmGA ---------------------------
(***************************************************************************)
(* The genetic search over parameter vectors: evaluate the population in   *)
(* parallel, remember the best vector, stop when nothing has improved for  *)
(* EarlyStop generations, otherwise breed the next population from the     *)
(* elite.                                                                  *)
(*                                                                         *)
(* The evaluator of a search is a table of the scores an evaluation of     *)
(* each vector may yield: several, when the runs it is scored by depend on *)
(* how their threads are scheduled.  Random choices are left open; with a  *)
(* mutation rate of 0 a search has fewer of them.                          *)
(***************************************************************************)
EXTENDS CanonicalVector, Sequences, FiniteSets, FiniteSetsExt

CONSTANTS
  Searched,       \* algorithm_names: the algorithms of the vectors
  Evaluators,     \* the evaluators a search may be given
  PopulationSize, \* population_size
  Generations,    \* generations
  ElitePercent,   \* elite_fraction, in percent
  EarlyStop,      \* early_stop_generations
  Pending         \* not evaluated yet

\* The vectors of a search.
Vectors == Vector(Searched)

\* GAConfig.validate
ValidGAConfig ==
  /\ PopulationSize \in Nat \ {0, 1}
  /\ Generations \in Nat \ {0}
  /\ ElitePercent \in 10..90
  /\ EarlyStop \in Nat \ {0}

\* MetaConfig.validate, without which there is no search.
ValidSearch ==
  /\ Searched # {} /\ Searched \subseteq Algorithms
  /\ ValidGAConfig

ASSUME GAAssumption ==
  /\ ValidSearch
  /\ Evaluators \subseteq [Vectors -> (SUBSET Int) \ {{}}]
  /\ Pending \notin Int

VARIABLES
  scores,      \* fitness_evaluator, or evaluation_suite
  population,  \* the vectors of the running generation
  fitness,     \* their scores
  bestVector, bestFitness,
  history,     \* fitness_history
  noImprove,   \* no_improve_count
  returned     \* evolve has returned bestVector and history

vars == <<scores, population, fitness, bestVector, bestFitness, history,
          noImprove, returned>>

Index == 1..PopulationSize
AnyScore == UNION {scores[v] : v \in Vectors}
Unevaluated == [i \in Index |-> Pending]

TypeOK ==
  /\ scores \in Evaluators
  /\ population \in [Index -> Vectors]
  /\ \A i \in Index : fitness[i] \in scores[population[i]] \cup {Pending}
  /\ bestVector \in Vectors
  /\ bestFitness \in AnyScore \cup {0}
  /\ history \in Seq(AnyScore \cup {0}) /\ Len(history) <= Generations
  /\ noImprove \in 0..EarlyStop
  /\ returned \in BOOLEAN

\* Nothing tells the baseline from the others: its parameters are random too.
Init ==
  /\ scores \in Evaluators
  /\ population \in [Index -> Vectors]
  /\ fitness = Unevaluated
  /\ bestVector = population[1]
  /\ bestFitness = 0
  /\ history = <<>>
  /\ noImprove = 0
  /\ returned = FALSE

\* One evaluation of the pool ends.  Its only effect is its score, so it does
\* not matter which of the others are running.
Evaluate(i) ==
  /\ ~returned /\ fitness[i] = Pending
  /\ \E s \in scores[population[i]] : fitness' = [fitness EXCEPT ![i] = s]
  /\ UNCHANGED <<scores, population, bestVector, bestFitness, history,
                 noImprove, returned>>

Evaluated == \A i \in Index : fitness[i] # Pending

GenBest == Max({fitness[i] : i \in Index})

\* Mutant: the search remembers the first vector.
FirstOfPopulation == 1

\* The first vector with the best score of the generation.
Leader == Min({i \in Index : fitness[i] = GenBest})

\* Mutant: the worst come first.
BetterLast(i, j) ==
  fitness[i] < fitness[j] \/ (fitness[i] = fitness[j] /\ i < j)

\* The order of the stable sort, highest score first.
Better(i, j) ==
  fitness[i] > fitness[j] \/ (fitness[i] = fitness[j] /\ i < j)

EliteSize == Max({1, (PopulationSize * ElitePercent) \div 100})

\* The population in that order: exactly one.
Rankings ==
  {ranked \in [Index -> Index] :
     \A i, j \in Index : i < j => Better(ranked[i], ranked[j])}

Elite(ranked) == {population[ranked[i]] : i \in {j \in Index : j <= EliteSize}}

\* Mutant: only the length of the run without improvement grows.
NeverReset == noImprove + 1

NoImproveCount == IF GenBest > bestFitness THEN 0 ELSE noImprove + 1

\* The elite is evaluated again with the others.
NextScores == Unevaluated

EndGeneration ==
  /\ ~returned /\ Evaluated
  /\ bestFitness' = Max({bestFitness, GenBest})
  /\ bestVector' = IF GenBest > bestFitness THEN population[Leader]
                                            ELSE bestVector
  /\ noImprove' = NoImproveCount
  /\ history' = Append(history, bestFitness')
  /\ UNCHANGED scores
  /\ returned' = (noImprove' >= EarlyStop \/ Len(history') = Generations)

\* The loop is left, or entered again with the elite and its children.
Return == EndGeneration /\ returned' /\ UNCHANGED <<population, fitness>>

\* What two parents may have for a child.
Offspring ==
  [v \in Vectors |-> [w \in Vectors |->
     UNION {Mutation(c) : c \in Crossover(v, w)}]]

\* Children of two parents of the elite, who may be the same.
Children(ranked) ==
  UNION {UNION {Offspring[v][w] : w \in Elite(ranked)} : v \in Elite(ranked)}

NextPopulation(ranked, children) ==
  [i \in Index |-> IF i > EliteSize THEN children[i] ELSE population[ranked[i]]]

Breed ==
  /\ EndGeneration /\ ~returned'
  /\ \E ranked \in Rankings :
       \E children \in [{i \in Index : i > EliteSize} -> Children(ranked)] :
         population' = NextPopulation(ranked, children)
  /\ fitness' = NextScores

Terminated == returned /\ UNCHANGED vars

Next == (\E i \in Index : Evaluate(i)) \/ Return \/ Breed \/ Terminated

Spec == Init /\ [][Next]_vars

-----------------------------------------------------------------------------
\* Elitism: where a vector always gets the same score, the best one found so
\* far leads every later population, so no generation is worse than the last.
BestLeadsPopulation ==
  /\ \A v \in Vectors : \A s, t \in scores[v] : s = t
  /\ bestFitness > 0
  /\ ~returned
  => population[1] = bestVector

\* The best fitness is one that the best vector can get, even though the same
\* vector may score worse when it is evaluated again.
BestWasMeasured == bestFitness > 0 => bestFitness \in scores[bestVector]

\* The orchestrator's start() accepts every vector that is bred, and the run
\* that scores it is configured with its values.
RunsAreConfiguredAsScored ==
  \A i \in Index : Valid(population[i]) /\ ConfiguredAs(population[i])

\* "Stop if no improvement for N generations": the search returns exactly when
\* its budget is used up or the history has not risen over EarlyStop entries.
HistoryAt(k) == IF k = 0 THEN 0 ELSE history[k]

StopsWhenStalled ==
  LET last == Len(history) IN
  returned <=> \/ last = Generations
               \/ /\ last >= EarlyStop
                  /\ HistoryAt(last) = HistoryAt(last - EarlyStop)

=============================================================================
