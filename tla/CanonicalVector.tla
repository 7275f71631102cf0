--------------------------- MODULE CanonicalVector ---------------------------
(***************************************************************************)
(* Parameter vectors: the parameters a vector of some algorithms has, the  *)
(* vectors that construction, crossover and mutation may yield, and the    *)
(* configuration a run is given.  A parameter is named by the pair of its  *)
(* owner, an algorithm or for the base parameters "vector", and its name,  *)
(* as the code prefixes the names; values are integers, shares in percent. *)
(***************************************************************************)
EXTENDS Integers, FiniteSets

CONSTANTS
  Algorithms,  \* the registered algorithms
  Own,         \* the parameters of each algorithm's definition
  Low, High    \* the bounds of each parameter

BaseNames == {"max_iterations", "convergence_threshold",
              "algorithm_influence", "material_weight_gap"}

Base == {"vector"} \X BaseNames

\* Names that the registry would not prefix; no registered definition has them.
NotPrefixed == {"max_iterations", "convergence_threshold"}

\* get_algorithm_parameters: the parameters of an algorithm, with its prefix.
Prefixed(a) == {a} \X Own[a]

\* _parameter_definitions of a vector of the algorithms A.
Definitions(A) == Base \cup UNION {Prefixed(a) : a \in A}

ASSUME VectorAssumption ==
  /\ \A p \in Definitions(Algorithms) :
       Low[p] \in Int /\ High[p] \in Int /\ Low[p] <= High[p]
  /\ \A a \in Algorithms : "policy_weight" \in Own[a] => Low[<<a, "policy_weight">>] >= 0
  /\ "vector" \notin Algorithms /\ Low[<<"vector", "max_iterations">>] > 0
  /\ \A a \in Algorithms : Own[a] \cap NotPrefixed = {}

\* _random_value_for
InBounds(p) == Low[p]..High[p]

\* A value for each parameter of P, drawn at random.
Draws(P) ==
  {g \in [P -> UNION {InBounds(p) : p \in P}] : \A p \in P : g[p] \in InBounds(p)}

\* from_dict: the parameters that data has are set, the others are random.
FromDict(data, A) ==
  {[algorithms |-> A,
    parameters |-> [p \in Definitions(A) |-> IF p \in DOMAIN data THEN data[p]
                                                                ELSE g[p]]] :
     g \in Draws(Definitions(A) \ DOMAIN data)}

\* __init__: all parameters are random.
Vector(A) ==
  {[algorithms |-> A, parameters |-> g] : g \in Draws(Definitions(A))}

\* validate
Valid(v) ==
  \A p \in Definitions(v.algorithms) :
    /\ p \in DOMAIN v.parameters
    /\ Low[p] <= v.parameters[p] /\ v.parameters[p] <= High[p]

\* crossover: each parameter is that of v, or that of w if w has it.
Crossover(v, w) ==
  UNION {FromDict([p \in DOMAIN v.parameters |->
                     IF p \in S THEN w.parameters[p] ELSE v.parameters[p]],
                  v.algorithms) :
           S \in SUBSET (DOMAIN v.parameters \cap DOMAIN w.parameters)}

\* mutate: each parameter is kept, or drawn again.
Mutation(v) ==
  UNION {UNION {FromDict([p \in DOMAIN v.parameters |->
                            IF p \in S THEN g[p] ELSE v.parameters[p]],
                         v.algorithms) : g \in Draws(S)} :
           S \in SUBSET DOMAIN v.parameters}

\* The names of P in sorted order; nothing depends on which order it is, but
\* that it is the same whenever P is.
Sorted(P) ==
  CHOOSE s \in [1..Cardinality(P) -> P] : \A p \in P : \E i \in DOMAIN s : s[i] = p

\* to_list: the values of the parameters that the vector has.
ToList(v) ==
  LET names == Sorted(DOMAIN v.parameters)
  IN [i \in DOMAIN names |-> v.parameters[names[i]]]

\* from_list: the values, by position, of the parameters that a vector of A
\* has; a list of another length is refused.
FromList(values, A) ==
  LET names == Sorted(Definitions(A)) IN
  IF DOMAIN values # DOMAIN names
  THEN {}
  ELSE FromDict([p \in Definitions(A) |->
                   values[CHOOSE i \in DOMAIN names : names[i] = p]], A)

-----------------------------------------------------------------------------
(* DistributedAlgorithmConfig.from_canonical_vector                        *)

\* "vector.get(p) or default": 0 counts as missing.
OrDefault(v, name, default) ==
  IF v.parameters[<<"vector", name>>] = 0
  THEN default
  ELSE v.parameters[<<"vector", name>>]

\* Mutant: influence and gap are tested for truth, too.
GivenIfTrue(v, name, default) == OrDefault(v, name, default)

\* "vector.get(name) if it is not None else default"
Given(v, name, default) ==
  IF <<"vector", name>> \in DOMAIN v.parameters
  THEN v.parameters[<<"vector", name>>]
  ELSE default

Configuration(v) ==
  [max_iterations |-> OrDefault(v, "max_iterations", 100),
   convergence_threshold |-> OrDefault(v, "convergence_threshold", 5),
   algorithm_influence |-> Given(v, "algorithm_influence", 15),
   material_weight_gap |-> Given(v, "material_weight_gap", 10),
   algorithm_parameters |->
     [a \in {b \in v.algorithms : Own[b] # {}} |->
        [p \in Own[a] |-> v.parameters[<<a, p>>]]]]

\* get_policy_weight: the algorithm's parameter, or 1.  A negative weight
\* raises in every tick in which the policy proposes.
PolicyWeightOf(c, a) ==
  IF a \in DOMAIN c.algorithm_parameters /\ "policy_weight" \in Own[a]
  THEN c.algorithm_parameters[a]["policy_weight"]
  ELSE 1

\* A run is configured with the vector's values, all of them but a
\* convergence threshold of 0: the vector that is scored is the one that ran.
ConfiguredAs(v) ==
  LET c == Configuration(v) IN
  /\ \A name \in BaseNames :
       \/ c[name] = v.parameters[<<"vector", name>>]
       \/ name = "convergence_threshold" /\ v.parameters[<<"vector", name>>] = 0
  /\ \A a \in v.algorithms : \A p \in Own[a] :
       c.algorithm_parameters[a][p] = v.parameters[<<a, p>>]

=============================================================================
