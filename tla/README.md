# TLA+ models of the distributed matching runtime

The repository runs a distributed weighted graph matching: every vertex is an
autonomous endpoint that sees its neighbours, its incident edge weights and its
mail, and negotiates a match by messages; a thread pool ticks the endpoints; an
orchestrator starts a run and reads the result; a genetic search scores
parameter vectors by such runs. These modules model the runtime, check it with
TLC on small graphs and prove its main safety properties with TLAPS for every
graph. Paths below are relative to the repository's inner `src/`.

## The system

| part | state | operations | interacts with |
|---|---|---|---|
| endpoint protocol (`simulation/endpoint_protocol.py`) | none of its own; works on the node state | `process_messages` (PROPOSE, ACCEPT, REJECT, CONFIRM, CANCEL, MATCHED), `_resolve_received_proposals`, `select_proposal`/`start_proposal`, `expire_if_needed`, `can_quiesce` | sends through the communicator; called by the node's tick |
| node state (`state/node.py`) | matched_to, tentative partner, deadline, pending flag, attempt, epoch, unavailable neighbours, terminal flag | begin/clear a negotiation, mark a neighbour, mark terminal | owned by one node, read by the orchestrator at the end |
| transport (`communication/`) | one queue per recipient, a lock | `send` appends, `receive` empties | shared by every thread |
| node (`simulation/distributed_node.py`) | finished, local clock, policies, advisors | `execute_distributed_round`: drain, handle, expire, select, propose, vote, finish or advance the clock | ticked by the executor |
| local graph (`graph/local_graph.py`) | neighbours and incident weights, immutable | lookups | read by all of a node |
| executor (`simulation/parallel_node_executor.py`) | ready queue, ticks in flight, tick count | submit, wait, collect, requeue, stop at the watchdog | calls ticks, reads `is_active` |
| orchestrator (`meta/distributed/orchestrator.py`) | nodes, config, transport | `start`, `run`, `execute`, `_collect_results` | builds everything, reads the final states |
| convergence votes (`simulation/local_convergence.py`) | own vote, known votes and their rounds | process, decide, gossip, should_stop | shares the mailboxes; its result is read by nothing in a run |
| proposal policies (`algorithms/proposal_policy.py`, `algorithms/implementations/`) | parameters | propose per policy, combine, select a candidate | called in a tick, before proposing |
| Wattenhofer advisor (`algorithms/implementations/wattenhofer_graph.py`) | stage, round, phase, notices, choices | stages driven by SYNC notices | same mailboxes; recommends neighbours |
| graph manager (`graph/graph_manager.py`) | topology, run activity under a lock | lookups, `start_run`, `record_node_deactivation` | shared by concurrent runs of the genetic search |
| genetic search (`meta/core/`) | population, best vector, history | evaluate in parallel, select, cross over, mutate | calls `execute` |
| vector, configuration, registry (`meta/core/`, `config/`) | parameters within bounds, registered algorithms | create, validate, snapshot | read at start |

What is hard about it, and what correct means:

* **Interleaving.** Endpoints run in different threads and share only the
  mailboxes; a handler sends several messages and others run in between. Correct:
  a match once written is final, no vertex is in two reported pairs, a neighbour
  is written off only when it is matched.
* **Commitment.** A match takes PROPOSE, ACCEPT, CONFIRM and an acknowledgement,
  and the two ends commit at different times. Correct: nobody commits to an
  unanswered proposal, and a committed partner is abandoned by a deadline or
  not at all. The deadline does abandon it, see *Findings*.
* **Stale messages.** Refusals and cancellations of an earlier negotiation with
  the same partner arrive during a later one. Attempt numbers tell them apart,
  but two crossing proposals may carry the same number.
* **Time-outs.** A tick is a unit of local time. Correct: no negotiation lasts
  for ever, and with one worker no deadline passes at all.
* **Scheduling.** Correct: no node is in two ticks, no active node is forgotten,
  the run ends with the pool empty, and an exception reaches the caller.
* **The outcome.** `quiescent` should mean a maximal matching.

## Modules

| module | what it models |
|---|---|
| `Topology` | the graph as constants: `Nodes`, `Edges`, `Weight`; the sort key (weight, -identifier) |
| `Matching` | the promise: edges are matched one at a time, for good, no vertex twice (`Safe`), until the matching is maximal (`Spec`) |
| `EndpointProtocol` | the endpoints, their node state, their ticks and the mailboxes, with no restriction on which thread runs |
| `ParallelNodeExecutor` | the submit/wait/collect loop over abstract nodes |
| `DistributedOrchestrator` | the composition: an endpoint steps only while one of its ticks is in the pool, and its tick's last step frees the worker; the outcome of `execute` |
| `ProposalPolicies` | what the greedy, Itai and Luby policies propose, and the candidate chosen from it and from advice, as operators |
| `WattenhoferProtocol` | the staged advisor of every node and its messages |
| `LocalConvergence` | the votes on stopping |
| `DistributedNode` | whole nodes: `DistributedOrchestrator` with the advisor, the policies' candidate and the vote between the steps of each endpoint |
| `AlgorithmRegistry` | the registry's shared instance and the threads that create, change and read it |
| `RunActivity` | the activity projection of a graph shared by several runs |
| `CanonicalVector` | what vectors are: construction, crossover, mutation, validation, and the configuration of a run, as operators |
| `MetaAlgorithmGA` | the generation loop of the genetic search |
| `PopulationEvaluation` | `MetaAlgorithmGA` with each evaluation a run of `RunActivity` on the one graph |
| `MC...` | the small graphs and other instances |
| `EndpointProtocolProofs`, `ParallelNodeExecutorProofs`, `WattenhoferProtocolProofs`, `DistributedNodeProofs`, `OneWorkerProofs`, `RunActivityProofs`, `AlgorithmRegistryProofs`, `PopulationEvaluationProofs` | the proofs |

**EndpointProtocol.** `mailbox` is the transport's queues, `batch` the messages
a tick has drained and not yet handled, `offers` the dictionary `proposals` of
`process_messages`, `outbox` what the running handler has still to send, `step`
the place in `execute_distributed_round`. `tentative` holds the four
`PROPOSAL_*`/`TENTATIVE_PARTNER` keys, with the deadline kept as the ticks left
to it (`left`), so that clocks need no bound; `epoch` is `NEGOTIATION_EPOCH`.
The rest bears the names of the code. One action is one drain (`Receive`), one
message handled (`ReceivePropose` ... `ReceiveMatched`), the answers to the
proposals of the batch (`ResolveMatched`, `ResolveBusy`, `ResolveFree`),
`expire_if_needed` (`Expire`), candidate selection and `start_proposal`
(`Propose`), `_finish_if_terminal` (`Finish`), the clock (`Continue`), or the
delivery of one message (`Send`). A handler's effect on its own node is one
step because no other thread can see it; what others can see, the messages,
goes out one by one from `outbox`, and the thread does nothing else meanwhile.
A REJECT with reason "matched" is the type `REJECT_MATCHED`, a CONFIRM with the
acknowledgement set `CONFIRM_ACK`.

Abstracted: the candidate of `Propose` is any eligible neighbour, or with
`MaySkip` none, which contains whatever the policies and advisors select.
Weights in messages are the graph's. A message whose sender is not a neighbour
is ignored by the code; the guard is not modelled because no such message is
ever sent (the proved invariant contains it: messages go along edges).
Convergence votes and advisor messages are not put into these mailboxes: the
protocol skips them, and `DistributedNode` keeps them in mailboxes of their own. The assignment `matched_to` is only ever made by a
CONFIRM, so there is no action that clears it.

**ParallelNodeExecutor.** `ready` and `scheduled` are the code's; `inFlight` the
nodes with a future, `done` those whose future is done, `collected` the set
`wait` returned and the loop has not yet gone through; `phase` is the place in
the loop. The one-worker branch of the code ticks in the caller's thread; it is
the instance `MaxWorkers = 1`, where a submitted tick completes and is collected
before anything else happens. Alone, the module lets a tick leave its node
active, make it inactive, or raise.

**DistributedOrchestrator.** Instantiates the executor with
`active <- Nodes \ finished` and `raised <- {}` (no handler of the model raises).
`Quiescent` is the report's outcome, `ReportedMatching` what
`_collect_results` returns.

**ProposalPolicies.** `Proposals` is `propose_to_neighbors` of each
policy, `ProposalsPerAlgorithm` adds the eligibility filter of
`RegisteredProposalPolicy.propose` and the advice, `Candidates` is
`select_weight_aware_candidate`. Shares are whole percents and fractions are
compared by cross-multiplication; the code uses floats, so two scores that
differ by rounding only are ties here. Luby's random activation is a choice. A graph with
weight 0 is excluded by `PoliciesAssumption`: the code divides by the largest
weight there.

**DistributedNode.** One tick is `execute_distributed_round` in the code's
order: `Drain` takes the node's mail for all its parts, `EndpointStep` handles the
endpoint's messages and its deadline, `AdvisorStep` lets the advisor retire, start,
handle and advance, `SelectProposal` proposes to the candidate of the policies and
the advice, `CastVote` decides and gossips, `NodeEndTick` finishes the node or
starts its next round. `Advisors` is `WattenhoferProtocol`
instantiated with the endpoint's own `matchedTo`, `unavailable` and `finished`, so
that commitments are real ones; `Advice` is its recommendation and `Asked` is
`advisors_are_ready`, which decides whether the policies are asked.
Each part has a mailbox of its own. In the code they share one, and each part skips the
messages of the others, so that only the order between parts is lost.
An ensemble without the advisor (`HasAdvisor` false) leaves its variables alone.

**LocalConvergence.** `HearVotes` is `process_messages`, `Vote` is `decide` and
`gossip` to at most three neighbours, `ShouldStop` the quorum. `lastWeight` is
`last_matching_weight`, and `matchedEdges` the key `matched_edges` of the state,
whose weights `CurrentWeight` adds up. No code writes that key, so no action does.
No property is about the votes, since no decision of a run reads one.

**WattenhoferProtocol.** `advisor[n]` is the object's fields as a record, `at`
its place (phase, round, stage); the messages carry the place they were sent in.
`Drain`, `Retire`, `Start` and one `Receive...` per message type are the calls
`execute_distributed_round` makes; `Begin...` and `EndRound` enter the stages
when `Synchronized` lets `Advance` leave the one before. `stage_notices` is not
kept: it is always the set of senders of the notices for the current place
(`StageNotices`). `Favourite` and `Recommendations` are `recommendations`, with
its `or` that passes over vertex 0 (`IsTruthy`). Alone, the module reduces the
endpoint to what the advisor sees of it:
a commitment at some drain (for `Committers`), the MATCHED messages that follow,
and the end of the node. Refusals with reason "matched", which the endpoint also takes
as MATCHED, only anticipate those messages and are left out. `IdleTick` is a tick with nothing
to do, so that the node's fairness does not depend on mail. Random selections
are choices, with or without the possibility of none (`MayPass`).

**RunActivity.** One number per entry of `_run_activity`, the run it stems
from, stands for its reason and tick. `Start`, `Record` and `Report` are
`start_run`, `record_node_deactivation` and `run_activity`, each atomic under the
graph's lock; runs are taken from the pool in order, at most `NumWorkers` at a time.

**CanonicalVector.** A vector is its algorithms and its parameters, each named
by owner and name as the registry's prefixes do, with values in whole percents
or counts. Random values and random choices are sets: `Vector`, `Crossover`,
`Mutation` and `FromDict` are all the results the methods of those names may have,
`Configuration` is `from_canonical_vector`, `ToList` and `FromList` the list form
and its reading, `PolicyWeightOf` is `get_policy_weight`. The registry would leave the names
`max_iterations` and `convergence_threshold` of an algorithm without a prefix;
no registered algorithm has such a parameter, and `VectorAssumption` says so.

**MetaAlgorithmGA.** The variables are the locals of `evolve`. `Evaluate` is one
result of the pool, `Return` and `Breed` the two ways an iteration of the loop
ends. A child is any `Offspring` of two parents of the elite; the mutation rate,
which grows as the search stalls, decides only how likely a mutation is, and is
left open (with a base rate of 0 there is none, a subset of what is modelled). An
evaluation yields any of the scores that
`scores`, the search's evaluator, has for the vector: it runs the threads of a
whole execution, so the same vector may score differently twice. `Init` takes
any of `Evaluators`, so one run of TLC covers searches of several kinds. The assumption is `GAConfig.validate`; a search
built from loose arguments is not validated by the code.

**AlgorithmRegistry.** One action is one locked section, or one read outside of the
locks: `Call` is the unlocked check of `instance()`, `Acquire` to `Publish` its
locked part, `Return` the second read of `_instance`. `get_all_definitions` is a comprehension
over the builder's dictionary, which has no lock, so it is a step for each entry:
`Iterate` makes the iterator, which remembers the dictionary's size, `TakeEntry` takes the
entry at its place, `EndCopy` finds no other one. `builder` is a sequence because
a dictionary is iterated in the order of entry, and starts in any order. If another thread has
changed the size in between, Python raises RuntimeError (`FailCopy`): out of `instance()`, with
the class lock released and no instance made, or out of `reload()`, whose `reset()` has
already been. `Publish` and `Swap` store a copy that has ended. A thread that prepares a run (`Prepare`, `Ask`, `EndStage`) asks for one
algorithm at a time, once for the vector, again for its configuration and again
for the policies, with an `instance()` of its own for each. `cleared`, `removed`,
`interrupted` and `disturbed` are history variables: no guard reads them. What an
algorithm's definition contains is left out; a definition is its name.

**PopulationEvaluation.** `RunStep` is a step of one evaluation: its run starts,
a node of it becomes inactive, or it ends and its vector has a score. The runs of
a generation are numbered like the population (`Runs <- Index`), and
`NextGeneration` has new ones on the same graph, whose projection stays as it is.

## Runs

| run | instance | shows |
|---|---|---|
| `pair` | the pair 0 - 1 with timeout 2 and 3 attempts, where policies may skip and 0 may be withdrawn; and the path 0 - 1 - 2, ticked one node at a time, 1 attempt each | an acknowledgement comes from the partner; a matched node has no negotiation; no commitment to an unanswered proposal; only the own deadline takes a proposer from a committed partner; every negotiation ends, even with a node that never answers |
| `pair_confirmed` | one edge, timeout 3, 2 attempts | *violated*: "only if both confirmed" |
| `executor` | 4 nodes, 2 workers, watchdog 7 | the loop's invariants, termination, exceptions |
| `sequential` | 5 nodes (cycle and chord), 1 worker, watchdog 60, policies always propose | refinement of `Matching!Spec`: a maximal matching is reached; quiescent before the watchdog |
| `parallel_pair` | one edge, 2 workers | *violated*: quiescent means maximal |
| `policies` | cycle of 4, 1 worker, Itai, Luby and the advisor, votes, watchdog 200 | refinement of `Matching!Safe` by whole nodes; a quiescent report is maximal and mutual; no deadline passes; nobody stops too early; policies never wait for advice |
| `silent` | cycle of 4, 1 worker, the three local policies, votes, watchdog 200 | *violated*: the result is maximal |
| `advisor` | path of 3; one worker, 1 phase of 2 rounds, the middle endpoint may commit; and every interleaving of a first round | nobody runs ahead of a neighbour it counts on; an edge is retained at both ends; advice agrees and is for a retained edge |
| `watt_stall` | path of 3, 1 worker | *violated*: advisors end |
| `search` | Luby with one parameter, 4 vectors, population 3, a graph of 2 nodes, 1 worker; fixed, varying and negative scores | the best vector leads every later population; its fitness was measured; early stop agrees with the history; vectors are valid and their runs configured with their values; a report describes its run |
| `search_shared` | the same, 2 workers | *violated*: a report describes its run |
| `registry` | 2 threads, 2 instances, one built-in algorithm and one other | one shared instance until a reset; `instance()` returns None only across a reset; a copy of the builder that ends is the whole builder; built-in algorithms are missing only if removed and not loaded again; a vector is partial only if disturbed; every call returns |

Bounds. `MaxEpoch` is how many attempts a node may number; it stops `Propose`,
nothing else, and keeps the mailboxes finite. Two attempts are needed for a
message of one negotiation to meet the next one with the same partner, three for
crossing attempts on top of it: hence `pair`.
`ProposalTimeout` is 3 in the code; smaller values only make deadlines pass
earlier. The initial states of `pair` withdraw any of 0 and 2, and its
constraint `PairOrPath` makes two instances of that. With 2 withdrawn nobody asks it, so
that 0 and 1 are a pair in every interleaving, or 1 alone asks a withdrawn 0. With
2 there, the path is followed for one tick after the other: it adds the third party that is
refused and informed, and `ReceiveMatched` with it. A constraint cuts behaviours off
and so can hide a violation of `NegotiationsEnd`, which is checked of what remains; the pair
itself is not cut. A pair is the smallest graph with every kind of race between two ends;
besides the path, a third party comes in with the four- and five-node
graphs, which have odd cycles, competition and ties and are checked with one
worker in every initial order of the queue. Three endpoints in every interleaving are
left to the proofs: `RunUnavailableCorrect`, `RunTerminalUnmatchedCorrect`,
`RunMatchIsFinalCorrect` and `RunImplementsMatching` hold for every graph and any
number of workers. The watchdog is what `EndsQuiescentCorrect` proves to be enough where quiescence is
the question (`sequential`: 2 * 5 * 6 = 60 ticks, with a `MaxEpoch` of 60 that cannot
be reached before), and
reached where the watchdog itself is (`executor`, `silent`). Vertex 0 is in the small graphs on purpose: it is a legal identifier and false
in Python. The runs with policies keep the watchdog of the code, 50 ticks per node
and so 200, and a `MaxEpoch` of 5 that they do not reach. An advisor's stages
differ only in their place; two rounds show every passage between stages and
from a round to the next. The state space of three advisors allows that in every
interleaving for the first round only (`InterleavedBound`), and beyond it with one
worker, which ticks a node at a time in an order that is left open; there the
middle endpoint may commit at any tick, which retires its advisor and tells both
neighbours. The step to a further phase is modelled and not reached within these bounds. In `policies` the advisor has one phase
of one round, after which it has no more to say and the policies go on alone.
`MaxInstances` of `registry` allows one `reset_instance()`, two threads are enough
for a caller that waits for the lock or reads while another reloads, and
the second algorithm, which is not built in, is registered, requested and removed. It enters the
builder at any moment, also while a copy is under way, which then fails. The builder is cleared at most
once (`cleared`): cleared again and again it could make every copy fail, and a caller
that waits for the lock would wait for ever. The vectors of `search` have two
parameters, a base one and one of the algorithm, that are 0 or 1: crossover can
make a vector that neither parent is, two vectors tie, and 0 is a value Python
takes for false. A population of three with an elite of two lets children be
better or worse than their parents.

Fairness. `EndpointProtocol!Fairness` is weak fairness of each node's steps: a
tick is finite and the executor resubmits every active node from a FIFO queue
(`NoActiveNodeForgotten`). `ParallelNodeExecutor!Fairness` and `RunFairness` are
weak fairness of the caller's thread and of each worker with a tick; no tick
blocks. `WattenhoferProtocol` has weak fairness of each node's ticks for
the same reason, and `MCSpec` of the one worker's. `AlgorithmRegistry` has weak fairness of a thread within
`instance()`: the class lock is held across no wait, and CPython wakes a waiter. It is weak,
and suffices, because a holder publishes an instance, after which callers pass
the lock by, or its copy fails, for which the builder must have changed its size; both resets and
changes of size are bounded (`MaxInstances`, `Names` and `cleared`). The other modules state safety only. No fairness is assumed of what a policy selects, or of which message
goes first. Deadlock checking is on in every run: finished systems stutter by an
explicit action whose guard says that they are finished.

Every property of a passing run is shown to be able to fail by a mutant of the
code's definitions, which stands next to its original and is marked
`Mutant:` (a dropped guard, a missing message, a wrong reason).

## Proofs

`EndpointProtocolProofs` proves for every finite or infinite graph, timeout,
attempt bound, policy and set of pre-matched nodes:

* `TypeCorrect`: `Spec => []TypeOK`. `TypeOK` alone is not inductive, since
  the clock decrements `left`; `TypeInv` adds `DeadlineAhead`: between the
  expiry check and the end of a tick a negotiation has a tick left.
* `UnavailableCorrect`, `TerminalUnmatchedCorrect`,
  `MatchedHasNoNegotiationCorrect`, `AckCorrect`: the four state invariants,
  and `MatchIsFinalCorrect`, the action property.
* `ImplementsMatchingCorrect`: `Spec => ImplementsMatching`, that is, the
  reported pairs start empty and change only by one free edge at a time; and
  with `AlwaysMatching`, an invariant of the abstract specification,
  `ReportedIsMatching`: what is reported is always a valid matching.

The argument is one inductive invariant, `IInv`. Besides the properties it says
what is known of every message wherever it is, in a mailbox, a batch or an
outbox (`SoundFor`, `InFlightSound`): MATCHED and REJECT_MATCHED come from
matched nodes, an acknowledgement from a node matched to its recipient, and all
go along edges (`AlongEdges`). That, and that a matched node has no negotiation,
makes a second CONFIRM harmless: `_receive_confirm` needs a negotiation, so it
can fire only once per node, and matches are final; finality keeps the
facts about messages under way true. The proof has one lemma per action.
For the refinement, the only step that changes the reported pairs is a
`ReceiveConfirm`; it adds exactly the edge to the sender, or nothing while
the match is one-sided, and both ends were uncovered before because a covered
vertex is matched.

Its second part proves the two action properties that relate both ends of a
negotiation, `CommitsOnlyWhenAnswered` and `OnlyExpiryAbandonsAPartner`, for the
same values. `IInv` says where a message may come from; these depend on
what else is on its way, and in which order. The messages for a node are one queue
(`Way`): what its tick has drained, then what its mailbox has received. Draining does
not change it, a handler takes its head, a send appends to it, and `Behind`
orders two messages of one sender. `NegotiationInv` is about these queues:

* `WayShape`: batch and offers are empty outside the messages' part of a tick, and an
  outbox has at most one message for each neighbour, so that the order in which it
  is sent does not matter;
* `FreshAttempts`: no message carries an attempt number its proposer has not used,
  so a new proposal cannot be taken for an old one;
* `AnsweredOnce`: a proposal is on its way once, and is no longer once its acceptance
  or the confirmation of that is;
* `AskingIsUncommitted`: an endpoint that waits for an answer has sent no CONFIRM,
  and nobody has an acknowledgement for it. This gives the first property: a CONFIRM
  meets only an acceptor, an acknowledgement only a proposer that was accepted;
* `NothingAfterAccept`, `BoundIsKept`: once a node has committed to a partner, or
  will when a CONFIRM reaches it, nothing that is on its way to the partner ends the
  partner's negotiation. That leaves the partner's clock, which is the second property.

`ParallelNodeExecutorProofs` proves the four invariants of the executor and
`InactiveIsNotTicked` for any nodes, workers and watchdog. `IInv` joins them,
since they need each other: a collected node is requeued only once because it is
not queued while in the pool, and the loop ends idle only because nobody has been
forgotten. `PoppedQueue` and `LengthenedQueue` say what the two changes of the queue do
to it as a sequence without repetition.

`DistributedNodeProofs` carries the results over to whole runs.
`NodeImplementsRun` is the refinement `NodeSpec => RunSafe`: the steps of advisor
and vote stutter for the endpoints, and the policies only choose among what `Propose`
leaves open. A run's step is in turn a step of the endpoints
(`RunStepIsEndpointStep`) and one of the executor with `Nodes \ finished` as its
active nodes (`RunStepIsExecutorStep`, by the instance `Loop`), so `RunInv`, the three
inductive invariants and that matches are along edges, holds of every run, and with it the
endpoint's properties and the refinement of `Matching`. Two theorems are of the
composition itself: `ReportIsStableCorrect`, from the executor's promise that the pool is
empty at the end, which says something only of several workers and which no run checks (the run
`executor` checks the promise, with two workers); and `MutualRunsAreMaximal`, which says that with any number of
workers a quiescent run whose believed matches are mutual is maximal. So the
one-sided match of *Findings* is the only way to miss a maximal matching
and be quiescent.

The advisors' theorems hold of the advisors of whole nodes as well (`NodeInStepCorrect`,
`NodeRetainedIsMutualCorrect`, `NodeAdviceAgreesCorrect`, `NodeAdvisedIsRetainedCorrect`).
They are the lemmas of `WattenhoferProtocolProofs` by the instance `Advising`, with the
endpoint in the place of that module's `Drain` and `Committers`: draining
the node's mailbox is the advisor's `Note` of the neighbours that are matched
(`DrainIsNote`, where the soundness of the announcements is that of the endpoints);
an endpoint's step leaves the advisor alone, and commits only while it has nothing to
send (`EndpointStepsAside`, from `InTheirTurn`: the parts of a tick take turns).
`AdviceInv` adds what proves `AdviceIsNotAwaited`. Every node is
`BeforeAdvice`, an advisor as it was made, which knows of no neighbour as gone that
its endpoint has not written off or is about to; or in `FirstAdvice`, with candidates or one of
them to recommend; or `Served`. It passes from the first to the second because
of the finitely many eligible neighbours one is the heaviest
(`HeaviestExists`) and so within every threshold (`CandidateExists`).

`OneWorkerProofs` proves what holds of runs with one worker, of endpoints alone and
of whole nodes: `NoDeadlinePasses`, `QuiescentIsMutual` and, with
`MutualRunsAreMaximal`, `QuiescentIsMaximal`. The theorems assume `OneWorker`:
`MaxWorkers = 1`, which is the code's `max_workers` of 1, and nobody pre-matched,
since a pre-matched node is never ticked and answers nobody (the code passes no
pre-matched nodes in a run of the search). The graph, the order of the nodes, the policies,
the watchdog and the bounds are any. `OneInv` is checked by TLC on the triangle, and says:

* `InTurn`: only the node being ticked is anywhere in a tick, and has drained its mailbox;
* `OpenIsCurrent`: with every message that still waits to be handled or answered, both ends are
  in the negotiation it is about, so nothing arrives late;
* `SaidOnce`: of the answers to one attempt only one is on its way;
* `UnderWay`: the partner of a negotiating node has answered it, or has the request and
  its tick before the node's next (`Before` is the place in the queue: this
  is where the FIFO order of `PopReady` and `Requeue` is used);
* `Timely`: hence a negotiation older than the running tick has its answer in the batch,
  and after the batch every negotiation is as new as the tick. No deadline can pass;
* `Aware`: a free neighbour of a matched node has written it off or is about to
  hear of it, from which `ProposalReachesActive` concludes that nobody proposes to
  a node that has finished;
* `Mutual`, `Stopped`: a one-sided match has its acknowledgement on its way, and nobody
  finishes while negotiating.

On top of it the module proves `EndsQuiescent`: with policies that always propose when
they can (`MaySkip = FALSE`), a run of N nodes is quiescent within 2N(N + 1) ticks
(`TickBound`), so with a watchdog of that many it never ends `watchdog_exhausted`; and
hence `ProposingReturnsMaximal`: it returns a maximal matching. The code's watchdog is 10 ticks for each
node and iteration of `max_iterations`, which is 5 to 100, so the bound covers up
to 24 nodes at the smallest setting and 499 at the largest; for larger graphs nothing
is proved, not that a run takes as long. The argument is a count:
each match pays for 2N ticks, and `PaceInv`, checked by TLC on the path of 4, the complete
graph of 4 and the cycle with a chord, says that this is enough to reach the next one:

* `Productive`: no tick is lost. A node whose proposal was refused hears of it in its
  next tick (`DrainedIsAnswered`) and proposes again in the same one, to a free neighbour
  (`ProposalReachesFree`). So a tick leaves its node finished, `Engaged` (it has accepted or has been
  accepted) or `Waiting` for a free node;
* `Attempts`: a tick numbers one attempt at most, so that `MaxEpoch`, the bound of the model, does
  not stop a node (the theorem assumes that it is at least the watchdog);
* `Budget`: while nobody is engaged, every tick takes one node off the `Movers`, those
  not waiting yet, since the node at the head of the queue has been answered
  (`HeadIsAnswered`), and a proposal to a free node makes somebody engaged when
  that node answers (`WaitingKept`): that is at most N ticks. From then on the engaged node
  commits at its turn in the queue (`Turn`, `EngagedKept`): N more at most.

`WattenhoferProtocolProofs` proves the advisor for every graph, any number of phases
and rounds, any thresholds, random choices and commitments of its endpoints: its types, `InStep`,
`RetainedIsMutual`, `AdvisedIsRetained` and `AdviceAgrees`. As for the endpoints, the messages
for a node are one queue, and `OnWay` says that a message is in it or still to be sent; the
lemmas are about a step of one node's advisor (`StepOf`) that leaves the endpoints' matches
alone or has them commit. The layers of the invariant `Kept` are, in the order in which they
rest on each other:

* `Basics`: types, that an advisor is at a place of the protocol and sends messages
  of that place, and that a SYNC of a place stems from an advisor that has been there;
* `InStep`: the SYNC barrier. An advisor leaves a stage when it has a notice from each neighbour
  it counts on, who are thus in the stage or beyond it, and never more than one beyond;
* `InOrder`: nothing overtakes. What is concluded goes out before the SYNC, so
  that whoever has handled a neighbour's SYNC has handled what it said before;
* `RetentionIsShared`, `EliminationsRecorded`: hence an ELIMINATE is handled before
  its recipient leaves the eliminate stage, and both ends of an edge agree on retaining it;
* `GoneIsTaken`: who is written off is taken, or whoever wrote it off is advised to take
  somebody else; and `MatchesFit`: a MATCH of the
  running round goes along an edge retained by both. With them,
  `ConcludesRetained` is the action property;
* `NoticedConcludes`, `ChoiceIsTold`, `GoneHaveSent`, `Settled`: an advisor that has noticed the
  MATCH of its choice has concluded; a MATCH to a free neighbour is on its way until it is noticed;
  who is written off has nothing to say any more; and hence whoever leaves the match stage
  has concluded if its choice has chosen it;
* `ClaimsHold`: n claims m if it is advised to take m in its running round, or can still
  come to be without m doing anything more (`HearsOf`, `Heard`: m's MATCH is on its way to n, or
  noticed). Whoever is claimed is `Bound`: it is in the match stage
  of that round and has chosen the claimant, or is done with anybody else. So it is claimed by
  one only, which is `AdviceAgrees`.

`AlgorithmRegistryProofs` proves the five safety properties of the registry for
any number of threads, algorithms and instances. `InstanceInv` is the argument of
double-checked locking: holders of the class lock exclude each other
(`MutualExclusion`), an instance is made only while there is none (`MadeOnce`, also if a copy
fails and its number is free again), and nobody is given one that is still being made
(`GivenWhenPublished`). `CopiesSound` is about the copies without a lock, as long as the builder is not cleared:
entries are added at the end and keep their places, so what a thread has copied are the entries up
to its iterator's place (`SoundCopy`), and a copy that reaches the end in a dictionary of
the size it began with has all of them, which is `CopiesAreWhole`. `BuiltInsHeld` says of every
published instance what `BuiltInsArePresent` says of those in use: what is stored is a copy that has
ended. `VectorWhole` strengthens `PartialOnlyIfDisturbed` to the names not asked for yet.

`RunActivityProofs` proves `OneWorkerReportsItsRun`: with `NumWorkers = 1`,
`Spec => []ReportDescribesItsRun`, for every set of nodes and any number of runs.
The module's runs are those of one generation. The invariant says that at most one run is under way, that the projection is
exactly what it recorded, and that a run not yet started has recorded nothing;
`StartsAlone` is the step where the number of workers is used.

`PopulationEvaluationProofs` proves the search, for any algorithms, bounds, evaluators
and sizes, both by itself (`Spec`) and with every evaluation a run on the
shared graph (`PoolSpec`), which is a refinement (`PoolImplementsSearch`).
`ConfiguredAsScored` rests on `PopulationInv`, a population consists of `Vectors`:
`Breed` keeps it because crossover and mutation stay in the schema
(`CrossoverInSchema`, for parents of any two sets of algorithms, and
`MutationInSchema`), and it suffices because a vector is valid (`VectorIsValid`)
and its configuration its own (`ConfigurationIsTheVectors`, where the lower bound
of `max_iterations` is needed: 0 iterations would be run as 100).
`BestWasMeasuredCorrect` and `BestLeadsPopulationCorrect` add what is remembered (`SearchInv`):
the leader of a generation is ranked first whatever the sort does with ties below it
(`LeaderIsRankedFirst`), so the elite carries it over (`BreedLeads`); a maximum exists because a finite set
of integers is bounded (`FiniteIsBounded`, by a minimal counterexample).
`StopsWhenStalledCorrect` needs `HistoryInv`: the entries of the history at the
best fitness are exactly the last `noImprove` ones.
`ReportsDescribeTheirRunsCorrect`, with one worker, joins the search to
`RunActivityProofs`: who has a score has been reported (`PoolInv`), so
no run is under way when the next generation starts.
`ListRoundTrip` says that a vector is recovered from its list form,
`PolicyWeightsAreNatural` that no vector makes a policy raise. `Rankings`
states the order of the sort as a relation, since its computation is of no
concern to the proof.

Assumptions: `TopologyAssumption` (identifiers are naturals, an edge joins two
different vertices, weights are naturals of which only the order matters),
`EndpointAssumption` (`None` is no vertex, timeout and attempt bound positive),
`ExecutorAssumption` and `RunAssumption` (finitely many nodes, a worker, a
watchdog), `AdvisorAssumption` and `NodeAssumption` (phases and rounds positive, the thresholds
within the bounds of the vector), `PoliciesAssumption`, `ConvergenceAssumption` (the stop threshold is
positive: the code runs 0.0 as 0.05), `RegistryAssumption`,
`VectorAssumption` (bounds are integers in order, the iterations positive, the
names as above) and `GAAssumption`.

Only model-checked: liveness under fairness (`NegotiationsEnd`,
`ReachesMaximalMatching`, `RunEnds`, `RaisedIsReported`, `CallsReturn`,
`AdvisorsTerminate`) and ENABLED, which are out of the prover's reach, as are
induction over data and recursive operators.

## Findings

* *A match can be one-sided* (`pair_confirmed`). The proposer's deadline keeps
  running after CONFIRM. If the acknowledgement is late because the partner's
  tick is, `expire_if_needed` gives the match up while the acceptor has
  committed; its CANCEL is ignored there. The presentation's guarantee, `A<->B`
  only if both confirmed, does not hold with several workers. `_collect_results`
  reports mutual pairs only, so the result is still a valid matching
  (`ImplementsMatching`); with one worker it cannot happen (`NoDeadlinePasses`,
  proved in `OneWorkerProofs`).
* *Quiescent need not be maximal* (`parallel_pair`). After a one-sided match the
  abandoned proposer is refused as "matched" and finishes as
  terminal_unmatched: every node is terminal, the outcome is `quiescent`, and an
  edge is left between two unreported vertices.
* *Policies fall silent* (`silent`). Each asks for its heaviest neighbour whether
  or not it is still eligible, and the filter comes afterwards: two free neighbours that
  prefer matched ones propose to nobody until the watchdog ends the run.
* *The advisor stalls* (`watt_stall`). A stage waits until the senders of its
  notices equal the neighbours not written off, but notices go to all
  neighbours. A notice from one that is written off makes the sets differ for good.
* *Runs share activity* (`search_shared`): with several workers on one graph a
  run's start clears what another has recorded, and reports mix runs.

Seen in the code and left without a run of their own: an advisor in the next round
sends its SELECT while a neighbour still cleans up the last one, and the message
is dropped because rounds are compared for equality: the neighbour is the poorer by an edge
to choose, but what is retained stays mutual (`RetainedIsMutualCorrect`); `match_choice` is reset only on
entering the next match stage, so that a MATCH which arrives before is held against the
choice of the round before, and the advice may be one-sided: it is for
an edge retained in the new round all the same (`AdvisedIsRetained`), and `AdviceAgrees`
is about advice of the running round (`TakesNow`); `recommendations` chooses
with `or`, which passes over vertex 0 (modelled as it is); the best fitness starts at 0.0, which an
instability penalty may keep every score below; a convergence threshold of 0.0,
which is within its bounds, is run as 0.05 (`or`), and `ConfiguredAs` excepts it;
`reload` of the registry is two locked sections, between which it is empty, and
`instance()` may return None across a `reset_instance()` (nothing in a run calls
either; `BuiltInsArePresent` and `NoneOnlyIfReset` state what holds). A `register()` of a new name
with the builder makes a `get_all_definitions` of another thread raise: `instance()` then raises
and can be called again, but a `reload()` leaves the instance that everybody shares
empty, until somebody reloads it (`BuiltInsArePresent` counts its algorithms as removed). The
algorithms of the repository are registered by importing `register_all`, which every copy does
first, so that this takes an algorithm from elsewhere. The
presentation describes nodes that stop once a quorum of votes is reached
(`Distributed_Graph_Matching_Presentation.md:90` and 163); in the code
nothing reads `should_stop` of the votes in a run. It also says that a vote depends on
how much the weight of a node's match improved (lines 165 and 210); `decide` adds up
`matched_edges`, which nothing writes, so the improvement is always 0 and every vote after the first
round is to stop. And it describes nodes that abandon a partner for a better
offer (lines 37 to 41, 254 to 258), which disagrees with `MatchIsFinal` and the
refinement of `Matching`: in the code only a CONFIRM writes `matched_to`, once, and the match is
final (`endpoint_protocol.py:97`, `node.py:173`). `docs/INDEX.md` keeps older documents as
historical records that are not to be used to infer what the runtime does, so this is no finding.

## Not modelled

* `tick`, `run_autonomous` and `reset` of a node, with the flag `should_stop` they
  read, and `combine_local_policy_preferences`: they have no caller in a run.
* The generic dictionary operations, copies and neighbour table of `NodeState`,
  and the counters of the transport.
* The default ensemble of a vector: the registry run names its algorithms. The
  list of all names, taken in one locked section, is `AllNames`.
* The adaptive mutation rate, which decides only how likely a mutation is.
* The fingerprint of a vector, the dictionary form of a configuration, the file
  of an experiment.
* Building graphs and subgraphs before a run; the graph's lookups are the
  constants of `Topology`.
* Metrics and logging; `add_ga_run.py`, the benchmark suite and graph profiles,
  which prepare data and compare results around `execute()`; the notebooks and
  their plots.

## Plan

1. Done: `Topology`, `Matching`, `EndpointProtocol`, `ParallelNodeExecutor`,
   `DistributedOrchestrator` and their proofs.
2. Done: `ProposalPolicies`, `WattenhoferProtocol`, `RunActivity`,
   `CanonicalVector`, `MetaAlgorithmGA`, `PopulationEvaluation` and their proofs.
3. Done: the composition `DistributedNode` with `LocalConvergence` and the
   advisor's recommendations, and that its runs are runs of
   `DistributedOrchestrator`; `AlgorithmRegistry` and its proof; the proof of the
   executor; the list form of a vector.
4. Done: the proofs of the negotiation, of runs with one worker and the ticks they
   need, of the search, of the advisor, alone and within whole nodes.
5. Open: runs of whole nodes with two workers.
