\* One worker, three policies, and the watchdog of five iterations; the
\* documented maximality of the result.
CONSTANTS
  Nodes = {0, 1, 2, 3}
  Edges <- SquareEdges
  Weight <- SquareWeight
  None = None
  ProposalTimeout = 3
  MaxEpoch = 5
  MaySkip = TRUE
  PreMatched = {}
  MaxWorkers = 1
  MaxTicks = 200
  Policies = {"greedy", "itai", "luby"}
  PolicyWeight <- EqualPolicyWeight
  MaxRounds = 100
  TimeoutRounds = 5
  Influence = 15
  Gap = 10
  MaxPhases = 1
  RoundsPerPhase = 1
  ValidThreshold = 50
  ThresholdDecay = 0
  MayPass = FALSE
  StopThreshold = 5
  QuorumThreshold = 50
SPECIFICATION NodeSpec
INVARIANT
  ReturnsMaximal
