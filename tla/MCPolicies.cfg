\* One worker, two policies and the advisor, and the watchdog of five
\* iterations.
CONSTANTS
  Nodes = {0, 1, 2, 3}
  Edges <- SquareEdges
  Weight <- SquareWeight
  None = None
  ProposalTimeout = 3
  MaxEpoch = 5
  MaySkip = TRUE
  PreMatched = {}
  MaxWorkers = 1
  MaxTicks = 200
  Policies = {"itai", "luby", "wattenhofer_graph"}
  PolicyWeight <- EqualPolicyWeight
  MaxRounds = 100
  TimeoutRounds = 2
  Influence = 15
  Gap = 10
  MaxPhases = 1
  RoundsPerPhase = 1
  ValidThreshold = 50
  ThresholdDecay = 0
  MayPass = FALSE
  StopThreshold = 5
  QuorumThreshold = 50
SPECIFICATION NodeSpec
INVARIANT
  AdviceIsNotAwaited
  QuiescentIsMaximal
  QuiescentIsMutual
  NoDeadlinePasses
  TerminalUnmatchedIsIsolated
PROPERTY
  ImplementsMatching
