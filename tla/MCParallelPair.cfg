\* Two workers on one edge; the documented maximality of a quiescent run.
CONSTANTS
  Nodes = {0, 1}
  Edges <- PairEdges
  Weight <- PairWeight
  None = None
  ProposalTimeout = 3
  MaxEpoch = 2
  MaySkip = TRUE
  PreMatched = {}
  MaxWorkers = 2
  MaxTicks = 20
SPECIFICATION RunSpec
INVARIANT
  QuiescentIsMaximal
