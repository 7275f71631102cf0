\* One worker on five nodes: round-robin ticks in every initial order, and
\* policies that propose to some eligible neighbour whenever there is one.
\* The watchdog is the TickBound of five nodes.
CONSTANTS
  Nodes = {0, 1, 2, 3, 4}
  Edges <- HouseEdges
  Weight <- HouseWeight
  None = None
  ProposalTimeout = 3
  MaxEpoch = 60
  MaySkip = FALSE
  PreMatched = {}
  MaxWorkers = 1
  MaxTicks = 60
SPECIFICATION RunSpec
INVARIANTS
  EndsQuiescent
  UnavailableIsMatched
PROPERTIES
  ReachesMaximalMatching
  MatchIsFinal
