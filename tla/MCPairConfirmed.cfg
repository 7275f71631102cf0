\* Two endpoints; the documented guarantee of the two-phase commit.
CONSTANTS
  Nodes = {0, 1}
  Edges <- PairEdges
  Weight <- PairWeight
  None = None
  ProposalTimeout = 3
  MaxEpoch = 2
  MaySkip = TRUE
  PreMatched = {}
SPECIFICATION Spec
INVARIANT
  OnlyIfBothConfirmed
