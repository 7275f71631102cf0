\* Two endpoints, every interleaving of their threads, one of which may be
\* withdrawn before the run: then the other proposes to a node that never
\* answers.  And three on a path, ticked one at a time in any order.
CONSTANTS
  Nodes = {0, 1, 2}
  Edges <- PathEdges
  Weight <- PathWeight
  None = None
  ProposalTimeout = 2
  MaxEpoch = 3
  MaySkip = TRUE
  PreMatched = {0, 2}
SPECIFICATION Spec
CONSTRAINT PairOrPath
INVARIANTS
  TypeOK
  AckIsFromPartner
  MatchedHasNoNegotiation
PROPERTIES
  CommitsOnlyWhenAnswered
  OnlyExpiryAbandonsAPartner
  NegotiationsEnd
