\* Three advisors for one phase of two rounds: one worker, with an endpoint
\* that may commit at any tick, and every interleaving of the first round.
CONSTANTS
  Nodes = {1, 2, 3}
  Edges <- PathEdges
  Weight <- UnitWeight
  None = None
  MaxPhases = 1
  RoundsPerPhase = 2
  ValidThreshold = 50
  ThresholdDecay = 0
  MayPass = FALSE
  Committers = {2}
  Schedules = {"one", "any"}
SPECIFICATION MCSpec
CONSTRAINT InterleavedBound
INVARIANT
  RetainedIsMutual
  InStep
  AdviceAgrees
PROPERTY
  AdvisedIsRetained
