\* The documented number of phases, on a path, one worker.
CONSTANTS
  Nodes = {1, 2, 3}
  Edges <- PathEdges
  Weight <- UnitWeight
  None = None
  MaxPhases = 1
  RoundsPerPhase = 1
  ValidThreshold = 50
  ThresholdDecay = 0
  MayPass = FALSE
  Committers = {}
  Schedules = {"one"}
SPECIFICATION MCSpec
PROPERTY
  AdvisorsTerminate
