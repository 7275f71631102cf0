\* Two workers evaluate on one graph at once.
CONSTANTS
  Algorithms = {"luby"}
  Searched = {"luby"}
  Own <- MCOwn
  Low <- MCLow
  High <- MCHigh
  Evaluators <- MCEvaluators
  PopulationSize = 3
  Generations = 2
  ElitePercent = 70
  EarlyStop = 2
  Pending = Pending
  Nodes = {1, 2}
  NumWorkers = 2
  None = None
SPECIFICATION PoolSpec
INVARIANT
  ReportsDescribeTheirRuns
