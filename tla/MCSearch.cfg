\* One worker: two of three vectors are elite, the search stops after two
\* generations without improvement or after five.
CONSTANTS
  Algorithms = {"luby"}
  Searched = {"luby"}
  Own <- MCOwn
  Low <- MCLow
  High <- MCHigh
  Evaluators <- MCEvaluators
  PopulationSize = 3
  Generations = 5
  ElitePercent = 70
  EarlyStop = 2
  Pending = Pending
  Nodes = {1, 2}
  NumWorkers = 1
  None = None
SPECIFICATION PoolSpec
INVARIANT
  BestLeadsPopulation
  BestWasMeasured
  StopsWhenStalled
  RunsAreConfiguredAsScored
  ReportsDescribeTheirRuns
