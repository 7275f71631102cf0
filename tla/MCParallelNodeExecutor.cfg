\* Four nodes, two workers, up to seven ticks.
CONSTANTS
  Nodes = {n1, n2, n3, n4}
  MaxWorkers = 2
  MaxTicks = 7
SPECIFICATION Spec
INVARIANTS
  ExecutorTypeOK
  OneTickPerNode
  NoActiveNodeForgotten
  EndsIdleOrExhausted
PROPERTIES
  InactiveIsNotTicked
  RunEnds
  RaisedIsReported
