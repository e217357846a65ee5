CONSTANTS
  w1 = w1
  w2 = w2
  Coordinator = coordinator
  Aggregator = aggregator
  Workers <- TwoWorkers
  Programs = {"cluster-node"}
  Attempts = 3
  ResultsCap = 1
  Starts = 2
  MaxFaults <- Errors
  MaxRuns = 2
  None = None
SPECIFICATION Spec
INVARIANTS TypeOK FromEveryWorker OfThisRun
PROPERTY ImplementsRound
CHECK_DEADLOCK FALSE
