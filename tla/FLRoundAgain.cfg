CONSTANTS
  w1 = w1
  w2 = w2
  Coordinator = coordinator
  Aggregator = aggregator
  Workers <- TwoWorkers
  Programs = {"cluster-node"}
  Attempts = 2
  ResultsCap = 1
  Starts = 1
  MaxFaults <- OneTimeout
  MaxRuns = 2
  None = None
SPECIFICATION Spec
INVARIANT OfThisRun
