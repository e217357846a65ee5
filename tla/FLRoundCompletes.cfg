CONSTANTS
  w1 = w1
  w2 = w2
  Coordinator = coordinator
  Aggregator = aggregator
  Workers <- TwoWorkers
  Programs = {"cluster-node", "fl-demo"}
  Attempts = 2
  ResultsCap = 1
  Starts = 1
  MaxFaults <- Deliveries
  MaxRuns = 2
  None = None
SPECIFICATION FairSpec
PROPERTIES RoundCompletes ProgramEnds RunEnds
CHECK_DEADLOCK FALSE
