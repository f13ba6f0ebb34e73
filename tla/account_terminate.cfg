SPECIFICATION FairSpec
CONSTANTS
  w1 = w1
  Workers = {w1}
  MaxSyncFailures = 1
  LastHistoryId = 1
  QueueBound = 1
  Scenarios <- BrokenScenarios
PROPERTY BrokenHistoryIsTerminated
CHECK_DEADLOCK FALSE
