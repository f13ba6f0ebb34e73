SPECIFICATION FairSpec
CONSTANTS
  w1 = w1
  Workers = {w1}
  MaxSyncFailures = 1
  LastHistoryId = 2
  QueueBound = 1
  Scenarios <- SettlingScenarios
PROPERTIES CatchesUp RevokedIsNoticed
CHECK_DEADLOCK FALSE
