SPECIFICATION Spec
CONSTANTS
  w1 = w1
  w2 = w2
  Workers = {w1,w2}
  MaxSyncFailures = 1
  LastHistoryId = 2
  QueueBound = 1
  Scenarios <- QuietScenarios
INVARIANT SyncingMeansBusy
CHECK_DEADLOCK FALSE
