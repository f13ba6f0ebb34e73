SPECIFICATION Spec
CONSTANTS
  w1 = w1
  w2 = w2
  Workers = {w1, w2}
  Command = command
  Faults = {{}}
  MaxTexts = 3
  MaxRows = 3
  MaxResends = 1
  MaxLost = 1
INVARIANT SentDraftIsComplete
SYMMETRY WorkerSymmetry
CHECK_DEADLOCK FALSE
