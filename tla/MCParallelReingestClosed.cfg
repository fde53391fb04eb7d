SPECIFICATION Spec
CONSTANTS
  w1 = w1
  w2 = w2
  Workers = {w1, w2}
  MaxLedger = 8
  Interval = 3
  BatchSizeSuggestion = 3
  MaxFailures = 2
INVARIANTS
  ClosedIntervalsReingested
CHECK_DEADLOCK FALSE
