SPECIFICATION FairSpec
CONSTANTS
  w1 = w1
  w2 = w2
  Workers = {w1, w2}
  MaxLedger = 10
  Interval = 3
  BatchSizeSuggestion = 3
  MaxFailures = 2
INVARIANTS
  TypeOK
  GapsAreExact
  RestartPreventsGaps
  TradeAggregationsFresh
  JobsDisjoint
PROPERTIES
  Returns
CHECK_DEADLOCK FALSE
