CONSTANTS
  None = None
  a = a
  Chains = {a}
  MaxLedger = 3
  Freq = 4
  Ranges <- RestartRanges
  BufferSize = 1
  PipeSize = 1
  MaxRuns = 2
  useDB = TRUE
  Honest = TRUE
SPECIFICATION FairSpec
INVARIANTS OneProcess HonestAccepted
PROPERTIES ImplementsBackend CallsReturn
