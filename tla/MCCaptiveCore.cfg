CONSTANTS
  None = None
  a = a
  b = b
  Chains = {a, b}
  MaxLedger = 3
  Freq = 2
  Ranges <- AllRanges
  BufferSize = 1
  PipeSize = 1
  MaxRuns = 1
  useDB = FALSE
  Honest = FALSE
SPECIFICATION FairSpec
INVARIANTS TypeOK
PROPERTIES ImplementsBackend CloseReturns DecoderEnds
