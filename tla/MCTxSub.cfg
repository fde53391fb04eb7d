CONSTANTS
  r1 = r1
  r2 = r2
  t1 = t1
  f1 = f1
  None = None
  Requests = {r1, r2}
  Txs = {t1, f1}
  Inner <- MCInner
  SeqNum <- MCSeqNum
  Window = 1
  MaxLedger = 1
  MaxFaults = 1
SPECIFICATION FairSpec
INVARIANTS TypeOK SentOnce ResultsTrue
PROPERTIES NoTimeoutOverResult Answered
