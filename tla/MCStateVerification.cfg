SPECIFICATION FairSpec
CONSTANTS
  n1 = n1
  n2 = n2
  None = None
  Nodes = {n1, n2}
  MaxLedger = 3
  CheckpointFreq = 2
  NoStateVerification = FALSE
  MaxRetries = 2
  MaxBuilds = 2
INVARIANTS
  TypeOK
  OneVerifier
  InvalidIsProved
  AnswerOfOneLedger
PROPERTIES
  VerifierEnds
CHECK_DEADLOCK FALSE
