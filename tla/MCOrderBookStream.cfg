SPECIFICATION FairSpec
CONSTANTS
  MaxLedger = 4
  CheckpointFreq = 2
  Entries <- MCEntries
  Chain <- MCChain
  compactionWindow = 2
  MaxBuilds = 2
  MaxChanges = 3
INVARIANTS
  TypeOK
  GraphAccurate
PROPERTIES
  Converges
CHECK_DEADLOCK FALSE
