SPECIFICATION FairStreamSpec
CONSTANTS
  i1 = i1
  Instances <- MCInstances
  MaxLedger = 4
  CheckpointFreq = 2
  Limit = 2
INVARIANTS StreamTypeOK NoMissedWakeup
PROPERTIES InOrder Delivered
