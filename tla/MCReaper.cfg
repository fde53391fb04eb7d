SPECIFICATION FairSpec
CONSTANTS
  i1 = i1
  Instances <- MCInstances
  RetentionCount <- MCRetentionCount
  MaxLedger = 5
  CheckpointFreq = 2
  batchSize = 1
PROPERTIES RetainedKept Reaped
