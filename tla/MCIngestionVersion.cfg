SPECIFICATION Spec
CONSTANTS
  n1 = n1
  n2 = n2
  c1 = c1
  None = None
  Nodes = {n1, n2}
  Cmds = {}
  Version <- Upgrade
  MaxLedger = 8
  CheckpointFreq = 3
  MaxLedgerPerFlush = 2
  MaxFaults = 1
  MaxReingestRetries = 1
  Ranges <- MCRanges
PROPERTIES
  VersionNeverLowered
CHECK_DEADLOCK FALSE
