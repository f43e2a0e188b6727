SPECIFICATION Spec
CONSTANTS
  HEADER = 2
  COMMON_BUF_SIZE = 4
  MRDS = 4
  Unit = 2
  Word = 64
  ITTS = {1, 2}
  FirstBurstLength = 2
  MaxBurstLength = 4
  InitiatorMRDS = 2
  TotalSize = 5
  MaxSends = 2
  Commands <- MCCommands
  BadCommands <- MCBadCommands
INVARIANTS Whole R2TsExact WithinTask ReceiveSound DownForCause NoneForgotten
CHECK_DEADLOCK FALSE
