CONSTANTS
  Extents <- ShortExtents
  MaxWrites = 2
  IOCB_MAX = 3
  Faults = {}
SPECIFICATION Spec
INVARIANT StopKeepsWrites
CHECK_DEADLOCK FALSE
