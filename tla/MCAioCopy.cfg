CONSTANTS
  Extents <- SplitExtents
  MaxWrites = 3
  IOCB_MAX = 4
  Faults = {}
SPECIFICATION Spec
INVARIANT HitsAtData
CHECK_DEADLOCK FALSE
