CONSTANTS
  Extents <- ResplitExtents
  MaxWrites = 4
  IOCB_MAX = 5
  Faults = {}
SPECIFICATION Spec
INVARIANT DirtyHits
CHECK_DEADLOCK FALSE
