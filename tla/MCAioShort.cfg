CONSTANTS
  Extents <- ShortExtents
  MaxWrites = 4
  IOCB_MAX = 3
  Faults = {"mismatch"}
SPECIFICATION Spec
INVARIANTS
  HitsOverlap
  OneOwner
  SearchComplete
  Coherent
CHECK_DEADLOCK FALSE
