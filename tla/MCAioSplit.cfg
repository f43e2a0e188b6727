CONSTANTS
  Extents <- SplitExtents
  MaxWrites = 3
  IOCB_MAX = 4
  Faults = {"resolve", "mismatch"}
SPECIFICATION FairSpec
INVARIANTS
  TypeOK
  IndicesAgree
  LastIsOriginal
  PopsWritten
  DrainedDisk
  SubmitsQueued
  Accounting
PROPERTIES ImplementsWriteBack WrittenBack
CHECK_DEADLOCK FALSE
