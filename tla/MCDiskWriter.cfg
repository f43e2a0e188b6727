CONSTANTS
  Extents <- ThreeBlocks
  MaxWrites = 4
SPECIFICATION Spec
INVARIANTS
  TypeOK
  PopsTaken
PROPERTY ImplementsWriteBack
CHECK_DEADLOCK FALSE
