CONSTANTS
  Sessions = {s1}
  CMD_QUEUE_SIZE = 143
  X1 <- DefaultX1
  X2 <- DefaultX2
  SNMod = 512
  MaxBuffers = 256
  MaxPool = 2040
SPECIFICATION Spec
INVARIANT YInRange
