CONSTANTS
  Sessions = {s1, s2}
  CMD_QUEUE_SIZE = 4
  X1 = 2
  X2 = 8
  SNMod = 13
  MaxBuffers = 2
  MaxPool = 10
SPECIFICATION Spec
INVARIANTS
  TypeOK
  YInRange
  WindowOpen
  NoSpin
PROPERTIES
  Throttled
  MaxNeverRetreats
