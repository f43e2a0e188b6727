CONSTANTS
  Size = 5
  Mrds = {4, 5, 6, 10}
  Parts <- MCParts
  Unit = 2
  PAD_WORD_LEN = 2
  Luns = 2
  Capacity = 512
  Requests <- MCRequests
  BhsSize = 1
  CbufSize = 3
  MaxLater = 1
SPECIFICATION ReplySpec
INVARIANTS
  TypeOK
  Framed
  ExactInOnePdu
  InOrder
  Watched
  InfoSound
CHECK_DEADLOCK FALSE
