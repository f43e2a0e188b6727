CONSTANTS
  Size = 5
  Mrds = {6}
  Unit = 2
  PAD_WORD_LEN = 2
SPECIFICATION Spec
INVARIANT Exact
CHECK_DEADLOCK FALSE
