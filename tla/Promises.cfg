SPECIFICATION ManualSpec
CONSTANTS
  None = None
  Block = {b1, b2, b3, b4, b5}
  Word = {}
INVARIANT PromisesAreKept
CHECK_DEADLOCK FALSE
