SPECIFICATION Spec
CONSTANTS
  SlopBytes = 3
  MaxVarint = 2
  MaxHeader = 1
  FixedBytes = 2
  MaxCordBytesToCopy = 6
  MaxInt = 30
  MaxDepth = 2
  MaxLength = 8
  Modes = {"flat", "stream", "bounded", "coded"}
  TagModes = {"flat", "stream", "coded"}
  None = None
INVARIANTS Aligned
PROPERTIES ImplementsByteStream
CHECK_DEADLOCK FALSE
