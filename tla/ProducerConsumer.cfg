SPECIFICATION FairFifoSpec
CONSTANTS
  BufSize = 3
  MaxMsgs = 3
  PipeCap = 5
INVARIANTS
  TextIsOneLine
PROPERTIES
  PrintedInOrder
  KeepsPrinting
