CONSTANTS
  Sizes = {3}
  MaxSends = 3
  MaxDepth = 2
  TxMax = 2
  FreeMaySend = TRUE
  FileEnd = 3
SPECIFICATION Spec
INVARIANT FreedOnce
CHECK_DEADLOCK FALSE
