CONSTANTS
  max <- MCmax
  NBytes <- OneByte
  TxMax = 1
  MayReset = {1}
SPECIFICATION Spec
INVARIANT ClosedOnce
CHECK_DEADLOCK FALSE
