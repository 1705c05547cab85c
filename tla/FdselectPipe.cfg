CONSTANTS
  max <- MCmax
  NBytes <- MCNBytes
  TxMax = 1
  MayReset = {0, 1}
SPECIFICATION FairSpec
INVARIANTS Window FlagsAgree NoLostWakeup
PROPERTIES Channels Delivered EofPropagates ClosesEventually
CHECK_DEADLOCK FALSE
