SPECIFICATION Spec
CONSTANTS
  SeqMod = 16
  ISN <- MCISN
  NBytes <- MCNBytes
  MaxDelete = 0
  Configs <- MCConfigs
INVARIANT
  StreamBytes
CHECK_DEADLOCK FALSE
