SPECIFICATION FairSpec
CONSTANTS
  SeqMod = 16
  ISN <- MCISN
  NBytes <- MCNBytes
  MaxDelete = 1
  Configs <- MCConfigs
INVARIANTS OneRecord StreamsKept
PROPERTY Reassembled
CHECK_DEADLOCK FALSE
