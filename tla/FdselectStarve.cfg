SPECIFICATION FairSpec
CONSTANTS
  Fd = {1, 2}
  Func = {"f"}
  NoFunc = "none"
  EventArgs = {{"READ"}}
PROPERTY EveryEventCalled
