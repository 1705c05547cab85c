CONSTANTS
  Fd = {1, 2}
  Func = {"f"}
  NoFunc = "none"
  EventArgs = {{"READ"}, {"WRITE"}, {}}
SPECIFICATION FairSpec
INVARIANTS Registered SlotValid
PROPERTIES CallsOnlyPolled Progress
