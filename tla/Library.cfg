CONSTANTS
  Key = {1, 2, 3, 4, 5}
  Val = {val, other}
  Puts <- ThePuts
  NoVal = none
  Hash <- HashCollide
  Buckets = {1}
  Elt = {1, 2, 3}
  BlockSz = 2
  MaxCells = 4
  AnyInsert = FALSE
  Ptr = {1, 2, 3}
  MaxRefs = 2
  ListNode = {1, 2, 3}
  Alloc = {1, 2}
  Place = {11, 12, 21}
  MaxCreates = 4
  MaxStack = 2
  Proc = {1, 2}
  Value <- TheValue
  Item = {1, 2, 3}
  MruMax = 2
  Host = {"a", "b"}
  expire = 1
  MaxNow = 3
  MaxKeys = 2
  Ns <- TheNs
  Path <- ThePath
  FirstExists = TRUE
  Chars = {"/", "bs", ".", "a"}
  MaxText = 6
  Program = {"net", "netd"}
  Begins = {}
  files_max = 2
  size_max = 2
  LogEnd = 7
  Handle = {1, 2}
  Concurrent = FALSE
  GoesOn = FALSE
  blocksz = 3
  MaxLen = 5
  PktByte = {0, 255}
  OptByte = {0, 1, 2, 4, 200}
  MaxBody = 3
SPECIFICATION SpecWithTexts
INVARIANTS TableKept MemoryKept ConfigKept FilesKept PacketsRead ResultsRight
PROPERTIES IsMap FreedAreGone IsList
CHECK_DEADLOCK FALSE
