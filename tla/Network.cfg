CONSTANTS
  Id = {1, 2}
  NServers = 2
  ExpireReq = 1
  ExpirePoll = 2
  MaxQueries = 3
  MaxTime = 6
  Cap = 2
  MaxLen = 3
  MaxSent = 4
  AddrLen = 4
  MaxFd = 5
  Part = {0, 1, 3, 4, 5}
  Port = {0, 80, 99, 100}
  MaxByte = 3
  MaxPort = 99
  Proc = {1, 2}
  MaxLines = 0
  MaxSets = 1
SPECIFICATION AllFairSpec
INVARIANTS RepliesInTime NamesRead SocketsKept
PROPERTIES LeavesForCause Released
CHECK_DEADLOCK FALSE
