CONSTANTS
  Id = {1, 2}
  NServers = 1
  ExpireReq = 2
  ExpirePoll = 1
  MaxQueries = 3
  MaxTime = 6
SPECIFICATION Spec
INVARIANT KeptUntilAnswered
CHECK_DEADLOCK FALSE
