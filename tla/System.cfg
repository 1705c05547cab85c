CONSTANTS
  Machines = {"send", "server", "update", "crypt", "state", "proc", "winpipe", "winrun",
              "service", "winselect"}
  Sizes = {0, 3}
  MaxSends = 3
  MaxDepth = 1
  TxMax = 2
  FreeMaySend = FALSE
  FileEnd = 3
  MaxConn = 2
  MaxFd = 4
  RecvMax = 1
  MaxSize = 2
  QueueMax = 1
  CryptHandle = {1, 2}
  KeyPair = {1, 2}
  RsaSize <- TheSizes
  KeyLen = 1
  MaxText = 2
  Table <- TheTable
  MaxNow = 6
  Child = {1, 2}
  InLen = 2
  OutLen = 6
  stdout_len = 4
  Cap = 2
  ReadsToEnd = FALSE
  Ctl = {1, 2}
  WinFd = {1, 2}
  WinFunc = {"f"}
  NoFunc = "none"
  EventArgs = {{"READ"}, {"WRITE"}, {}}
  Handle = {2}
  HandleCalls = FALSE
SPECIFICATION AllFairSpec
INVARIANTS
  SentInOrder Ownership AnswerTaken SecretsKept TriedInTime EndsKept WindowsKept
PROPERTIES SentOrFailed WholeFile Served NoZombies Returns
CHECK_DEADLOCK FALSE
