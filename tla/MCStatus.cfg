SPECIFICATION MCSpec
CONSTANTS
  NodeIds <- MCNodeIds
  Self = 1
  Ips = {"a", "b"}
  Configs <- MCConfigs
  Values = {"x"}
  Vms = {100}
  None = None
  NoIp = ""
  Zeros = "0"
  ExpireSeconds = 3
  CacheSeconds = 2
  MaxTime = 3
  MaxInputs = 3
  LogNodes = {1, 2}
  Foreign = 3
  MessageSizes <- MCMessageSizes
  MaxEntrySize = 2
  UidLimit = 2
  Capacity = 4
  NoEntry = NoEntry
  MaxLogTime = 2
  MaxEntries = 3
  MaxRestarts = 1
  MaxRounds = 2
INVARIANTS  DumpIsRecent LogIsOrdered MergeKeepsNewest ImageReadsBack
PROPERTIES ConfigConverges QuorumConverges
CHECK_DEADLOCK FALSE
