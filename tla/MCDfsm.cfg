SPECIFICATION FairSpec
CONSTANTS
  Node = {1, 2, 3}
  Names = {"a", "b"}
  Data = {1, 2}
  Requests <- NoRequests
  InitDb <- Lagging
  MaxQueueLen = 2
  MaxJoin = 1
  MaxLoss = 0
  MaxSend = 0
  MaxVerify = 1
  MaxFail = 0
INVARIANTS ReplicasAgree NobodyLeaves
PROPERTY EventuallySynced
CHECK_DEADLOCK FALSE
