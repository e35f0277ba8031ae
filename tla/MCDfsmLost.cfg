SPECIFICATION Spec
CONSTANTS
  Node = {1, 2}
  Names = {"a", "b"}
  Data = {1, 2}
  Requests <- OneWrites
  InitDb <- Equal
  MaxQueueLen = 2
  MaxJoin = 1
  MaxLoss = 0
  MaxSend = 1
  MaxVerify = 0
  MaxFail = 0
INVARIANTS ReplicasAgree
CHECK_DEADLOCK FALSE
