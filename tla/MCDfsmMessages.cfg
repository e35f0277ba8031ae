SPECIFICATION Spec
CONSTANTS
  Node = {1, 2}
  Names = {"a", "b"}
  Data = {1, 2}
  Requests <- OneDeletes
  InitDb <- Tied
  MaxQueueLen = 1
  MaxJoin = 2
  MaxLoss = 1
  MaxSend = 2
  MaxVerify = 0
  MaxFail = 1
INVARIANTS DeliveredOnce EpochsAreDrawn SameElection OneUpdater
CHECK_DEADLOCK FALSE
ACTION_CONSTRAINT OneFault
