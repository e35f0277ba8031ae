SPECIFICATION Spec
CONSTANTS
  Nodes = {1, 2}
  LockTimeout = 1
  MaxLocks = 2
  MaxRenewals = 0
  MaxRestarts = 0
  MaxBacklog = 3
PROPERTIES UnlockSparesNewLock
