SPECIFICATION MCSpec
CONSTANTS
  Nodes = {1, 2}
  LockTimeout = 1
  MaxLocks = 2
  MaxRenewals = 1
  MaxRestarts = 1
  MaxBacklog = 1
INVARIANTS OnlyExpiredIsUnlocked LocksAgree
PROPERTIES AbandonedLockGoes
