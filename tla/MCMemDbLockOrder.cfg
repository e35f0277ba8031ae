SPECIFICATION Spec
CONSTANTS
  Threads = {"deliver", "fuse", "ipc"}
  Nobody = Nobody
  Programs <- MCPrograms
INVARIANTS OnlyReaddirDeadlocks OperationsAreWellLocked
CHECK_DEADLOCK FALSE
