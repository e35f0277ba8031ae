SPECIFICATION MCSpec
CONSTANTS
  Threads = {"deliver", "fuse"}
  NoThread = NoThread
  Names = {"a", "x", "y"}
  NoName = ""
  Requests <- MCRequests
  SyncThreads = {"deliver"}
  LeaderEntries <- MCLeaderEntries
  MaxVersion = 7
  MaxInodes = 4
  MaxFileSize = 2
  MaxFsSize = 3
  DiskFails = TRUE
INVARIANTS VersionBoundsInodes CacheMatchesDisk FileSystemLimit TreeHasNoOrphans
PROPERTIES VersionIsDurable OperationsComplete
