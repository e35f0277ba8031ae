SPECIFICATION MCSpec
CONSTANTS
  s1 = s1
  s2 = s2
  Services = {s1, s2}
  Fds = {7, 8}
  NoFd = NoFd
  RetryInterval = 2
  TimerPeriod <- MCTimerPeriod
  NameField = 3
  MaxStatusSize = 3
  MinVmid = 3
  DefaultEntries = 2
  Clients = {1, 2}
  Handshakes <- MCHandshakes
  Inputs <- MCInputs
  MaxRequests = 5
  MaxPending = 2
  Warning = 1
  RingSlots = 2
  MinMessage = 2
  MaxMessage = 5
  WwwData = 3
  InitStore <- MCStore
INVARIANTS ConnectionMatchesFlag NoStaleRegistration AnswersAreInOrder FlowControlCovers UnderstoodAsSent
PROPERTIES DownServiceIsRetried ShutdownCompletes ConnectionEnds
CHECK_DEADLOCK FALSE
