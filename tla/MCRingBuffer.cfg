SPECIFICATION FairSpec
CONSTANTS
  WordSize = 11
  Reserve = 28
  Messages = {"a", "b", "long"}
  Length <- MCLength
INVARIANTS ReaderFailsOnlyOnLong
PROPERTIES ImplementsFifo AnnouncedIsReceived
CHECK_DEADLOCK FALSE
