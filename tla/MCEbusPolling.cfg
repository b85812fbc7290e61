SPECIFICATION FairSpec
CONSTANTS
  MAX_DATA_LENGTH = 16
  Items <- MCItems
  PrimaryAddressSet = TRUE
  PrimaryAddress = 0
  MemoryContents <- MCMemoryContents
  Attempts = 3
  command_queue_size_ = 2
INVARIANTS
  PollingTypeOK
  PollsInOrder
PROPERTIES
  UpdateReturns
  EveryItemIsAsked
