\* With the address SYN update() does nothing, and all is still.
CHECK_DEADLOCK FALSE
SPECIFICATION Spec
CONSTANTS
  MAX_DATA_LENGTH = 16
  Items <- MCItems
  PrimaryAddressSet = FALSE
  PrimaryAddress = 0
  MemoryContents <- MCMemoryContents
  Attempts = 3
  command_queue_size_ = 2
INVARIANTS
  SilentWithoutAddress
