SPECIFICATION FairSpec
CONSTANTS
  MAX_DATA_LENGTH = 16
  Items <- MCItems
  Telegrams <- MCTelegrams
  history_queue_size_ = 2
INVARIANTS
  DeliveryTypeOK
  ShowsLatest
PROPERTIES
  EventuallyShown
