SPECIFICATION FairSpec
CONSTANTS
  MAX_DATA_LENGTH = 16
  master_address = 0
  Telegrams <- MCTelegrams
  Attempts = 2
  history_size = 1
  command_size = 1
INVARIANTS
  ZebusComponentTypeOK
  ShowsLatest
PROPERTIES
  AnswersAreHeard
  RequestsAreAsked
