SPECIFICATION HistorySpec
CONSTANTS
  MAX_DATA_LENGTH = 2
  PrimaryAddress = 0
  MaxTries = 1
  MaxLockCounter = 2
  Commands <- MCCommands
  ReplySizes <- MCReplySizes
  Alphabet <- MCAlphabet
  CharCountModulus = 3
INVARIANTS
  TypeOK
  BuffersInBounds
  SingleSpeaker
  TriesAccounted
  LockHonoured
PROPERTIES
  ImplementsService
