SPECIFICATION ZebusSpec
CONSTANTS
  MAX_DATA_LENGTH = 2
  PrimaryAddress = 0
  MaxTries = 1
  MaxLockCounter = 2
  Commands <- MCCommands
  ReplySizes = {0, 10}
  Alphabet <- MCAlphabet
  CharCountModulus = 3
INVARIANTS
  ZebusTypeOK
  WritesInBounds
  EscapesStayInTheirPart
  SpeaksOnce
  LockIsHonoured
PROPERTIES
  ImplementsService
