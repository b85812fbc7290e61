SPECIFICATION BusSpec
CONSTANTS
  MAX_DATA_LENGTH = 16
  PrimaryAddress = 16
  MaxTries = 1
  MaxLockCounter = 1
  Commands <- MCZeroCommands
  ReplySizes <- MCReplySizes
  Alphabet = {}
  CharCountModulus = 16
  Rivals <- MCRivals
  ForeignRequests <- MCForeignRequests
  ForeignResponses <- MCForeignResponses
  Reply <- MCReply
  StrayBytes = {}
  CommandQueueSize = 1
PROPERTIES
  CompletedOnlyIfAcked
