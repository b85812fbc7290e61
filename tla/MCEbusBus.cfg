SPECIFICATION CrashSpec
CONSTANTS
  MAX_DATA_LENGTH = 16
  PrimaryAddress = 16
  MaxTries = 1
  MaxLockCounter = 1
  Commands <- MCCommands
  ReplySizes <- MCReplySizes
  Alphabet = {}
  CharCountModulus = 16
  Rivals <- MCRivals
  ForeignRequests <- MCForeignRequests
  ForeignResponses <- MCForeignResponses
  Reply <- MCReply
  StrayBytes <- MCStrayBytes
  CommandQueueSize = 1
INVARIANTS
  BusTypeOK
  SpeaksInTurn
  InSync
  CompletedIsReal
  ResponsesIntact
  Answers
PROPERTIES
  HandedOver
