SPECIFICATION FairCrashSpec
CONSTANTS
  MAX_DATA_LENGTH = 16
  PrimaryAddress = 16
  MaxTries = 1
  MaxLockCounter = 1
  Commands <- MCCommands
  ReplySizes <- MCReplySizes
  Alphabet = {}
  CharCountModulus = 8
  Rivals <- MCRivals
  ForeignRequests <- MCLiveRequests
  ForeignResponses <- MCLiveResponses
  Reply <- MCReply
  StrayBytes <- MCQuietNoise
  CommandQueueSize = 1
PROPERTIES
  CompletedOnlyIfAcked
  CommandFinishes
  QueueGetsSpace
