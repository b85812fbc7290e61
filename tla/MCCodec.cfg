SPECIFICATION Spec
CONSTANTS
  MAX_DATA_LENGTH = 3
  Primary = 16
  Payloads <- MCPayloads
  Replies <- MCReplies
  Noise <- MCNoise
INVARIANTS
  CodecTypeOK
  CrcIsRemainder
  RequestsArrive
  TooLongIsRefused
  RequestsReachTheirNode
  RepliesArrive
  CorruptionDetected
CHECK_DEADLOCK FALSE
