SPECIFICATION FairSpec
CONSTANTS
  Byte = {b0}
  HeaderSize = 1
  ShmSize = 4
  MessageSize = 1
  PushSizes = {1}
  PopSizes = {1, 2}
  SemMax = 2
  Window = 2
INVARIANT NoLostWakeup
PROPERTIES SemPushReturns SemPopReturns
