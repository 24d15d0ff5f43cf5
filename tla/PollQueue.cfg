SPECIFICATION FairSpec
CONSTANTS
  Byte = {b0, b1}
  HeaderSize = 1
  ShmSize = 7
  MessageSize = 2
  PushSizes = {1, 2, 3}
  PopSizes = {1, 2, 3}
INVARIANTS TypeOK NoDataRace
PROPERTIES ChannelSpec PushReturns PopReturns
