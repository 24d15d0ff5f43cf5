SPECIFICATION Spec
CONSTANTS
  Byte = {b0, b1}
  HeaderSize = 1
  ShmSize = 5
  MessageSize = 2
  PushSizes = {1, 2, 3}
  PopSizes = {1, 2}
  SemMax = 2
  Window = 3
SYMMETRY ByteSymmetry
INVARIANTS TypeOK MutualExclusion SlotsDisjoint
PROPERTY ChannelSpec
