SPECIFICATION BenchSpec
CONSTANTS
  Client = {c1, c2}
  NoClient = NoClient
  SLOT_NUM = 3
  NUM_ITEMS = 3
  Capacity = 2
  UIntSize = 5
INVARIANTS TypeOK OneHandlerEach OneInFlight EchoMatches QueueTypeOK OrderKept QueueOutlivesThreads NotBeforeStart
PROPERTIES StayingTestsEnd JoinReturns
CHECK_DEADLOCK FALSE
