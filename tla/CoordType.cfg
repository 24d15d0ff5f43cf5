SPECIFICATION Spec
CONSTANTS
  Client = {1000, 1100}
  SLOT_NUM = 2
  TypeOf <- Mixed
  Applications <- Staying
INVARIANT QueuesMatchType
