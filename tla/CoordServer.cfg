SPECIFICATION FairSpec
CONSTANTS
  Client = {1000, 1200}
  SLOT_NUM = 2
  TypeOf <- Mixed
  Applications <- AcceptOrShutdown
INVARIANT AcceptedIsOneClient
PROPERTIES EveryoneAccepted ShutdownTakesDownOpen ShutdownReturns
CHECK_DEADLOCK FALSE
