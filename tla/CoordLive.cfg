SPECIFICATION FairSpec
CONSTANTS
  Client = {1000, 1100}
  SLOT_NUM = 1
  TypeOf <- Mixed
  Applications <- ClosingAccepted
INVARIANTS ReservationKept OpenQueuesLive
PROPERTIES OpenReturns Reclaimed
