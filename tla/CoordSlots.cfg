SPECIFICATION Spec
CONSTANTS
  Client = {1000, 1100, 1200}
  SLOT_NUM = 2
  TypeOf <- Mixed
  Applications <- Closing
INVARIANTS TypeOK ReservationKept OpenQueuesLive
PROPERTY SlotTableSpec
