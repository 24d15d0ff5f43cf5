SPECIFICATION FairSpec
CONSTANTS
  Client = {1000}
  SLOT_NUM = 2
  TypeOf <- AllPoll
  Applications <- ClosingAccepted
PROPERTY AcceptReturns
