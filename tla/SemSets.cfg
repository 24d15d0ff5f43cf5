SPECIFICATION FairSpec
CONSTANTS
  Name <- TwoNames
  SLOT_NUM = 2
  Opens = 1
  SemMax = 1
  Used = {2}
  MaxRestarts = 1
INVARIANTS TypeOK ClashAfterRestart OwnSemaphores BlockedByLeftover NoOrphans
PROPERTY Served
CHECK_DEADLOCK FALSE
