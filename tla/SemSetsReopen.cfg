SPECIFICATION FairSpec
CONSTANTS
  Name <- OneName
  SLOT_NUM = 1
  Opens = 2
  SemMax = 1
  Used = {2, 5}
  MaxRestarts = 0
PROPERTY OpenServed
CHECK_DEADLOCK FALSE
