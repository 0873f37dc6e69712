SPECIFICATION FairSpec
CONSTANTS
  v1 = v1
  p1 = p1
  p2 = p2
  Voters = {v1}
  Phones = {p1, p2}
  OwnersOf <- OneOwner
  Messages = {m1}
  Nobody = Nobody
  MaxEvents = 3
  MaxFaults = 1
INVARIANTS
  TypeOK
  LastWordStands
  RowTellsDelivery
PROPERTIES
  StopIsHeeded
CHECK_DEADLOCK FALSE
