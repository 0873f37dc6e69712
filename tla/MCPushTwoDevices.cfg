\* Two devices of one company and no failure at all.
SPECIFICATION Spec
CONSTANTS
  d1 = d1
  d2 = d2
  c1 = c1
  c2 = c2
  NoClient = NoClient
  Devices <- TwoDevices
  Isolates <- OneIsolate
  Main = "main"
  Calls <- OneCall
  DoorStatuses = {"not_home"}
  CallStatuses = {}
  BatchSize = 1
  MaxOps = 1
  MaxRetry = 2
  RetryCap = 2
  MaxLost = 0
  MaxFaults = 0
  MaxRemovals = 0
  MaxKills = 0
INVARIANTS DroppedWasStored
