\* Two engines on one outbox and no failure at all.
SPECIFICATION Spec
CONSTANTS
  d1 = d1
  d2 = d2
  c1 = c1
  c2 = c2
  NoClient = NoClient
  Devices <- OneDevice
  Isolates <- TwoIsolates
  Main = "main"
  Calls <- TwoCalls
  DoorStatuses = {"not_home", "answered"}
  CallStatuses = {"no_answer"}
  BatchSize = 1
  MaxOps = 1
  MaxRetry = 2
  RetryCap = 3
  MaxLost = 0
  MaxFaults = 0
  MaxRemovals = 0
  MaxKills = 0
INVARIANTS NoDoubleSend
