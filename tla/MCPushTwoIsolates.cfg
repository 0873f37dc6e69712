\* The engines of the app and of the background isolate on one outbox; one may be killed.
SPECIFICATION FairSpec
CONSTANTS
  d1 = d1
  d2 = d2
  c1 = c1
  c2 = c2
  NoClient = NoClient
  Devices <- OneDevice
  Isolates <- TwoIsolates
  Main = "main"
  Calls <- TwoCalls
  DoorStatuses = {"not_home", "answered"}
  CallStatuses = {"no_answer"}
  BatchSize = 1
  MaxOps = 1
  MaxRetry = 2
  RetryCap = 3
  MaxLost = 1
  MaxFaults = 1
  MaxRemovals = 1
  MaxKills = 1
INVARIANTS NoStrandedRow DroppedWasStored
PROPERTIES EveryOperationSettles
