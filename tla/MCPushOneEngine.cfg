\* One device, one engine: refusals, lost calls, failed statements, a turf taken away.
SPECIFICATION FairSpec
CONSTANTS
  d1 = d1
  d2 = d2
  c1 = c1
  c2 = c2
  NoClient = NoClient
  Devices <- OneDevice
  Isolates <- OneIsolate
  Main = "main"
  Calls <- TwoCalls
  DoorStatuses = {"not_home", "answered"}
  CallStatuses = {"no_answer"}
  BatchSize = 1
  MaxOps = 2
  MaxRetry = 2
  RetryCap = 3
  MaxLost = 1
  MaxFaults = 1
  MaxRemovals = 1
  MaxKills = 0
INVARIANTS TypeOK DroppedWasStored InCreationOrder OneRowPerFailure
PROPERTIES DeadLettersWait ImplementsDelivery AcceptableWorkArrives
