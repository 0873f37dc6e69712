SPECIFICATION Spec
CONSTANTS
  Tasks = {t1}
  Voters = {v1, v2}
  Workers = {w1, w2}
  Requests = {r1}
  Turfs = {"turf"}
  TurfOf <- InOneTurf
  Nobody = Nobody
  NoTask = NoTask
  MaxStatuses = 0
  MaxLinks = 1
  MaxLogs = 2
  MaxFaults = 0
INVARIANTS RecalculationIsRaceSafe
CHECK_DEADLOCK FALSE
