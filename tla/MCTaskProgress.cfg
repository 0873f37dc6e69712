SPECIFICATION FairSpec
CONSTANTS
  Tasks = {t1}
  Voters = {v1, v2}
  Workers = {w1, w2}
  Requests = {r1}
  Turfs = {"turf"}
  TurfOf <- InOneTurf
  Nobody = Nobody
  NoTask = NoTask
  MaxStatuses = 1
  MaxLinks = 1
  MaxLogs = 2
  MaxFaults = 1
INVARIANTS
  TypeOK
  ContactedWereLogged
  ProgressIsExact
PROPERTIES
  CancelStands
  ContactsAreCounted
CHECK_DEADLOCK FALSE
