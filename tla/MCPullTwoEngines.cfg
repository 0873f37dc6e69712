\* The engines of the app and of the background isolate; one isolate is killed.
SPECIFICATION FairSpec
CONSTANTS
  Engines <- TwoEngines
  Turfs = {"t1"}
  Voters = {"v1"}
  Logs = {}
  Home <- HomeOfRows
  Undated = {}
  StartTurfs = {"t1"}
  PageSize = 1
  MaxTime = 2
  MaxLate = 0
  MaxTies = 0
  MaxGains = 0
  MaxLosses = 0
  MaxRedrawn = 0
  MaxFails = 0
  MaxKills = 1
PROPERTIES RowsArrive
