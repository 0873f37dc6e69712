\* A voter of the turf was imported without a year of birth.
SPECIFICATION FairSpec
CONSTANTS
  Engines <- OneEngine
  Turfs = {"t1", "t2"}
  Voters = {"v1", "v2"}
  Logs = {}
  Home <- HomeOfRows
  Undated = {"v2"}
  StartTurfs = {"t1", "t2"}
  PageSize = 1
  MaxTime = 3
  MaxLate = 0
  MaxTies = 0
  MaxGains = 0
  MaxLosses = 0
  MaxRedrawn = 0
  MaxFails = 0
  MaxKills = 0
PROPERTIES UpdatedVotersAreReturned
