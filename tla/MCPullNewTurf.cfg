\* A turf is assigned to a navigator who already has one.
SPECIFICATION FairSpec
CONSTANTS
  Engines <- OneEngine
  Turfs = {"t1", "t2"}
  Voters = {"v1", "v2"}
  Logs = {}
  Home <- HomeOfRows
  Undated = {}
  StartTurfs = {"t1"}
  PageSize = 1
  MaxTime = 3
  MaxLate = 0
  MaxTies = 0
  MaxGains = 1
  MaxLosses = 0
  MaxRedrawn = 0
  MaxFails = 0
  MaxKills = 0
PROPERTIES GainedTurfIsPulled
