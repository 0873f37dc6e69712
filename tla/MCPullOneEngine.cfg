\* One engine: turfs that overlap, are drawn anew, go and come; a voter without a year of birth.
SPECIFICATION FairSpec
CONSTANTS
  Engines <- OneEngine
  Turfs = {"t1", "t2"}
  Voters = {"v2", "v12"}
  Logs = {"l1"}
  Home <- HomeOfRows
  Undated = {"v2"}
  StartTurfs = {"t1", "t2"}
  PageSize = 1
  MaxTime = 2
  MaxLate = 1
  MaxTies = 0
  MaxGains = 1
  MaxLosses = 1
  MaxRedrawn = 1
  MaxFails = 1
  MaxKills = 1
INVARIANTS TypeOK NothingBehindCursor VotersOfOwnTurfs
PROPERTIES RowsArrive
