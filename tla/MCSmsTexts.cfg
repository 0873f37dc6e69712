\* Single texts beside a campaign, while a voter stops and starts.
SPECIFICATION Spec
\* the campaign is over and every bound is used up
CHECK_DEADLOCK FALSE
CONSTANTS
  v1 = v1
  v2 = v2
  r1 = r1
  r2 = r2
  Voters <- TwoVoters
  StartPlace <- OwnNames
  BatchSize = 2
  Navigators = {"n1", "n2"}
  Requests <- OneRequest
  Worker = "worker"
  Nobody = Nobody
  MaxTexts = 2
  MaxKeywords = 2
  MaxChanges = 1
  MaxFaults = 1
INVARIANTS TypeOK StopTakesEffect CompletedMeansAllTried
