\* A campaign, nothing fails and nobody opts out.
SPECIFICATION Spec
\* the campaign is over and every bound is used up
CHECK_DEADLOCK FALSE
CONSTANTS
  v1 = v1
  v2 = v2
  r1 = r1
  r2 = r2
  Voters <- TwoVoters
  StartPlace <- OwnNames
  BatchSize = 2
  Navigators = {"n1"}
  Requests <- OneRequest
  Worker = "worker"
  Nobody = Nobody
  MaxTexts = 0
  MaxKeywords = 0
  MaxChanges = 0
  MaxFaults = 0
INVARIANTS FailedForAReason
