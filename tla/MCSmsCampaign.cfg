\* A campaign: two administrators at once, and an import that changes a target.
SPECIFICATION FairSpec
\* the campaign is over and every bound is used up
CHECK_DEADLOCK FALSE
CONSTANTS
  v1 = v1
  v2 = v2
  r1 = r1
  r2 = r2
  Voters <- TwoVoters
  StartPlace <- OwnNames
  BatchSize = 1
  Navigators = {"n1"}
  Requests <- TwoRequests
  Worker = "worker"
  Nobody = Nobody
  MaxTexts = 0
  MaxKeywords = 0
  MaxChanges = 1
  MaxFaults = 0
INVARIANTS CompletedMeansAllTried
PROPERTIES CampaignSettles
