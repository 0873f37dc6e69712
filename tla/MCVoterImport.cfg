SPECIFICATION FairSpec
CONSTANTS
  k1 = k1
  k2 = k2
  l1 = l1
  l2 = l2
  l3 = l3
  l4 = l4
  l5 = l5
  NoKey = NoKey
  NoRow = NoRow
  NoJob = NoJob
  Jobs = {j1, j2}
  Runners = {r1, r2}
  Lines <- FiveLines
  KeyOf <- KeyOfLine
  Files <- ThreeFiles
  BatchSize = 1
  GoogleLimit = 1
  MaxConfirms = 2
  MaxFaults = 1
INVARIANTS
  TypeOK
  CompleteMeansMerged
  ReportAddsUp
PROPERTIES
  PlacesStay
  JobsEnd
  VotersAreTried
CHECK_DEADLOCK FALSE
