SPECIFICATION FairSpec
CONSTANTS
  Scripts = {s1}
  Events = {e1, e2}
  Materials = {m1}
  Users = {u1}
  Editors = {q1, q2}
  PageSize = 1
  MaxTime = 3
  MaxTrouble = 1
INVARIANTS
  TypeOK
  CopiesAreCurrent
PROPERTIES
  VersionsGoForward
  CancelledEventIsHidden
