\* One event, one answer and nothing that fails.
SPECIFICATION Spec
CONSTANTS
  Scripts = {s1}
  Events = {e1}
  Materials = {m1}
  Users = {u1}
  Editors = {q1}
  PageSize = 2
  MaxTime = 3
  MaxTrouble = 0
INVARIANTS RsvpsAreNotLost
