SPECIFICATION FairSpec
CONSTANTS
  k1 = k1
  NoOne = NoOne
  Owners = {w1, c1}
  Unlocked = {c1}
  Jobs = {j1, j2}
  Keys = {k1}
  KeyOf <- OneKey
CHECK_DEADLOCK FALSE
INVARIANTS
  OneRowPerRequisition
PROPERTIES
  OnlyTheDeadAreRobbed
  OrphanReleased
