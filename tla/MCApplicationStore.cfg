SPECIFICATION Spec
CONSTANTS
  k1 = k1
  NoOne = NoOne
  Owners = {w1, w2}
  Unlocked = {}
  Jobs = {j1, j2}
  Keys = {j1, j2}
  KeyOf <- OwnKey
SYMMETRY Symmetry
CHECK_DEADLOCK FALSE
INVARIANTS
  OneWorker
  RunExclusive
  ClaimRegistered
  NoLostUpdate
PROPERTIES
  AppliedIsFinal
