SPECIFICATION Spec
CONSTANTS
  j1 = j1
  j2 = j2
  p1 = p1
  p2 = p2
  None = None
  Jobs = {j1, j2}
  Procs = {p1}
  HostOf <- OneHost
  LaneOf <- OwnLane
  MaxStarts = 2
  MaxSends = 2
SYMMETRY Symmetric
PROPERTIES FinalSubmitNotRetried
CHECK_DEADLOCK FALSE
