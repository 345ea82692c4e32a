SPECIFICATION Spec
CONSTANTS
  j1 = j1
  j2 = j2
  p1 = p1
  p2 = p2
  None = None
  Jobs = {j1}
  Procs = {p1, p2}
  HostOf <- OneHost
  LaneOf <- OwnLane
  MaxStarts = 3
  MaxSends = 2
SYMMETRY Symmetric
INVARIANTS TypeOK SoleSupervisor AppliedHasArrived
PROPERTIES ReceiptStopsResends
CHECK_DEADLOCK FALSE
