SPECIFICATION Spec
CONSTANTS
  None = None
  Tenants = {acme, globex}
  Ids = {a1, a2, a3}
  MaxTime = 4
  DayLength = 2
  Hour = 2
  DailyLimit = 1
  TenantLimit = 1
SYMMETRY Symmetry
INVARIANTS
  HourlyCap
  ClicksPerDay
PROPERTIES
  LaterPassesRest
