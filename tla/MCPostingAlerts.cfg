SPECIFICATION Spec
CONSTANTS
  acme = acme
  Sites = {s1, s2}
  TenantOf <- OneTenant
  Postings = {p1, p2}
  EmployerOf <- OneEmployer
  Colons = {}
  Retention = 2
  ClosedRetention = 1
  Healthy = 2
  Unreachable = TRUE
  MaxTime = 5
SYMMETRY Symmetry
CHECK_DEADLOCK FALSE
INVARIANTS
  TypeOK
PROPERTIES
  MailedOnce
  OpenWhileListed
  DroppedWhenLongClosed
