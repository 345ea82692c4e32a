SPECIFICATION Spec
CONSTANTS
  acme = acme
  None = None
  Jobs = {j1, j2}
  TenantOf <- OneTenant
  Listed = {j1}
  Aliased = {}
  MaxSends = 2
INVARIANTS
  OneApplication
