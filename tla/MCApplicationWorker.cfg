SPECIFICATION FairSpec
CONSTANTS
  acme = acme
  None = None
  Jobs = {j1, j2}
  TenantOf <- OneTenant
  Listed = {j2}
  Aliased = {j1}
  MaxSends = 2
INVARIANTS
  
  AmbiguityKnown
PROPERTIES
  ParkedBlocksSiblings
  ClickAccountedFor
  
