SPECIFICATION Spec
CONSTANTS
  Secrets = {k1, k2}
  SeedRows = 3
  MaxRows = 6
  MaxCrashes = 2
  NULL = NULL
INVARIANTS
  BuiltTrailVerifies
  HalfBuiltServesNothing
PROPERTY
  EventuallyKeyed
