SPECIFICATION Spec
CONSTANTS
  Interval = 3
  CacheTTL = 7
  TokenTTL = 10
  LongTTL = 70
  MaxWait = 24
  MaxWork = 1
  MaxLag = 1
  Trials = 2
INVARIANTS
  TypeOK
  AgentWorksBeforeRevoke
  WithinDeclaredBound
  StaleReadsBounded
CHECK_DEADLOCK FALSE
