SPECIFICATION HarnessSpec
CONSTANTS
  NULL = NULL
  Orgs <- SuiteOrgs
  Principals <- SuitePrincipals
  OrgOf <- SuiteOrgOf
  KindOf <- SuiteKindOf
  Regions <- SuiteRegions
  ShipmentIds <- SuiteShipmentIds
  Shipment <- SuiteShipment
  Cost <- SuiteCost
  GrantIds = {"g-main", "g-short", "g-unapproved", "g-contoso"}
  DelegIds <- SuiteDelegIds
  Credentials = {}
  Actors = {}
  GrantRequests = {}
  DelegRequests = {}
  Scenarios <- AllAttacks
  Controls <- Cases
  SeedGrants <- SuiteGrants
  SeedDelegations <- SuiteDelegations
  SeedAudit <- SuiteAudit
  TTL = 2
  MaxTime = 2
INVARIANTS
  GuardedArmHolds
  ControlArmShowsMasked
  ControlsPass
  RefusalsAreMeant
