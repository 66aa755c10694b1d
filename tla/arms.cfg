SPECIFICATION ArmsSpec
CONSTANTS
  nw = nw  mr = mr  dana = dana  priya = priya  a1 = a1  a2 = a2
  EU = EU  UK = UK  g1 = g1  d1 = d1  d2 = d2  d3 = d3
  s1 = s1  s2 = s2  s3 = s3  r1 = r1  r2 = r2  r3 = r3  c1 = c1  c2 = c2  NULL = NULL
  Orgs = {nw, mr}
  Principals = {dana, priya, a1}
  Regions = {EU, UK}
  ShipmentIds = {s1, s2, s3}
  GrantIds = {g1}
  DelegIds = {d1}
  Actors = {dana}
  Requests = {r1, r2}
  Conns = {c1}
  GrantRequests = {}
  DelegRequests = {}
  OrgOf <- MCOrgOf
  KindOf <- MCKindOf
  Shipment <- MCShipment
  Cost <- MCCost
  Credentials <- MCTokens
  AuditTokens <- MCAuditTokens
  Asks <- MCArmAsks
  SeedGrants <- MCSeedGrants
  SeedDelegations <- MCSeedDelegations
  SeedAudit <- MCSeedAudit
  MaxTime = 0
INVARIANTS
  TrailTellsDelivered
  RevokedGetsNothing
PROPERTIES
  ArmsAreGuarded
  EveryRequestEnds
