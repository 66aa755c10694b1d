SPECIFICATION ReadSpec
CONSTANTS
  nw = nw  mr = mr  ct = ct  dana = dana  priya = priya  lena = lena  a1 = a1  a2 = a2
  EU = EU  UK = UK  g1 = g1  g2 = g2  d1 = d1  d2 = d2  d3 = d3
  s1 = s1  s2 = s2  s3 = s3  s4 = s4  r1 = r1  r2 = r2  r3 = r3  c1 = c1  c2 = c2
  NULL = NULL
  Orgs = {nw, mr, ct}
  Principals = {dana, priya, lena, a1}
  Regions = {EU, UK}
  ShipmentIds = {s1, s2, s3, s4}
  GrantIds = {g1, g2}
  DelegIds = {d1}
  Actors = {dana}
  Requests = {r1, r2}
  Conns = {c1, c2}
  GrantRequests = {}
  DelegRequests = {}
  OrgOf <- TwoOrgOf
  KindOf <- TwoKindOf
  Shipment <- TwoShipment
  Cost <- TwoCost
  Credentials <- MCTokens
  AuditTokens <- TwoAuditTokens
  Asks <- TwoAsks
  SeedGrants <- TwoSeedGrants
  SeedDelegations <- MCSeedDelegations
  SeedAudit <- TwoSeedAudit
  MaxTime = 1
SYMMETRY RequestSymmetry
INVARIANTS
  ReadTypeOK
  TrailTellsDelivered
  RevokedGetsNothing
  IdentityIsOwn
  TrailReconciles
  ReconstructionNamesActors
  BothSidesHaveTheStory
  NoOtherStory
PROPERTY
  RowsNeedLiveAuthority
