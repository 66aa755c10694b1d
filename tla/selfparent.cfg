SPECIFICATION Spec
CONSTANTS
  nw = nw  mr = mr  dana = dana  priya = priya  a1 = a1  a2 = a2
  EU = EU  UK = UK  g1 = g1  d1 = d1  d2 = d2  d3 = d3
  s1 = s1  s2 = s2  s3 = s3  NULL = NULL
  Orgs = {nw, mr}
  Principals = {dana, priya, a1, a2}
  Regions = {EU, UK}
  ShipmentIds = {s1, s2, s3}
  GrantIds = {g1}
  DelegIds = {d1, d2}
  Actors = {dana}
  OrgOf <- MCOrgOf
  KindOf <- MCKindOf
  Shipment <- MCShipment
  Credentials <- MCCredentials
  GrantRequests <- MCGrantRequests
  DelegRequests <- MCDelegRequests
  MaxTime = 2
INVARIANT ParentHeldByDelegator
