SPECIFICATION Spec
CONSTANTS
  g1 = g1
  g2 = g2
  k1 = k1
  k2 = k2
  r1 = r1
  b1 = b1
  byName = byName
  byPort = byPort
  noKind = noKind
  toOther = toOther
  v1 = v1
  v2 = v2
  noPort = noPort
  sticky = sticky
  None = None
  Gateway = {g1, g2}
  Key = {k1}
  Route = {r1}
  Backend = {b1}
  Ref = {byName, toOther}
  BackendSpecs = {v1, v2, noPort}
  BadBackends = {noPort}
  PolicySpecs = {sticky}
  KindedRefs = {byName, toOther}
  Unwatched = {}
  Local = {g1}
  Mesh = TRUE
  Debounce = 1
  KeyRank <- Rank
  GatewaySpecs <- MeshListeners
  RouteSpecs <- MeshRoutes
  RefGateway <- MeshRefGateway
  RefKeys <- MeshRefKeys
INVARIANTS
  BackendsConverge
  PoliciesConverge
  SubscribedUnlessThrew
PROPERTIES
  PassEnds
