SPECIFICATION Spec
CONSTANTS
  g1 = g1
  g2 = g2
  k1 = k1
  k2 = k2
  r1 = r1
  b1 = b1
  byName = byName
  byPort = byPort
  noKind = noKind
  toOther = toOther
  v1 = v1
  v2 = v2
  noPort = noPort
  sticky = sticky
  None = None
  Gateway = {g1}
  Key = {k1, k2}
  Route = {r1}
  Backend = {}
  Ref = {byName, byPort, noKind}
  BackendSpecs = {}
  BadBackends = {}
  PolicySpecs = {}
  KindedRefs = {byName, byPort}
  Unwatched = {}
  Local = {g1}
  Mesh = FALSE
  Debounce = 2
  KeyRank <- Rank
  GatewaySpecs <- TwoListeners
  RouteSpecs <- MovingRoutes
  RefGateway <- RouterRefGateway
  RefKeys <- RouterRefKeys
INVARIANTS
  RoutersConverge
