SPECIFICATION FileSpec
CONSTANTS
  p1 = p1
  p2 = p2
  gateway = gateway
  policy = policy
  web = web
  api = api
  s1 = s1
  None = None
  Path <- MCPath
  Kind <- MCKind
  Name <- MCName
  Spec <- MCSpec
  Docs <- MCDocs
  Poison <- MCPoison
  MeshDocs <- MCMeshDocs
  Asked = Asked
  MaxReads = 2
INVARIANTS
  ListIsFiles
  FoundUnlessClashed
  OutdatedIsPending
PROPERTIES
  RemovalTold
  CatchesUp
