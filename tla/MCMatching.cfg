SPECIFICATION MatchingSpec
CONSTANTS
  None = None
  Nothing = None
  Unset = None
  Tables <- SmallTables
  Requests <- SmallRequests
  RegexPaths <- SmallRegex
  RegexLength = 2
  RuleSets <- SmallRuleSets
  Bodies <- SmallBodies
  Configs <- SmallConfigs
  Connection = {"k1", "k2"}
  Calls <- SmallCalls
  Root = {"r1", "r2"}
  Pages <- SmallPages
  StripPort = TRUE
INVARIANTS
  FoundFits
  HostIsClosest
  FastIsSearch
  HistoryFree
  NamedIsFound
  KeptIsSelected
