SPECIFICATION Spec
CONSTANTS
  Zones <- MCZones
  LocalRoot <- MCLocalRoot
  WriteLimit = 0
  Mounts <- MCMounts
  s1 = s1
  s2 = s2
  c1 = c1
  c2 = c2
  Sessions <- MCSessions
  Conns <- MCConns
  Asks <- MCAsks
  DefaultName = "read-only"
  HostTree <- MCHost
  MountData <- MCData
  Scripts <- MCScripts
  MaxRequests = 2
  MaxFailures = 1
  Depth = 3
INVARIANTS AnswersAreTrue MetaIsTrue ListingsTrue
PROPERTIES PolicyInForce Answered
CHECK_DEADLOCK FALSE
