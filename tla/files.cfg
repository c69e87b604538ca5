\* Two commands at the same time, over two host zones and four mounts, with one fault and one
\* mount that comes or goes.
SPECIFICATION Spec
CONSTANTS
  Zones <- MCZones
  LocalRoot <- MCLocalRoot
  WriteLimit = 3
  Mounts <- MCMounts
  e1 = e1
  e2 = e2
  Execs <- MCExecs
  Commands <- MCCommands
  InitialHost <- MCHost
  InitialData <- MCData
  MaxFaults = 1
  MaxFlips = 1
INVARIANTS
  Confined
  ProjectionsKept
  MoveKeepsContent
  BoundariesKept
  TraceTruthful
  LookingAgrees
PROPERTIES ReadOnlyHolds
CHECK_DEADLOCK FALSE
