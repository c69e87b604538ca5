\* A move inside a writable mount whose budget refuses the batch of the move: violated.
SPECIFICATION Spec
CONSTANTS
  Zones <- MCZones
  LocalRoot <- MCLocalRoot
  WriteLimit = 3
  Mounts <- MCMounts
  e1 = e1
  e2 = e2
  Execs <- MCExecs
  Commands <- MCCommands
  InitialHost <- MCHost
  InitialData <- MCData
  MaxFaults = 0
  MaxFlips = 0
INVARIANT SplitMoveKeepsContent
CHECK_DEADLOCK FALSE
