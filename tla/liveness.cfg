\* Two goroutines that follow a session to the end of its executions and calls.
SPECIFICATION FairSpec
CONSTANTS
    Clients = {c1, c2}
    Sessions = {s1}
    Dirs = {root}
    Ceilings <- MCCeilings
    Asks <- MCAsks
    Sizes = {0, 1, 2, 3}
    Adapted = {s1}
    MaxCalls = 4
    Free = Free
    Nil = Nil
PROPERTIES
    CancelEnds
    ControlReturns
    Lifecycle
