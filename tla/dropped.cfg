\* A command under a narrower policy whose state is lost: violated.
SPECIFICATION Spec
CONSTANTS
    Clients = {c1}
    Sessions = {s1}
    Dirs = {root, work}
    Ceilings <- MCCeilings
    Asks <- MCAsks
    Sizes = {0, 1, 2, 3}
    Adapted = {}
    MaxCalls = 3
    Free = Free
    Nil = Nil
INVARIANT StateNeverDropped
