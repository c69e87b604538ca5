\* Two goroutines whose executions share a cached preparation.
SPECIFICATION Spec
CONSTANTS
    Clients = {c1, c2}
    Bases = {b1}
    Extras = {e1}
    Names = {"a", "b", "c"}
    Dirs <- MCDirs
    Starts <- OneStart
    Targets <- FewTargets
    MaxCalls = 2
    MaxSteps = 2
INVARIANTS
    OwnDirectory
