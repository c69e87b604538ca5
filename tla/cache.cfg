\* Two goroutines on one engine.
SPECIFICATION Spec
CONSTANTS
    Clients = {c1, c2}
    Bases = {b1, b2}
    Extras = {e1}
    Names = {"a", "b", "c"}
    Dirs <- MCDirs
    Starts <- TwoStarts
    Targets <- FewTargets
    MaxCalls = 3
    MaxSteps = 2
SYMMETRY ClientSymmetry
INVARIANTS
    KeyFaithful
    BootstrapNotShared
