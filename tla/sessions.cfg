\* Three goroutines, a session with adapters and one without: all interleavings.
SPECIFICATION Spec
CONSTANTS
    Clients = {c1, c2, c3}
    Sessions = {s1, s2}
    Dirs = {root, work}
    Ceilings <- MCCeilings
    Asks <- MCAsks
    Sizes = {0, 1, 2, 3}
    Adapted = {s1}
    MaxCalls = 5
    Free = Free
    Nil = Nil
SYMMETRY ClientSymmetry
INVARIANTS
    SlotTruthful
    CheckpointInert
    CancelIsPrecise
    ClosedIsQuiet
    ProjectionsAgree
    StatePreserved
    ConfinedToCeiling
