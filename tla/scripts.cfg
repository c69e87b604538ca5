\* Seven scripts under three policies.
SPECIFICATION Spec
CONSTANTS
    Scripts <- MCScripts
    RunPolicies <- MCPolicies
    MaxStatements = 2
    Sizes = {0, 1, 2, 3}
    Dirs = {"d", "m"}
    Targets = {"a", "b", "m/b", "null"}
    Null = "null"
    Paths <- MCPaths
    At <- MCAt
    Writable <- MCWritable
    Appendable <- MCAppendable
INVARIANTS
    ListSemantics
    PipesFaithful
    CutIsHonest
    LimitedAtomic
    SuccessIsComplete
