\* Every short text.
SPECIFICATION Spec
CONSTANTS
    Texts <- MCTexts
    MaxHereDoc = 3
    MaxStatements = 2
INVARIANTS
    ParsesGrammar
    WordsReadAlike
CHECK_DEADLOCK FALSE
