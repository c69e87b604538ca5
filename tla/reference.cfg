SPECIFICATION Spec
CONSTANTS
  Sessions = {s1}
  Options <- MCOptions
  Changes <- MCChanges
  Traces <- MCTraces
  MaxChanges = 2
  MaxHooks = 3
INVARIANT SelectionExplained
INVARIANT ProjectionCurrent
PROPERTY ObservationsKept
CHECK_DEADLOCK FALSE
