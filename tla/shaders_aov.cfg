SPECIFICATION Spec
CONSTANTS
  StackSize = 10
  Graphs <- MCGraphs
  Factors <- MCFactors
INVARIANTS
  AovsFresh
CHECK_DEADLOCK FALSE
