SPECIFICATION Spec
CONSTANTS
  StackSize = 10
  Graphs <- MCGraphs
  Factors <- MCFactors
INVARIANTS
  InputsFresh
  ShadesAsDescribed
  StackBalanced
CHECK_DEADLOCK FALSE
