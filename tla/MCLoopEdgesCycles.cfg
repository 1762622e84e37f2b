CONSTANTS
  MaxEdges = 2
  Node <- MCNode
  Graphs <- MCGraphs
SPECIFICATION Spec
INVARIANTS
  EveryCycleMarked
CHECK_DEADLOCK FALSE
