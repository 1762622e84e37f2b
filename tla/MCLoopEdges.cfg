CONSTANTS
  MaxEdges = 4
  Node <- MCNode
  Graphs <- MCGraphs
SPECIFICATION Spec
INVARIANTS
  FinishOrder
  JoinsUnblocked
PROPERTIES
  MarksCloseCycle
CHECK_DEADLOCK FALSE
