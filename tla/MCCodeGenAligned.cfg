SPECIFICATION Spec
CONSTANTS
  Programs <- Calls
  Nodes <- NodesOfPrograms
  Unit = 1
  Name <- Names
  WhileCapacity = 2
INVARIANT CallsAligned
CHECK_DEADLOCK FALSE
