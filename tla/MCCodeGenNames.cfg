SPECIFICATION Spec
CONSTANTS
  Programs <- Recursive
  Nodes <- NodesOfPrograms
  Unit = 1
  Name <- NamesWithOut
  WhileCapacity = 2
PROPERTY UserCallsCompiled
CHECK_DEADLOCK FALSE
