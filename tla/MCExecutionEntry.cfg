SPECIFICATION ExecSpec
CONSTANTS
  Programs <- EntryCalled
  Nodes <- NodesOfPrograms
  Unit = 1
  Name <- Names
  WhileCapacity = 3
  Inputs <- TypedNumbers
  StackWords = 40
INVARIANT AllCallsReturn
CHECK_DEADLOCK FALSE
