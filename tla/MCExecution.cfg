SPECIFICATION ExecSpec
CONSTANTS
  Programs <- ExecutedPrograms
  Nodes <- NodesOfPrograms
  Unit = 1
  Name <- Names
  WhileCapacity = 3
  Inputs <- TypedNumbers
  StackWords = 40
INVARIANTS
  NeverStuck
  ReturnAddressesKept
  SameOutput
PROPERTIES
  ReturnsRestore
  Terminates
CHECK_DEADLOCK FALSE
