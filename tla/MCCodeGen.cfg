SPECIFICATION Spec
CONSTANTS
  Programs <- AndDeepPrograms
  Nodes <- NodesOfPrograms
  Unit = 1
  Name <- Names
  WhileCapacity = 2
INVARIANTS
  TypeOK
  TemporariesReturned
  BreakLeavesInnermostLoop
  LabelsUnique
  LabelsResolve
  LocalJumpsStayInFunction
  ConstantsDistinct
CHECK_DEADLOCK FALSE
