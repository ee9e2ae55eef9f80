\* The binary back end on generated programs, in pages of 8 bytes, so that the code ends before, on and after a page.
SPECIFICATION BackEndSpec
CONSTANTS
  Programs <- SmallPrograms
  Nodes <- NodesOfPrograms
  Unit = 1
  Name <- Names
  WhileCapacity = 2
  Lists <- SomeLists
  PageSize = 8
  StdlibSize = 13
INVARIANTS
  BytesMatchSizes
  LabelsAtTheirCode
  Disassembles
  SegmentsLoadable
\* It ends: written, or aborted by an assertion.
CHECK_DEADLOCK FALSE
