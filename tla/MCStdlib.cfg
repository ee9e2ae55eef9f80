SPECIFICATION StdlibSpec
CONSTANTS
  Inputs <- SomeInputs
  Others <- SomeOthers
  Decimals = 2
  Step = 10
  Width = 8
  MaxNumber = 10000000
  MaxCalls = 2
INVARIANTS
  ReadsLines
  PrintsValue
PROPERTY
  ReadingEnds
\* The program ends after its last call.
CHECK_DEADLOCK FALSE
