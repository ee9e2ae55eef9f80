\* Slots, bindings and the rules of the language: two functions with a built-in and both names of the entry point.
SPECIFICATION Spec
CONSTANTS
  main = main
  x = x
  sqrt = sqrt
  NoDecl = NoDecl
  Id <- AllNames
  EntryId <- BothEntryNames
  Builtin <- BuiltinNames
  BuiltinArity <- OneArgument
  MaxFuncs = 2
  MaxParams = 1
  MaxDecls = 2
  MaxScopes = 6
INVARIANTS
  TypeOK
  SlotsDisjoint
  SlotsInFrame
  ParamSlots
  LoopDepthExact
  AcceptedProgram
PROPERTY StaticScoping
\* The walk ends: at an error or at NO_ERROR nothing is left to do.
CHECK_DEADLOCK FALSE
