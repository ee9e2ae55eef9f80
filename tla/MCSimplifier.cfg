SPECIFICATION SimplifierSpec
CONSTANTS
  Sources <- SomeSources
  Name <- Names
  Unit = 4
  Inputs <- SomeNumbers
  Tolerance = 2
INVARIANTS
  MeaningKept
  ReachedSimplified
  CrashesOnlyAtNeutral
PROPERTIES
  PassesShrink
  PassesEnd
\* It ends: done, or stopped by a null pointer.
CHECK_DEADLOCK FALSE
