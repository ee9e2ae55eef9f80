\* The line of an error after an include of two lines.
SPECIFICATION FrontEndSpec
CONSTANTS
  Letters <- SomeLetters
  Digits <- SomeDigits
  Bytes <- SomeBytes
  Texts <- IncludeOverLines
  Library <- TheLibrary
  MaxIdentifiers = 2
INVARIANT PositionsExact
CHECK_DEADLOCK FALSE
