\* The library named by the second of two includes.
SPECIFICATION FrontEndSpec
CONSTANTS
  Letters <- SomeLetters
  Digits <- SomeDigits
  Bytes <- SomeBytes
  Texts <- TwoIncludes
  Library <- TheLibrary
  MaxIdentifiers = 2
INVARIANT LibraryLinked
CHECK_DEADLOCK FALSE
