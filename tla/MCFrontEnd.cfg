SPECIFICATION FrontEndSpec
CONSTANTS
  Letters <- SomeLetters
  Digits <- SomeDigits
  Bytes <- SomeBytes
  Texts <- SomeTexts
  Library <- TheLibrary
  MaxIdentifiers = 2
INVARIANTS
  TypeOK
  PositionsExactUnlessBroken
  IdentifiersOneToOne
  OverrunOnlyByNames
  LinkedByDirective
  GrammarAccepted
  AcceptedInGrammar
\* It ends: accepted, rejected, or stopped in the tokenizer.
CHECK_DEADLOCK FALSE
