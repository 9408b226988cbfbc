SPECIFICATION Spec
CONSTANTS
  Symbols <- Letters
  Parsings <- SomeParsings
  Word = 4
  WrongCount = 42
INVARIANTS KindsAgree FixRestoresTheParsing DecodedPrefix
