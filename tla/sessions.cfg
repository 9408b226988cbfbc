SPECIFICATION Spec
CONSTANTS
  Dst <- Near
  Lens <- Short
  CacheTexts <- AllTexts
  MaxUnary = 1
  Parsings = 2
  LongestRun = 3
INVARIANTS SameGraph NeverThrows NoPhraseMissed
PROPERTIES FixedCopiesTheText
