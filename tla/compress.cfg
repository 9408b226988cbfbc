SPECIFICATION Spec
CONSTANTS
  Commands <- AllCommands
  Capacity = 2
  MaxPhrase = 1
  Eps <- SomeEps
INVARIANTS LowerBoundSound PositiveEndIsNear BasisStraddles OnlyEfficient NoWorseThanRecorded
PROPERTIES Terminates KeepsPromise
