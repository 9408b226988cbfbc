SPECIFICATION Spec
CONSTANTS
  Commands <- TiedCommands
  Capacity = 2
  MaxPhrase = 1
  Eps <- SomeEps
INVARIANTS EarlyReturnWithinBound
