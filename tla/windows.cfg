SPECIFICATION Spec
CONSTANTS
  Dst <- Classes
  Lens <- Short
  Texts <- Letters
  TreeShare = 2
  WordBits = 2
INVARIANTS WindowsHold StructuresRight
PROPERTIES KeepsPromise
