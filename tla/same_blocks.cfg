SPECIFICATION Spec
CONSTANTS
  Dst <- Equal
  Lens <- Short
  Texts <- Letters
  Getters = {"same_rsa_getter"}
PROPERTIES KeepsPromise
