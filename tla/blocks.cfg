SPECIFICATION Spec
CONSTANTS
  Dst <- Uneven
  Lens <- Short
  Texts <- LettersAndLong
  Getters = {"generic_rsa_getter", "generalized_rsa"}
INVARIANTS AbortsAfterASplit
PROPERTIES KeepsPromise
