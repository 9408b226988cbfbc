SPECIFICATION Spec
CONSTANTS
  Dst <- Uneven
  Lens <- Short
  Texts <- Letters
  Getters = {"generic_rsa_getter"}
INVARIANTS AssertsHold
