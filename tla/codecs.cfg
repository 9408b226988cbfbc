SPECIFICATION Spec
CONSTANTS
  Requests <- AllRequests
  Junk = {0, 255}
INVARIANTS RoundTrip PricedAsWritten MemorySafe NeverGivesUp
