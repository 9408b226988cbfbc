SPECIFICATION Spec
CONSTANTS
  L = 5
  MaxDst = 3
  MaxLen = 3
  CostCM <- SpaceCM
  WeightCM <- TimeCM
  Inputs <- AllInputs
INVARIANTS TypeOK ReadersOnPhrases BridgeInside HeadTailAccounting NoWorseThanABase GeneratesAParsing DeliversTheBest
