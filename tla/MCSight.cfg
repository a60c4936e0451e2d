CONSTANTS
  PreferRDMA = TRUE
  Target = 2
  Truths <- MCTruths
  Losable <- LoseCurrent
  MaxLost = 2
SPECIFICATION Spec
CHECK_DEADLOCK FALSE
INVARIANTS LinkPassSound AcsPassSound AcsFailSound CapacityExactOrZero
