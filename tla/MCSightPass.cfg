CONSTANTS
  PreferRDMA = TRUE
  Target = 2
  Truths <- MCTruths
  Losable <- LoseMaxima
  MaxLost = 1
SPECIFICATION Spec
CHECK_DEADLOCK FALSE
INVARIANT LinkPassSound
