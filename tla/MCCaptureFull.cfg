CONSTANTS
  PreferRDMA = TRUE
  Target = 2
  Image <- MCImage
  Table <- MCTable
  Nvidia = {1}
  Trees <- Legibles
  MaxChanges = 0
  Olds <- OnlyEmpty
  MayFail = FALSE
  MaxFailed = 1
SPECIFICATION Spec
CHECK_DEADLOCK FALSE
INVARIANT CopySeesWhatReadSaw
