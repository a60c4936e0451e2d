CONSTANTS
  PreferRDMA = TRUE
  Target = 2
  Image <- MCImage
  Table <- MCTable
  Nvidia = {1}
  Trees <- MCTrees
  MaxChanges = 1
  Olds <- MCOlds
  MayFail = TRUE
  MaxFailed = 1
SPECIFICATION Spec
CHECK_DEADLOCK FALSE
INVARIANTS EachValueWasTrue ListedOrReported StillTreeIsRead DegradedWasReal CopyTellsTheTree CopyInventsNothing RecaptureRefreshes
PROPERTY CaptureEnds
