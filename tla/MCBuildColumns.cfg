CONSTANTS
  PreferRDMA = TRUE
  Target = 2
  Hosts <- TwoColumns
SPECIFICATION Spec
CHECK_DEADLOCK FALSE
INVARIANT SameHostSameReport
