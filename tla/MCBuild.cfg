CONSTANTS
  PreferRDMA = TRUE
  Target = 2
  Hosts <- MCHostsAll
SPECIFICATION Spec
CHECK_DEADLOCK FALSE
INVARIANTS ChecksArePure ChainsComplete FastestActive UnknownHidesNoWorkingPort DownIsDown
