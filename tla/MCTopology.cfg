CONSTANTS
  PreferRDMA = TRUE
  HostBridges = {"p0", "p1"}
  MaxFunctions = 9
  MaxShared = 2
SPECIFICATION TopologySpec
CHECK_DEADLOCK FALSE
INVARIANTS LocalityCountsSwitches LinksPartTheEnds
