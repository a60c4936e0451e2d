CONSTANTS
  Gpu = {g1, g2}
  Name = {link}
  NoCheck = NoCheck
  Detail <- MCDetail
  Check <- MCCheck
  Counts = {0, 3}
  ReadCap = 3
SPECIFICATION Spec
CHECK_DEADLOCK FALSE
INVARIANTS ExitZeroMeansClean ExitThreeMeansFail LogIsCurrent ShortOnlyWhenInterrupted
PROPERTIES KeepsPromise CountedEnds InterruptEnds
