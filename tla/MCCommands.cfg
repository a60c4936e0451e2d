CONSTANTS
  PreferRDMA = TRUE
  Target = 2
  Host <- MCHost
  Texts <- MCTexts
  MaxLines = 5
  TopoColumns <- MCColumns
  Keys <- MCKeys
SPECIFICATION Spec
CHECK_DEADLOCK FALSE
INVARIANTS OutputsAccounted LinksWhereTheyBelong TopoCellsTrue FoundWasAsked ExitZeroHidesNoLink CaptureReplays
