SPECIFICATION FairSpec
CONSTANTS
  Panels = {c1, c2}
  MaxSaves = 1
  MaxChecks = 1
CHECK_DEADLOCK FALSE
INVARIANTS
  ReaderSeesTheSave
PROPERTIES
  PanelNeverGoesBack
  PanelCatchesUp
