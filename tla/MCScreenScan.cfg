SPECIFICATION Spec
CONSTANTS
  AppAddrs = {"users", "me"}
  Declared = {"users"}
  Samples = 2
  QuietWindow = 1
  Budget = 3
  Cap = 1
  MaxMoves = 2
  FrameIds = {1, 2, 3}
  TreesAnswer = TRUE
  Controls = {"a", "b"}
  TabCap = 3
  Providers <- ConfiguredOrder
  SignIns = {1, 2}
  Captures <- CapturesDef
  Placed <- PlacedDef
  Named <- NamedDef
  MaxEdits = 2
INVARIANTS CleanIsWhole ExpiredMeasuresNothing KeptWasThere SessionIsVouched DoctorAgrees
PROPERTY ScanEnds
