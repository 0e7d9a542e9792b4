SPECIFICATION Spec
CONSTANTS
  Starts <- MCStarts
  Routers <- MCRouters
  Specs <- MCSpecs
  Sides <- MCSides
  DocTexts <- MCDocTexts
  Shown <- MCShown
  Titles <- MCTitles
  FileOrder <- MCFileOrder
  Packages <- MCPackages
  MaxEdits = 2
INVARIANTS RouterIsRead DriftZeroIsWhole ImportersAreSeen ShellReachesEveryScreen NothingUnlinked PagesAreSeen
