SPECIFICATION BrowserFairSpec
CONSTANTS
  a = a
  r = r
  Opens = {a, r}
  Policy <- MCPair
  MaxContextFailures = 2
  MaxProcesses = 3
INVARIANTS
  NoOrphan
PROPERTIES
  HealthyIsKept
  EveryOpenSettles
