SPECIFICATION BrowserSpec
CONSTANTS
  a = a
  r = r
  Opens = {a, r}
  Policy <- MCPair
  MaxContextFailures = 2
  MaxProcesses = 2
INVARIANTS
  CloseIsFinal
