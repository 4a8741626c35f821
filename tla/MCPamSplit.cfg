CONSTANTS
  PamMaxSyll = 10
  PamMaxPh = 8
  PamMaxBytes = 36
  PamIds = 256
  PamCarriers = {"a"}
  PamTree <- MCTree
  PamGarbage = {0, 3}
  PamItems <- MCPamItems
  PamInputs <- MCInputs
  ModUnit = 4
  MaxSyll = 3
  MaxP = 2
  MaxCmd = 0
  InCap = 1
  OutCap = 1
  MaxItems = 9
SPECIFICATION PamSpec
CHECK_DEADLOCK FALSE
INVARIANT TiesAttached
