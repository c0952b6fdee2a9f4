SPECIFICATION Spec
CONSTANTS
  Glyphs <- MCGlyphs
  Clients = {c1, c2}
  Hosts <- MCHosts
  Sizes <- MCSizes
  Pens <- MCPens
  Counts <- MCCounts
  Fields <- MCFields
  Rows = 3
  BufLen = 2000
  Before <- MCBefore
  CutAt = {16, 20, 26}
  Sessions = 1
  ResizesUnwatched = FALSE
  SlotsTakenOver = FALSE
CHECK_DEADLOCK FALSE
INVARIANTS UpdateSuffices CutsKeepCells
PROPERTY Settles
