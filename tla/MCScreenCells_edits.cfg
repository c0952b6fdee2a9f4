\* Lines and characters by one and by several, within any region.
SPECIFICATION CSpec
CONSTANTS
  Steps = {1, 2}
  Slack = 0
  LineAttrs = 3
  Careful = TRUE
  Sizes <- EditSizes
  Ops <- EditOps
  Chars = {"alpha"}
  Glyphs = {"alpha", "beta"}
  Slots = {"s0"}
  Slot0 = "s0"
  CountMod = 32
  MaxCells = 6
  MaxUses = 5
PROPERTY ImplementsGrid
