\* Everything that clears the screen or changes its size.
SPECIFICATION CSpec
CONSTANTS
  Steps = {1}
  Slack = 0
  LineAttrs = 3
  Careful = TRUE
  Sizes <- TwoSizes
  Ops <- SizeOps
  Chars = {"alpha"}
  Glyphs = {"alpha", "beta"}
  Slots = {"s0"}
  Slot0 = "s0"
  CountMod = 32
  MaxCells = 4
  MaxUses = 5
INVARIANT ExactRefs
PROPERTY ImplementsGrid
