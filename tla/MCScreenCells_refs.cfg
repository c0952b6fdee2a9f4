\* More glyphs than slots, single steps, no characters deleted.
SPECIFICATION CSpec
CONSTANTS
  Steps = {1}
  Slack = 0
  LineAttrs = 3
  Careful = TRUE
  Sizes <- SmallSize
  Ops <- CountedOps
  Chars = {alpha, beta}
  Glyphs = {alpha, beta}
  Slots = {"s0"}
  Slot0 = "s0"
  CountMod = 32
  MaxCells = 6
  MaxUses = 8
SYMMETRY Alphabet
INVARIANT ExactRefs
