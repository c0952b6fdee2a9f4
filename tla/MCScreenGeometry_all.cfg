\* Two kinds of hosts on two sizes.
SPECIFICATION SessionSpec
CONSTANTS
  Steps = {1, 3}
  Slack = 0
  LineAttrs = 3
  Careful = TRUE
  Sizes <- TwoSizes
  Ops <- Groups
INVARIANTS GeoTypeOK CursorInScreen RegionInScreen
PROPERTIES MotionConfined OriginConfined
