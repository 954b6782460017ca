SPECIFICATION StudioSpec
CONSTANTS
  MaxPresses = 1
  MaxPlays = 1
  Paths = {p1, p2, p3}
  NoPath = NoPath
  Imports = {p3}
  MaxWork = 2
  MaxPickers = 1
  MaxSample = 3
  MaxBlock = 5
INVARIANTS
  IdentityKept
\* The user may stop asking, and a closed studio stops.
CHECK_DEADLOCK FALSE
