SPECIFICATION StudioSpec
CONSTANTS
  MaxPresses = 2
  MaxPlays = 1
  Paths = {p1, p2, p3}
  NoPath = NoPath
  Imports = {p3}
  MaxWork = 3
  MaxPickers = 1
  MaxSample = 3
  MaxBlock = 5
INVARIANTS
  StudioTypeOK
  RecorderHasItsTake
  EveryTakeSettled
  IdentityKeptUnlessOvertaken
  SchedulesFollowPosition
PROPERTIES
  RollsOnItsOwnTimer
  CountInEnds
  LeavesOnlySaved
\* The user may stop asking, and a closed studio stops.
CHECK_DEADLOCK FALSE
