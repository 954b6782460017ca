SPECIFICATION SyncSpec
CONSTANTS
  Graphs = {g1, g2}
  NoGraph = NoGraph
  MaxEdits = 2
  MaxTimeouts = 1
CHECK_DEADLOCK FALSE
INVARIANTS
  PublishedIsTheEngines
