SPECIFICATION EngineSpec
CONSTANTS
  Graphs = {g1, g2, g3}
  NoGraph = NoGraph
  MaxEdits = 3
  MaxTimeouts = 1
  MaxPasses = 2
  MaxLoads = 1
  MaxGraces = 1
INVARIANTS
  EngineTypeOK
  InFlightHasItsLoad
  NothingForgotten
  PublishedWithoutTimeout
  BuffersApart
PROPERTIES
  DeferredPlayStarts
  EngineCatchesUp
  WetComesBack
\* Nobody has to begin anything.
CHECK_DEADLOCK FALSE
