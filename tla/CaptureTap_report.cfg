SPECIFICATION Spec
CONSTANTS
  Takes = {t1}
  NoTake = NoTake
  PoolBlocks = 1
  CmdCapacity = 2
  TrashCapacity = 2
  MaxBlocks = 2
  MaxStreams = 1
INVARIANTS
  OkMeansNothingDropped
