SPECIFICATION FairSpec
CONSTANTS
  Takes = {t1, t2}
  NoTake = NoTake
  PoolBlocks = 1
  CmdCapacity = 1
  TrashCapacity = 1
  MaxBlocks = 1
  MaxStreams = 1
PROPERTIES
  ImplementsLifecycle StopCompletes EveryFileIsClosed
