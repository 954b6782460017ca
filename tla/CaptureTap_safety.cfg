SPECIFICATION Spec
CONSTANTS
  Takes = {t1, t2}
  NoTake = NoTake
  PoolBlocks = 2
  CmdCapacity = 2
  TrashCapacity = 2
  MaxBlocks = 3
  MaxStreams = 2
SYMMETRY TakeSymmetry
ACTION_CONSTRAINT FewBlocks
INVARIANTS
  TypeOK PoolConserved CaptureAccounted FileInOrder
  PlacedOnFirstBlock OkMissesOnlyTheTail
PROPERTIES
  TakeStaysAttached
