SPECIFICATION QueuesSpec
CONSTANTS
  Streams = {s1, s2, s3}
  Decodable = {s1, s2}
  Jams = {j1, j2}
  NoJam = NoJam
  MaxCommands = 3
  MaxChanges = 2
  MaxFaults = 2
  SeqNumbers = {0, 1, 2, 3, 4}
  Generations = {0, 1}
  Sizes = {1, 2}
  MaxQueued = 3
  MaxBytes = 4
  MaxPushes = 5
  Takes = {1, 2, 3, 4}
  NoTake = 0
  PoolBlocks = 1
  CmdCapacity = 2
  TrashCapacity = 2
  MaxBlocks = 0
  MaxStreams = 1
INVARIANTS
  JamTypeOK
  QuietMeansRouted
  RoutedHearsOnlyRouted
  TableFollowsRegistry
  EveryPacketCounted
  SlotsCounted
PROPERTIES
  ReleasedInOrder
  HeldSinkIsHandedBack
\* The host may stop giving commands, and the worker stops at shutdown.
CHECK_DEADLOCK FALSE
