SPECIFICATION ControlSpec
CONSTANTS
  Ui = ui
  Loaders = {l1, l2}
  NoThread = NoThread
  Devices = {d1, d2}
  NoDevice = NoDevice
  Slots = {i1, i2}
  MaxTurns = 2
  MaxDeleted = 1
  MaxPending = 2
INVARIANTS
  ControlTypeOK
  LiveMatchesProject
  LateSyncLeavesTakeAlone
  InstancesAgree
PROPERTIES
  OperationsReturn
  LoadDialogEnds
\* Nobody has to begin anything.
CHECK_DEADLOCK FALSE
