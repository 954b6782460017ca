SPECIFICATION DeviceFairSpec
CONSTANTS
  Ui = ui
  Loaders = {l1}
  NoThread = NoThread
  Devices = {d1}
  NoDevice = NoDevice
CHECK_DEADLOCK FALSE
PROPERTIES
  RouteEditReturns
