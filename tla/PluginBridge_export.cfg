SPECIFICATION BridgeSpec
CONSTANTS
  MaxPasses = 1
  MaxLoads = 1
  MaxGraces = 0
INVARIANTS
  DetachedForExport
CHECK_DEADLOCK FALSE
