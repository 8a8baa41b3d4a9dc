SPECIFICATION BridgeSpec
CONSTANTS
  Size = 2
  Wrap = 6
  Char = {0, 1}
INVARIANTS
  BridgeTypeOK
  BytesInOrder
CHECK_DEADLOCK FALSE
