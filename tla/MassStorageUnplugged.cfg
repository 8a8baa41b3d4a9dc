SPECIFICATION FairSpec
CONSTANTS
  Cards = {2, 3}
  WrapBlocks = 3
  Addresses = {0, 1}
  Counts = {1, 2}
  Kinds = {"inquiry", "badInquiry", "modeSense", "sense", "capacity", "ready", "badDiagnostic", "read", "write", "unknown", "badBlock"}
  MaxEvents = 4
PROPERTIES
  DisconnectStopsTask
CHECK_DEADLOCK FALSE
