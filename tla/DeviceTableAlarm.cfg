SPECIFICATION Spec
CONSTANTS
  NSlots = 2
  Ids = {0, 1}
  Cpms = {0}
  Timeout = 0
PROPERTIES
  AlarmWhenSelectedIsLost
