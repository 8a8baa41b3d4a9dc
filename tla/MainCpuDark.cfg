SPECIFICATION Spec
CONSTANTS
  CardSlot = {TRUE}
INVARIANTS
  LogsPoweredUp
