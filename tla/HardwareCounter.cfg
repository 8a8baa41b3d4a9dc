SPECIFICATION Spec
CONSTANTS
  Mod = 3
  Clock = 6
  Delay = 3
  MaxPulses = 7
  MaxAge = 5
INVARIANTS
  TypeOK
  CountIsPulsesOrOneTurnMore
  AvailableInTime
