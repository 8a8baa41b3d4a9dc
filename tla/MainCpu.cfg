SPECIFICATION FairSpec
CONSTANT
  CardSlot = {TRUE, FALSE}
INVARIANTS
  TypeOK
  SleepsPoweredOff
  NeverRefusedByLock
PROPERTIES
  SessionNotCut
  FlaggedRequestIsHandled
  OffSleepsOnLogs
