SPECIFICATION FairSpec
CONSTANTS
  NSlots = 2
  Ids = {0, 1, 2}
  Cpms = {0, 1}
  Timeout = 0
INVARIANTS
  TypeOK
  ActiveIdsDistinct
  CpmIsOwn
PROPERTIES
  NewcomerGetsIn
