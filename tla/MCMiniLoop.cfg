SPECIFICATION FairSpec
CONSTANTS
  LineSz = 2
  NX = 1
  Page = 2
  MaxPulses = 2
  Dates = {d1}
  Year80 = y80
  NoDate = none
  Places <- MCPlaces
  LatGrid = 2
  LonGrid <- MCLonGrid
INVARIANTS
  TypeOK
  LineTakesEmptyBuffer
  CpbIsPulsesOrOnePageMore
  LinesGoToDriveFile
  SamePlaceSameLine
PROPERTIES
  DueBinIsLogged
