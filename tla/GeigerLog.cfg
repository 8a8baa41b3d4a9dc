SPECIFICATION LogSpec
CONSTANTS
  NX = 3
  Counts = {0, 1, 2}
  Dates = {d1, d2}
  Year80 = Year80
  NoDate = NoDate
  MaxTotal = 3
  MaxRun = 4
INVARIANTS
  LogTypeOK
  CpmIsLastBins
  ValidAfterFullWindow
  OneFilePerDrive
