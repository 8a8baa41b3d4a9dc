SPECIFICATION Spec
CONSTANTS
  Ids <- MCIds
  HostFiles <- MCHostFiles
  MaxEdits = 4
  MaxCuts = 2
INVARIANT IdAlwaysWhole
