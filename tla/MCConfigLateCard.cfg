SPECIFICATION Spec
CONSTANTS
  Ids <- MCIds
  HostFiles <- MCHostFiles
  MaxEdits = 5
  MaxCuts = 2
INVARIANT SavedAlwaysReturns
