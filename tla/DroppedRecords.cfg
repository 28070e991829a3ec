SPECIFICATION Spec
CONSTANTS
  Width = 997
  Layout <- MCLayout
  ObservedTrack = 30
  ExtendedTrack = 31
  ObservedPlaylists = {9, 10}
  Files <- SkippedFiles
  Fragile = {}
  Plans <- MCPlans
  Generations <- MCGenerations
  Key = 7
  MaxPath = 8
  Audio <- MCAudio
  Candidates <- MCCandidates
  Scribbles = {}
  MaxDamage = 0
  MaxEdits = 1
  Mystery = 77
PROPERTIES
  UnknownDataKept
CHECK_DEADLOCK FALSE
