SPECIFICATION Spec
CONSTANTS
  Width = 997
  Layout <- MCLayout
  ObservedTrack = 30
  ExtendedTrack = 31
  ObservedPlaylists = {9, 10}
  Files <- MCFiles
  Fragile <- MCFragile
  Plans <- MCPlans
  Generations <- MCGenerations
  Key = 7
  MaxPath = 8
  Audio <- MCAudio
  Candidates <- MCCandidates
  Scribbles = {0, 250}
  MaxDamage = 1
  MaxEdits = 2
  Mystery = 77
INVARIANTS
  ReadsStayInside
  OutputAccepted
  DraftSound
  WrittenStaysEditable
  ReadyIsSound
  UnknownDataReported
PROPERTIES
  GeneratedIdsAreNew
  ReportedDataKept
  EngineSeesTheAudio
CHECK_DEADLOCK FALSE
