SPECIFICATION FairSessionSpec
CONSTANTS
  d1 = d1  d2 = d2  b = b  x = x  o1 = o1  o2 = o2
  NoDatabase = NoDatabase  Unplanned = Unplanned  Absent = Absent  NoOp = NoOp
  Ops = {o1, o2}
  Fresh = {o1}
  Restores = {o2}
  Databases = {d1, d2}
  Media = {b}
  Bytes = {x}
  Refs <- MCRefs
  New <- MCNew
  Add <- MCAdd
  Del <- MCDel
  Foreign = {}
  Library = NoDatabase
  Audio <- MCAudio
  MaxFaults = 1
  MaxGen = 1
INVARIANTS
  OneOpenJournal
PROPERTIES
  RestoresBackedLibrary
  RestoreWaits
  ResumptionConverges
CHECK_DEADLOCK FALSE
