SPECIFICATION FairSpec
CONSTANTS
  d0 = d0  d1 = d1  d2 = d2  d3 = d3
  a = a  b = b  c = c  x = x  y = y
  o1 = o1  o2 = o2  o3 = o3
  NoDatabase = NoDatabase  Unplanned = Unplanned  Absent = Absent  NoOp = NoOp
  Ops = {o1}
  Fresh = {}
  Databases = {d0, d1}
  Media = {a, b, c}
  Bytes = {x, y}
  Refs <- SwapRefs
  New <- SwapNew
  Add <- SwapAdd
  Del <- SwapDel
  Foreign = {}
  Library = d0
  Audio <- MCAudio
  MaxFaults = 3
  MaxGen = 1
INVARIANTS
  TypeOK
  WindowRecoverable
  EvidenceFirst
  RecoveryPointPinned
PROPERTIES
  DoneMeansSettled
  PlannedMountOnly
  ResultsTruthful
  RecoveryConverges
CHECK_DEADLOCK FALSE
