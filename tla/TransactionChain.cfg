SPECIFICATION Spec
CONSTANTS
  d0 = d0  d1 = d1  d2 = d2  d3 = d3
  a = a  b = b  c = c  x = x  y = y
  o1 = o1  o2 = o2  o3 = o3
  NoDatabase = NoDatabase  Unplanned = Unplanned  Absent = Absent  NoOp = NoOp
  Ops = {o1, o2, o3}
  Fresh = {o1}
  Databases = {d0, d1, d2, d3}
  Media = {a, b, c}
  Bytes = {x, y}
  Refs <- MCRefs
  New <- MCNew
  Add <- MCAdd
  Del <- MCDel
  Foreign = {d2, d3}
  Library = NoDatabase
  Audio <- MCAudio
  MaxFaults = 1
  MaxGen = 0
INVARIANTS
  LastGoodPlayable
PROPERTIES
  ImplementsRegister
  UnknownKept
CHECK_DEADLOCK FALSE
