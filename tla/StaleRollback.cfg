SPECIFICATION Spec
CONSTANTS
  d0 = d0  d1 = d1  d2 = d2  d3 = d3
  a = a  b = b  c = c  x = x  y = y
  o1 = o1  o2 = o2  o3 = o3
  NoDatabase = NoDatabase  Unplanned = Unplanned  Absent = Absent  NoOp = NoOp
  Ops = {o1, o2, o3}
  Fresh = {}
  Databases = {d0, d1, d2, d3}
  Media = {a, b, c}
  Bytes = {x, y}
  Refs <- MCRefs
  New <- MCNew
  Add <- MCAdd
  Del <- MCDel
  Foreign = {}
  Library = d0
  Audio <- MCAudio
  MaxFaults = 2
  MaxGen = 0
PROPERTIES
  SelectsLastVersion
CHECK_DEADLOCK FALSE
