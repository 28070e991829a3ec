SPECIFICATION Spec
CONSTANTS
  d0 = d0  d1 = d1  d2 = d2  d3 = d3
  a = a  b = b  c = c  x = x  y = y
  o1 = o1  o2 = o2  o3 = o3
  NoDatabase = NoDatabase  Unplanned = Unplanned  Absent = Absent  NoOp = NoOp
  Ops = {o1, o2, o3}
  Fresh = {o1, o2}
  Databases = {d1, d2, d3}
  Media = {b, c}
  Bytes = {x, y}
  Refs <- RetryRefs
  New <- RetryNew
  Add <- RetryAdd
  Del <- RetryDel
  Foreign = {}
  Library = NoDatabase
  Audio <- RetryAudio
  MaxFaults = 2
  MaxGen = 0
PROPERTIES
  CleansUnreferencedOnly
CHECK_DEADLOCK FALSE
