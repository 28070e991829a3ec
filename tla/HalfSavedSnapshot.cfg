SPECIFICATION FairSpec
CONSTANTS
  o1 = o1  o2 = o2  o3 = o3
  NoDatabase = NoDatabase  None = None
  Ops = {o1, o2}
  Fresh = {}
  Library = o3
  Keep = 2
  MaxFaults = 1
  MaxUnread = 0
PROPERTIES
  SettlingRepeatable
CHECK_DEADLOCK FALSE
