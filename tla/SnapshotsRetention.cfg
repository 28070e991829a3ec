SPECIFICATION Spec
CONSTANTS
  o1 = o1  o2 = o2  o3 = o3
  NoDatabase = NoDatabase  None = None
  Ops = {o1, o2, o3}
  Fresh = {o1}
  Library = NoDatabase
  Keep = 2
  MaxFaults = 2
  MaxUnread = 1
SYMMETRY Symmetry
INVARIANTS
  NoDanglingEntry
  NumbersDistinct
PROPERTIES
  RestorePointsKept
  NewestKept
CHECK_DEADLOCK FALSE
