SPECIFICATION Spec
CONSTANTS
  d1 = d1  d2 = d2  f = f  g = g  f1 = f1  f2 = f2  g1 = g1  x = x  y = y  z = z
  Absent = Absent
  Dirs = {d1, d2}
  Files = {f, g}
  Blocks = {f1, f2, g1}
  Contents = {x, y, z}
  DirOf <- MCDirOf
  FileOf <- MCFileOf
  Start <- MCStart
  MaxChanges = 2
  MaxGen = 1
INVARIANTS
  ProofHeldAtOnce
  EntriesWereOnBoth
  NothingLeftOut
CHECK_DEADLOCK FALSE
