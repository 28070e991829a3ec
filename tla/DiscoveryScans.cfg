SPECIFICATION Spec
CONSTANTS
  k1 = k1  k2 = k2  u1 = u1  watcher = watcher  main = main
  Keys = {k1, k2}
  Users = {u1}
  Watcher = watcher
  Main = main
  MaxInputs = 2
INVARIANTS
  CurrentIsPresent
  CatalogComplete
  TokenNamesOneMount
PROPERTIES
  SilentAfterStop
CHECK_DEADLOCK FALSE
