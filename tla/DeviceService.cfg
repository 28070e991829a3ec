SPECIFICATION FairService
CONSTANTS
  k1 = k1  u1 = u1  l1 = l1  l2 = l2  watcher = watcher  main = main
  Keys = {k1}
  Users = {u1}
  Watcher = watcher
  Main = main
  MaxInputs = 1
  Listeners = {l1}
PROPERTIES
  QuietAfterQuit
  NotificationArrives
  QuitEnds
  ScanEnds
CHECK_DEADLOCK FALSE
