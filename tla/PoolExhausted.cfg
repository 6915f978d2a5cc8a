SPECIFICATION FairSpec
CONSTANTS
  w1 = w1  m1 = m1   f1 = f1  f2 = f2 f3 = f3  f4 = f4 c1 = c1  c2 = c2
  Workers = {w1}
  Managers = {m1}
  Directory <- MCDirectory
  Wanted = {f1, f2, f3, f4}
  SizeOf <- MCSizeOf
  JunkBytes = {0}
  IntMax = 3
  Capacity = 1
  MaxSessions = 1
  None = None
  CWorkers = {c1}
  CCapacity = 1
  Removable = {}
PROPERTIES QueuedIsFetched
CHECK_DEADLOCK FALSE
