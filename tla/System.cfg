SPECIFICATION FairSpec
CONSTANTS
  w1 = w1  m1 = m1   f1 = f1  f2 = f2 f3 = f3  f4 = f4 c1 = c1  c2 = c2
  Workers = {w1}
  Managers = {m1}
  Directory <- MCDirectory
  Wanted = {f1, f2, f3}
  SizeOf <- MCSizeOf
  JunkBytes = {0}
  IntMax = 3
  Capacity = 1
  MaxSessions = 2
  None = None
  CWorkers = {c1, c2}
  CCapacity = 1
  Removable = {f3}
INVARIANTS FetchIdKnown WaitedForIsOpen ListsLeaveAWorker
PROPERTIES RequestEnds
CHECK_DEADLOCK FALSE
