SPECIFICATION FairSpec
CONSTANTS
  Workers = {w1}
  Managers = {m1, m2}
  f1 = f1
  Files = {f1, f2}
  Wanted = {f1, f2}
  SizeOf <- MCSizeOf
  JunkBytes = {3}
  IntMax = 3
  Capacity = 1
  MaxSessions = 2
  None = None
CHECK_DEADLOCK FALSE
INVARIANTS SingleWorkerNeverThrows NoLostWakeupFull
PROPERTIES SessionEnds
