SPECIFICATION FairSpec
CONSTANTS
  Workers = {w1}
  Managers = {m1}
  f1 = f1
  Files = {f1}
  Wanted = {f1}
  SizeOf <- MCSizeOf
  JunkBytes <- MCJunk
  IntMax = 3
  Capacity = 1
  MaxSessions = 2
  None = None
CHECK_DEADLOCK FALSE
PROPERTIES WorkersContinue
