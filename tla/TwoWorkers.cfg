SPECIFICATION FairSpec
CONSTANTS
  Workers = {w1, w2}
  Managers = {m1}
  f1 = f1
  Files = {f1, f2, f3}
  Wanted = {f1, f2, f3}
  SizeOf <- MCSizeOf
  JunkBytes = {3}
  IntMax = 3
  Capacity = 2
  MaxSessions = 2
  None = None
CHECK_DEADLOCK FALSE
INVARIANTS TypeOK ReportAtQuiescence ReportAgrees NoLostWakeupEmpty NoLostWakeupFull SomeoneRuns
PROPERTIES SessionEnds Mirrors
