SPECIFICATION FairSpec
CONSTANTS
  s1 = s1
  t1 = t1  t2 = t2  t3 = t3
  f1 = f1  f2 = f2
  Skirmishes = {s1}
  Threads = {t1, t2, t3}
  Fusionees = {f1, f2}
  Fid <- MCFid
  None = None
  MaxDepth = 2
  MaxNotify = 2
INVARIANT IInv
PROPERTIES IsRecursiveLock FreeIsTaken NotifiedLeaves DeadHoldNothing
