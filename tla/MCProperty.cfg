SPECIFICATION FairSpec
CONSTANTS
  p1 = p1  p2 = p2
  t1 = t1  t2 = t2  t3 = t3
  f1 = f1  f2 = f2
  Properties = {p1}
  Threads = {t1, t2, t3}
  Fusionees = {f1, f2}
  Fid <- MCFid
  Master = f1
  None = None
  MaxCount = 2
INVARIANT IInv
PROPERTIES IsRecursiveLock PurchaseIsBounded HoldupFrees
