SPECIFICATION FairSpec
CONSTANTS
  r1 = r1  r2 = r2  r3 = r3
  t1 = t1  t2 = t2
  f1 = f1  f2 = f2
  Refs = {r1, r2, r3}
  Threads = {t1, t2}
  Fusionees = {f1, f2}
  Fid <- MCFid
  None = None
  MaxLocal = 1
  MaxGlobal <- MCMaxGlobal
  ReportsMod = 2
  Starts <- TwoOneForking
INVARIANTS CountsAddUp LockedIsZero
PROPERTIES ZeroIsReported ZeroIsNoticed DeadHoldNothing
\* When all processes have gone nothing more happens.
CHECK_DEADLOCK FALSE
