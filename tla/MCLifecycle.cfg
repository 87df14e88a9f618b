SPECIFICATION FairSpec
CONSTANTS
  p1 = p1  p2 = p2  p3 = p3
  m1 = m1  m2 = m2  m3 = m3
  Procs = {p1, p2, p3}
  Mms = {m1, m2, m3}
  None = None
  Api <- MCApi
  Supported = {3, 4, 8}
  Timeouts = {"none", "infinite", "bounded"}
  MaxId = 3
  Starts <- MCStarts
INVARIANT IInv
PROPERTIES EnterReturns KillReturns
\* When all processes have gone nothing more happens.
CHECK_DEADLOCK FALSE
