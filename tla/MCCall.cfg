SPECIFICATION FairSpec
CONSTANTS
  f1 = f1  f2 = f2
  r1 = r1  w1 = w1  t1 = t1  t2 = t2
  c1 = c1
  Fusionees = {f1, f2}
  Threads = {r1, w1, t1, t2}
  Fid <- MCFid
  Reader <- MCReader
  None = None
  Calls = {c1}
  Callers = {t1, t2}
  Owners = {r1, w1}
  MaxCount = 3
  SerialMod = 3
  Devs <- MCDevs
INVARIANTS ResultIsOwn PendingIsUnanswered FreedOnce DestroyedOwesNothing
PROPERTIES CallReturns DestroyReturns
\* After MaxCount executions nothing more may happen.
CHECK_DEADLOCK FALSE
