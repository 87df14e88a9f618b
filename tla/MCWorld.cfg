SPECIFICATION FairSpec
CONSTANTS
  f1 = f1  f2 = f2
  r1 = r1  w1 = w1  t1 = t1  t2 = t2
  c1 = c1  s1 = s1
  Fusionees = {f1, f2}
  Threads = {r1, w1, t1, t2}
  Fid <- MCFid
  Reader <- MCReader
  None = None
  Calls = {c1}
  Callers = {t1, t2}
  Owners = {r1}
  MaxCount = 2
  SerialMod = 3
  Devs <- MCDevs
  Skirmishes = {s1}
  MaxDepth = 2
  MaxNotify = 0
  UseWait = FALSE
  GivesBack = FALSE
INVARIANTS LentIsReserved   NoLostWakeup
PROPERTY LentIsGranted
\* Threads may end up holding what the others wait for.
CHECK_DEADLOCK FALSE
