SPECIFICATION FairSpec
CONSTANTS
  f1 = f1
  r1 = r1  w1 = w1  w2 = w2
  k1 = k1  k2 = k2  k3 = k3
  Fusionees = {f1}
  Threads = {r1, w1, w2}
  Fid <- MCFid
  Reader <- MCReader
  None = None
  Keys = {k1, k2, k3}
  Message <- MCMessage
  MaxQueued = 3
PROPERTIES WaitsOut InOrder SentIsRead WaitEnds
\* The world may end with the file released.
CHECK_DEADLOCK FALSE
