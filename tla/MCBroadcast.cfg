SPECIFICATION FairSpec
CONSTANTS
  f1 = f1  f2 = f2  f3 = f3
  t1 = t1  t2 = t2  t3 = t3
  p1 = p1  p2 = p2  p3 = p3
  Fusionees = {f1, f2, f3}
  Threads = {t1, t2, t3}
  Fid <- MCFid
  Reader <- MCReader
  None = None
  MaxQueued = 4
  Channels = {1, 2}
  MaxAttach = 1
  MaxDispatch = 2
  Pools = {p1, p2, p3}
  MaxSizes = {1, 3}
  Sizes = {1, 2}
  ShmBase = 4
  ShmSize = 12
  PageSize = 1
  Granule = 2
  Starts <- MCStarts
INVARIANTS CalledAfterAll NodesArePresent LastToldIsSize PoolsAreDisjoint
PROPERTY DispatchIsCalled
\* When all processes have gone nothing more happens.
CHECK_DEADLOCK FALSE
