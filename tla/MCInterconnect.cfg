SPECIFICATION FairSpec
CONSTANTS
  c0 = c0
  c1 = c1
  t0 = t0
  t1 = t1
  s0 = s0
  s1 = s1
  Torn = Torn
  Fifos = {c0, c1}
  Frames <- MCFrames
  Loader = insmod
  Master = c1
  Tasks = {t0, t1}
  Cpu <- MCCpu
  Sids = {s0, s1}
  Owner <- MCOwner
  FrameNMax = 3
  MaxOps = 2
  MaxStarts = 2
INVARIANT TablesAgree
PROPERTIES FifosAreQueues FifoEmpties
\* The tasks stop after MaxOps calls.
CHECK_DEADLOCK FALSE
