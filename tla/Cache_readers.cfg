\* A goroutine of the daemon, one of a --once process, a hook that reads.
CONSTANTS
  t1 = t1
  t2 = t2
  t3 = t3
  p1 = p1
  p2 = p2
  r1 = r1
  a = a
  b = b
  x = x
  Threads = {t1, t3}
  Procs = {p1, p2}
  ProcOf <- MCProcOf
  Readers = {r1}
  Contents = {a, x}
  Valid = {a}
  Ids = {1, 2, 3, 4, 5}
  None = None
  Torn = Torn
  WithMeta = FALSE
  MaxFaults = 1
SPECIFICATION FairSpec
INVARIANT NoTornRead
PROPERTY Returns
