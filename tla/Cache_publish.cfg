\* Two goroutines of one process, both files, one crash.
CONSTANTS
  t1 = t1
  t2 = t2
  t3 = t3
  p1 = p1
  p2 = p2
  r1 = r1
  a = a
  b = b
  x = x
  Threads = {t1, t2}
  Procs = {p1}
  ProcOf <- MCProcOf
  Readers = {}
  Contents = {a, b, x}
  Valid = {a, b}
  Ids = {1, 2, 3}
  None = None
  Torn = Torn
  WithMeta = TRUE
  MaxFaults = 1
SPECIFICATION Spec
SYMMETRY Symmetry
INVARIANTS
  TypeOK
  PublishedIsDurable
  AckMeansPublished
PROPERTY Implements
