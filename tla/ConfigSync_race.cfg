\* The daemon, two callbacks and a --once process share the lock.
CONSTANTS
  d = d
  k1 = k1
  k2 = k2
  o1 = o1
  a = a
  b = b
  x = x
  Daemon = d
  Callbacks = {k1, k2}
  Onces = {o1}
  Contents = {a, b, x}
  Valid = {a, b}
  None = None
  Modes = {"watch"}
  Faults <- AnyFault
  MaxFaults = 1
  MaxPublish = 2
  MaxOnce = 1
SPECIFICATION FairSpec
INVARIANT MetaDescribesCache
PROPERTIES
  ImplementsPublishedConfig
  OnceEnds
