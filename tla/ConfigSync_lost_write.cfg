\* One failing write of a change that the SDK has delivered.
CONSTANTS
  d = d
  k1 = k1
  k2 = k2
  o1 = o1
  a = a
  b = b
  x = x
  Daemon = d
  Callbacks = {k1}
  Onces = {}
  Contents = {a, b, x}
  Valid = {a, b}
  None = None
  Modes = {"watch"}
  Faults <- FailingWrite
  MaxFaults = 1
  MaxPublish = 1
  MaxOnce = 0
SPECIFICATION FairSpec
PROPERTY ChangeArrives
