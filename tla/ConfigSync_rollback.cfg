\* One failing meta write, then the operator rolls the configuration back.
CONSTANTS
  d = d
  k1 = k1
  k2 = k2
  o1 = o1
  a = a
  b = b
  x = x
  Daemon = d
  Callbacks = {}
  Onces = {}
  Contents = {a, b, x}
  Valid = {a, b}
  None = None
  Modes = {"poll"}
  Faults <- FailingMeta
  MaxFaults = 1
  MaxPublish = 2
  MaxOnce = 0
SPECIFICATION FairSpec
PROPERTY Converges
