\* A --once process beside the polling daemon; nothing fails.
CONSTANTS
  d = d
  k1 = k1
  k2 = k2
  o1 = o1
  a = a
  b = b
  x = x
  Daemon = d
  Callbacks = {}
  Onces = {o1}
  Contents = {a, b, x}
  Valid = {a, b}
  None = None
  Modes = {"poll"}
  Faults <- NoFault
  MaxFaults = 0
  MaxPublish = 1
  MaxOnce = 1
SPECIFICATION FairSpec
PROPERTY Converges
