\* The daemon alone, listening or polling, started in either mode.
CONSTANTS
  d = d
  k1 = k1
  k2 = k2
  o1 = o1
  a = a
  b = b
  x = x
  Daemon = d
  Callbacks = {k1}
  Onces = {}
  Contents = {a, b, x}
  Valid = {a, b}
  None = None
  Modes = {"watch", "poll"}
  Faults <- Recoverable
  MaxFaults = 3
  MaxPublish = 3
  MaxOnce = 0
SPECIFICATION FairSpec
INVARIANTS
  TypeOK
  RemembersCache
  ListenerKeepsUp
PROPERTIES
  NoIdleRewrite
  SkipsOnlyWhatIsThere
  Converges
  StopsWhenAsked
