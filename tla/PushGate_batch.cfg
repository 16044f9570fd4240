\* Two overlapping pushes of one or two refs each.
CONSTANTS
  P = P
  Q = Q
  Pushes = {P, Q}
  MaxLines = 2
  Hooks <- GateHooks
  Commits <- GateCommits
  Reach <- GateReach
  Parents <- GateParents
  Email <- GateEmail
  Subjects = {"task", "none"}
  Subject <- GateSubject
  Heads <- GateHeads
  Tags <- GateTags
  Refs0 <- GateRefs0
  Users = {"alice"}
  Protocols = {"ssh"}
  Project <- GateProject
  Names <- GateNames
  ToLower <- GateToLower
  Configs <- GateConfigs
  Zero = "0"
  None = None
  MaxFaults = 1
SPECIFICATION GateSpec
SYMMETRY Symmetry
INVARIANTS
  GateTypeOK
  AllOrNothing
PROPERTIES
  ImplementsHookRules
