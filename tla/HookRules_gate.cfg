\* Two overlapping pushes, each under any of three configurations.
CONSTANTS
  h1 = h1
  h2 = h2
  Hooks = {h1, h2}
  Commits <- MCCommits
  Reach <- MCReach
  Parents <- MCParents
  Email <- MCEmail
  Subjects <- MCSubjects
  Subject <- MCSubject
  Heads <- MCHeads
  Tags <- MCTags
  Refs0 <- MCRefs0
  Users <- MCUsers
  Protocols <- MCProtocols
  Project <- MCProject
  Names <- MCNames
  ToLower <- MCToLower
  Configs <- MCConfigs
  Zero = "0"
  None = None
  MaxFaults = 1
SPECIFICATION Spec
SYMMETRY Symmetry
INVARIANTS
  TypeOK
  Guarded
  VerdictIsDue
PROPERTIES
  NoRewrite
  ImplementsRepository
