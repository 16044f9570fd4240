\* A protected branch whose rule lists allowed protocols only.
CONSTANTS
  h1 = h1
  h2 = h2
  Hooks = {h1}
  Commits <- MCCommits
  Reach <- MCReach
  Parents <- MCParents
  Email <- MCEmail
  Subjects <- MCSubjects
  Subject <- MCSubject
  Heads <- MCHeads
  Tags <- MCTags
  Refs0 <- MCRefs0
  Users <- MCUsers
  Protocols <- MCProtocols
  Project <- MCProject
  Names <- MCNames
  ToLower <- MCToLower
  Configs <- AllowOnlyConfigs
  Zero = "0"
  None = None
  MaxFaults = 1
SPECIFICATION Spec
INVARIANT OnlyAllowedProtocols
