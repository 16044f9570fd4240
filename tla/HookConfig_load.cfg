\* A hook (hooks share nothing but the file), any sequence of published contents
\* and hand edits before, while and after it loads.
CONSTANTS
  Hooks = {h1}
  Texts = {"text"}
  Bad = Bad
  Values <- MCValues
  Facts <- MCFacts
  Nil = Nil
  Protocols = {"web", "http", "ssh", ""}
  Strings <- MCStrings
  Regexps <- MCRegexps
  Templates <- MCTemplates
  ParsesAs <- MCParsesAs
  Body <- MCBody
  Contents <- MCContents
  Garbage = Garbage
  None = None
SPECIFICATION Spec
INVARIANTS
  TypeOK
  SyncedLoads
  FailsClosed
  MessageIsWhole
