\* The same instance: a template that defines a template of its own name.
CONSTANTS
  Hooks = {h1}
  Texts = {"text"}
  Bad = Bad
  Values <- MCValues
  Facts <- MCFacts
  Nil = Nil
  Protocols = {"web", "http", "ssh", ""}
  Strings <- MCStrings
  Regexps <- MCRegexps
  Templates <- MCTemplates
  ParsesAs <- MCParsesAs
  Body <- MCBody
  Contents <- MCContents
  Garbage = Garbage
  None = None
SPECIFICATION Spec
INVARIANT EverySyncedLoads
