SPECIFICATION Spec
CONSTANTS
  Settings <- mcSettings
  Nil = Nil
  MaxFailures = 2
INVARIANTS
  RowAgeBounded
  FreshWhileHeard
