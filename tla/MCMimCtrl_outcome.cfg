\* A transfer that fails.
CONSTANTS
  MaxCommands = 2
  Pictures = {p1, p2}
  NoPicture = none
  Eager = {}
SPECIFICATION Spec
INVARIANT TruthfulResult
