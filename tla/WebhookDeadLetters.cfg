SPECIFICATION Spec
CONSTANTS
  Events = {e1, e2}
  MemoryCap = 1
  MaxCrashes = 0
  MaxDisconnects = 1
  MaxPosts = 8
  Nothing = Nothing
SYMMETRY Symmetric
INVARIANTS FailuresAreDeadLettered
