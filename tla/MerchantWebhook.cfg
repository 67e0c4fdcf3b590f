SPECIFICATION FairSpec
CONSTANTS
  Events = {e1, e2}
  MemoryCap = 1
  MaxCrashes = 1
  MaxDisconnects = 1
  MaxPosts = 8
  Nothing = Nothing
INVARIANTS TypeOK EventsAccountedFor OnceAccepted
PROPERTIES EventsSettled
