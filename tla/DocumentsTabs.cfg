SPECIFICATION DocumentsSpec
CONSTANTS
  d1 = d1
  d2 = d2
  d3 = d3
  Null = Null
  Classes <- TwoClasses
  Written <- AllKotlin
  Preferences = {"auto", "java"}
  DocumentLimit = 1
  ClosedLimit = 1
  Ops = {"select", "peek", "references", "language", "options", "archive", "close", "reopen", "pin", "move", "split", "focus"}
  MaxActs = 5
  MaxCalls = 2
  MaxGroups = 2
  MaxSessions = 2
CHECK_DEADLOCK FALSE
SYMMETRY MCSymmetry2
INVARIANTS DocumentsTypeOK CacheOfArchive CacheInBounds LoadingIsFetched ResultsAreAsked
