SPECIFICATION FairSpec
CONSTANTS
  c1 = c1
  c2 = c2
  c3 = c3
  t1 = t1
  t2 = t2
  t3 = t3
  r1 = r1
  r2 = r2
  Calls <- ThreeCalls
  Tokens <- ThreeTokens
  Domains = {"Interactive", "CodeSearch"}
  SessionIds = {1, 2}
  RequestIds = {1}
  NoToken = NoToken
  NoKey = NoKey
  NoCall = NoCall
  ReusedDomains = {}
  Ops = {"open", "close", "projects", "class", "inspect", "cancelAll"}
  MaxSession = 2
  MaxCalls = 4
  MaxClasses = 1
  Panics = TRUE
INVARIANT FreeSessionIsClean
PROPERTIES ListIsSnapshot EveryCallReturns
